---------------------------- MODULE PartsProofs -----------------------------
(***************************************************************************)
(* The books and tables of Parts stay right for every value of the         *)
(* constants.  A step of the whole is a step of one part, or leaves it     *)
(* alone (PartsSteps), so that each part has an inductive invariant of its *)
(* own:                                                                    *)
(*                                                                         *)
(* - pool: an open pool never runs dry, so that every quotient is defined; *)
(*   each operation rounds in favour of those who stay.  Its books are     *)
(*   sums that each operation changes at one account, and an account that  *)
(*   acts alone trades with what the creator put in.                       *)
(* - staking: the stake behind a share is one unit until its validator is  *)
(*   slashed, and never more; a blob is sound whoever wrote it, and in     *)
(*   balance with what came in while no slash has undone a write.          *)
(* - relay: an open socket holds the slot of its role, its session is in   *)
(*   the map, and no socket of its role is still closing.                  *)
(* - settings: what the cache and every read in flight hold was the table  *)
(*   at a time, not longer ago than a read and the cache may take.         *)
(* - navigation: an id is used once, and a deletion under way is of an     *)
(*   item that an admin added.                                             *)
(* - wallet: the disk, the open tabs and the writes to come all hold the   *)
(*   wallets from before the vault that the user has not removed.          *)
(* - proposals: what is approved had ended and passed, and what was        *)
(*   carried out stays so while no status is lost.                         *)
(***************************************************************************)
EXTENDS Parts, SumProofs, SequenceTheorems

LEMMA PartsSteps ==
    ASSUME [PartsNext]_allVars
    PROVE  /\ [Next]_vars /\ [Stakes!Next]_stakesVars /\ [Shared!Next]_sharedVars
           /\ [Gov!Next]_govVars /\ [Settings!Next]_settingsVars /\ [Nav!Next]_navVars
           /\ [Wallets!Next]_vaultVars /\ [Relay!Next]_relayVars
<1>1. CASE UNCHANGED allVars
  BY <1>1 DEF allVars
<1>2. CASE PartsNext
  BY <1>2 DEF PartsNext, OnlyAmm, OnlyStakes, OnlyShared, OnlyGov, OnlySettings, OnlyNav,
              OnlyVault, OnlyRelay
<1>. QED BY <1>1, <1>2

-----------------------------------------------------------------------------
(* The pool. *)

\* An open pool has both reserves, and the shares that nobody owns.
NotDrained == Initialized => pool.x > 0 /\ pool.y > 0 /\ pool.lp >= MinLiquidity

PoolInv == TypeOK /\ NotDrained

-----------------------------------------------------------------------------
(* Arithmetic.  The products are beyond what is decided at once: each lemma
   names the few that matter. *)

\* What rounding down means.
LEMMA DivBounds ==
  ASSUME NEW n \in Nat, NEW d \in Nat, d > 0
  PROVE  /\ n \div d \in Nat
         /\ (n \div d) * d <= n
         /\ n < (n \div d) * d + d
  BY SMTT(20)

\* Products of naturals grow with their factors.
LEMMA Product ==
  ASSUME NEW a \in Nat, NEW b \in Nat, NEW c \in Nat, NEW d \in Nat, a >= b, c >= d
  PROVE  a * c >= b * d
<1>1. a * c >= b * c BY SMTT(20)
<1>2. b * c >= b * d BY SMTT(20)
<1>3. a * c \in Nat /\ b * c \in Nat /\ b * d \in Nat BY SMTT(20)
<1>. QED BY <1>1, <1>2, <1>3

\* A product that is below another with a common factor has the smaller factor.
LEMMA Cancel ==
  ASSUME NEW a \in Nat, NEW b \in Nat, NEW c \in Nat, a * c < b * c
  PROVE  a < b
<1>1. SUFFICES ASSUME a >= b PROVE FALSE OBVIOUS
<1>2. a * c >= b * c BY <1>1, Product
<1>3. a * c \in Nat /\ b * c \in Nat BY SMTT(20)
<1>. QED BY <1>2, <1>3

\* Enough of each reserve behind a share is enough of their product.
LEMMA PairKeeps ==
  ASSUME NEW x \in Nat, NEW y \in Nat, NEW l \in Nat,
         NEW xx \in Nat, NEW yy \in Nat, NEW ll \in Nat,
         xx * l >= x * ll, yy * l >= y * ll
  PROVE  xx * yy * l * l >= x * y * ll * ll
<1>1. /\ xx * l \in Nat /\ x * ll \in Nat /\ yy * l \in Nat /\ y * ll \in Nat
  BY SMTT(20)
<1>2. (xx * l) * (yy * l) >= (x * ll) * (y * ll)
  BY <1>1, Product
<1>3. (xx * l) * (yy * l) = xx * yy * l * l
  BY SMTT(20)
<1>4. (x * ll) * (y * ll) = x * y * ll * ll
  BY SMTT(20)
<1>. QED BY <1>2, <1>3, <1>4

\* Shares worth no more than what is added leave the others what they had.
LEMMA AddKeeps ==
  ASSUME NEW x \in Nat, NEW l \in Nat, NEW in \in Nat, NEW lp \in Nat, x > 0,
         lp <= (in * l) \div x
  PROVE  (x + in) * l >= x * (l + lp)
<1>1. in * l \in Nat BY SMTT(20)
<1>2. (in * l) \div x \in Nat /\ ((in * l) \div x) * x <= in * l
  BY <1>1, DivBounds
<1>3. ((in * l) \div x) * x >= lp * x
  BY <1>2, Product
<1>4. lp * x \in Nat /\ ((in * l) \div x) * x \in Nat
  BY <1>2, SMTT(20)
<1>5. lp * x <= in * l
  BY <1>1, <1>2, <1>3, <1>4
<1>6. (x + in) * l = x * l + in * l /\ x * (l + lp) = x * l + lp * x /\ x * l \in Nat
  BY SMTT(20)
<1>. QED BY <1>1, <1>4, <1>5, <1>6

\* What shares are paid is rounded down: some of the reserve stays, and enough of it.
LEMMA RemoveKeeps ==
  ASSUME NEW x \in Nat, NEW l \in Nat, NEW lp \in Nat, x > 0, lp < l
  PROVE  LET q == (x * lp) \div l
         IN  q \in Nat /\ q < x /\ (x - q) * l >= x * (l - lp)
<1> DEFINE q == (x * lp) \div l
<1>1. x * lp \in Nat BY SMTT(20)
<1>2. q \in Nat /\ q * l <= x * lp
  BY <1>1, DivBounds
<1>3. x * lp < x * l /\ x * l \in Nat /\ q * l \in Nat
  BY <1>2, SMTT(20)
<1>4. q < x
  BY <1>1, <1>2, <1>3, Cancel
<1> HIDE DEF q
<1>5. (x - q) * l = x * l - q * l /\ x * (l - lp) = x * l - x * lp
  BY <1>2, SMTT(20)
<1>6. (x - q) * l >= x * (l - lp)
  BY <1>1, <1>2, <1>3, <1>5
<1>. QED BY <1>2, <1>4, <1>6 DEF q

\* A swap: the product of the reserves does not fall.
LEMMA SwapKeeps ==
  ASSUME NEW x \in Nat, NEW y \in Nat, NEW in \in Nat, NEW eff \in Nat, NEW out \in Nat,
         x > 0, eff <= in, out = (y * eff) \div (x + eff), out < y
  PROVE  (x + in) * (y - out) >= x * y
<1>1. y * eff \in Nat /\ x + eff \in Nat /\ x + eff > 0 BY SMTT(20)
<1>2. out * (x + eff) <= y * eff
  BY <1>1, DivBounds
<1>3. (x + in) * (y - out) >= (x + eff) * (y - out)
  BY Product
<1>4. (x + eff) * (y - out) = x * y + y * eff - out * (x + eff)
  <2>1. \A d \in Nat : d * (y - out) = d * y - out * d
    BY SMTT(20)
  <2>2. (x + eff) * y = x * y + y * eff
    BY SMTT(20)
  <2>. QED BY <1>1, <2>1, <2>2
<1>5. x * y \in Nat /\ out * (x + eff) \in Nat
      /\ (x + in) * (y - out) \in Nat /\ (x + eff) * (y - out) \in Nat
  BY SMTT(20)
<1>. QED BY <1>1, <1>2, <1>3, <1>4, <1>5

-----------------------------------------------------------------------------
(* The operations. *)

\* What every operation does to the variables, once its amounts are known.
LEMMA CommitPool ==
  ASSUME PoolInv, NEW a \in Account, NEW p \in [x : Nat, y : Nat, lp : Nat],
         NEW x \in Nat, NEW y \in Nat, NEW lp \in Nat, Commit(a, p, x, y, lp),
         Initialized => steps < MaxSteps,
         p.x > 0, p.y > 0, p.lp >= MinLiquidity
  PROVE  PoolInv'
<1>1. own' \in [Account -> [x : Nat, y : Nat, lp : Nat]]
  BY DEF Commit, PoolInv, TypeOK
<1>2. pool' = p /\ mirror' \in [x : Nat, y : Nat]
  BY DEF Commit
<1>3. acted' \subseteq Account
  BY DEF Commit, PoolInv, TypeOK
<1>4. steps' \in 0 .. MaxSteps
  BY PoolAssumption DEF Commit, PoolInv, TypeOK
<1>. QED BY <1>1, <1>2, <1>3, <1>4 DEF PoolInv, TypeOK, NotDrained, Initialized

\* A step of one account moves assets between it and the pool.
Trade(a) ==
    /\ pool'.x + own'[a].x = pool.x + own[a].x
    /\ pool'.y + own'[a].y = pool.y + own[a].y
    /\ pool'.lp + own[a].lp = pool.lp + own'[a].lp
    /\ Initialized'
    /\ \A b \in Account \ {a} : own'[b] = own[b]
    /\ acted' = acted \cup {a} /\ mirror' = [x |-> pool'.x, y |-> pool'.y]

LEMMA CommitTrade ==
  ASSUME PoolInv, Initialized, NEW a \in Account, NEW p \in [x : Nat, y : Nat, lp : Nat],
         NEW x \in Nat, NEW y \in Nat, NEW lp \in Nat, Commit(a, p, x, y, lp),
         p.x + x = pool.x + own[a].x, p.y + y = pool.y + own[a].y,
         p.lp + own[a].lp = pool.lp + lp, p.lp >= MinLiquidity
  PROVE  Trade(a)
<1>1. own' = [own EXCEPT ![a] = [x |-> x, y |-> y, lp |-> lp]] /\ pool' = p
      /\ own \in [Account -> [x : Nat, y : Nat, lp : Nat]]
  BY DEF Commit, PoolInv, TypeOK
<1>2. own'[a] = [x |-> x, y |-> y, lp |-> lp] /\ \A b \in Account \ {a} : own'[b] = own[b]
  BY <1>1
<1>3. acted' = acted \cup {a} /\ mirror' = [x |-> p.x, y |-> p.y]
  BY DEF Commit
<1>4. Initialized'
  BY <1>1, PoolAssumption DEF Initialized
<1>. QED BY <1>1, <1>2, <1>3, <1>4 DEF Trade

\* An open pool: its numbers, and those of an account.
LEMMA Numbers ==
  ASSUME PoolInv, NEW a \in Account
  PROVE  /\ pool.x \in Nat /\ pool.y \in Nat /\ pool.lp \in Nat
         /\ own[a].x \in Nat /\ own[a].y \in Nat /\ own[a].lp \in Nat
         /\ Initialized => pool.x > 0 /\ pool.y > 0 /\ pool.lp >= MinLiquidity /\ pool.lp > 0
  BY DEF PoolInv, TypeOK, NotDrained, Initialized

\* The creator's reserves become the pool's, and all but the locked shares its own.
Opening ==
    /\ pool'.x + own'[Creator].x = own[Creator].x
    /\ pool'.y + own'[Creator].y = own[Creator].y
    /\ pool'.lp = MinLiquidity + own'[Creator].lp
    /\ \A b \in Account \ {Creator} : own'[b] = own[b]
    /\ acted' = acted /\ mirror' = [x |-> pool'.x, y |-> pool'.y]

\* A pool is opened with two reserves: one that is zero would have no shares.
LEMMA CreateStep ==
  ASSUME PoolInv, NEW x \in Amounts, NEW y \in Amounts, Create(x, y)
  PROVE  PoolInv' /\ ~Initialized /\ Opening
<1>1. Creator \in Account /\ x \in Nat /\ y \in Nat
  BY PoolAssumption
<1>2. PICK lp \in MinLiquidity + 1 .. x + y :
         /\ IsSqrt(lp, x * y)
         /\ Commit(Creator, [x |-> x, y |-> y, lp |-> lp],
                   own[Creator].x - x, own[Creator].y - y, lp - MinLiquidity)
  BY DEF Create
<1>3. lp \in Nat /\ lp > MinLiquidity /\ lp > 0 /\ lp - MinLiquidity \in Nat
  BY <1>1, <1>2, PoolAssumption
<1>4. x > 0 /\ y > 0
  <2>1. x * y \in Nat /\ lp * lp \in Nat /\ lp * lp > 0 /\ lp * lp <= x * y
    BY <1>1, <1>2, <1>3, SMTT(20) DEF IsSqrt
  <2>2. x = 0 \/ y = 0 => x * y = 0
    BY <1>1, SMTT(20)
  <2>. QED BY <1>1, <2>1, <2>2
<1>5. own[Creator].x - x \in Nat /\ own[Creator].y - y \in Nat
  BY <1>1, Numbers DEF Create
<1>6. [x |-> x, y |-> y, lp |-> lp] \in [x : Nat, y : Nat, lp : Nat]
  BY <1>1, <1>3
<1>7. ~Initialized
  BY DEF Create
<1>8. PoolInv'
  BY <1>1, <1>2, <1>3, <1>4, <1>5, <1>6, <1>7, PoolAssumption, CommitPool
<1>9. Opening
  <2>1. /\ own' = [own EXCEPT ![Creator] = [x |-> own[Creator].x - x, y |-> own[Creator].y - y,
                                            lp |-> lp - MinLiquidity]]
        /\ pool' = [x |-> x, y |-> y, lp |-> lp] /\ mirror' = [x |-> x, y |-> y] /\ acted' = acted
        /\ own \in [Account -> [x : Nat, y : Nat, lp : Nat]]
    BY <1>2, <1>7 DEF Commit, PoolInv, TypeOK
  <2>2. own'[Creator] = [x |-> own[Creator].x - x, y |-> own[Creator].y - y, lp |-> lp - MinLiquidity]
        /\ \A b \in Account \ {Creator} : own'[b] = own[b]
    BY <1>1, <2>1
  <2>3. x + (own[Creator].x - x) = own[Creator].x /\ y + (own[Creator].y - y) = own[Creator].y
        /\ lp = MinLiquidity + (lp - MinLiquidity)
    BY <1>1, <1>3, Numbers, PoolAssumption
  <2>. QED BY <2>1, <2>2, <2>3 DEF Opening
<1>. QED BY <1>7, <1>8, <1>9

\* Liquidity is added at the ratio of the reserves, and never more than was offered.
LEMMA PairBounds ==
  ASSUME PoolInv, Initialized, NEW x \in Nat, NEW yMax \in Nat
  PROVE  LET in == Pair(x, yMax)
         IN  in.x \in Nat /\ in.y \in Nat /\ in.x <= x /\ in.y <= yMax
<1>1. pool.x \in Nat /\ pool.y \in Nat /\ pool.x > 0 /\ pool.y > 0
  BY PoolAssumption, Numbers
<1> DEFINE y == (x * pool.y) \div pool.x
           z == (yMax * pool.x) \div pool.y
<1>2. x * pool.y \in Nat /\ yMax * pool.x \in Nat
  BY <1>1, SMTT(20)
<1>3. y \in Nat /\ y * pool.x <= x * pool.y /\ x * pool.y < y * pool.x + pool.x
  BY <1>1, <1>2, DivBounds
<1>4. z \in Nat /\ z * pool.y <= yMax * pool.x
  BY <1>1, <1>2, DivBounds
<1>5. Pair(x, yMax) = IF y <= yMax THEN [x |-> x, y |-> y] ELSE [x |-> z, y |-> yMax]
  BY DEF Pair
<1> HIDE DEF y, z
<1>6. ASSUME y > yMax PROVE z <= x
  <2>1. yMax * pool.x <= y * pool.x /\ y * pool.x \in Nat
    BY <1>1, <1>3, <1>6, Product, SMTT(20)
  <2>2. z * pool.y < (x + 1) * pool.y /\ z * pool.y \in Nat
    <3>1. (x + 1) * pool.y = x * pool.y + pool.y /\ z * pool.y \in Nat
      BY <1>1, <1>4, SMTT(20)
    <3>. QED BY <1>1, <1>2, <1>3, <1>4, <2>1, <3>1
  <2>. QED BY <1>1, <1>4, <2>2, Cancel
<1>. QED BY <1>3, <1>4, <1>5, <1>6

\* The property, for one step.
NotDiluted == pool'.x * pool'.y * pool.lp * pool.lp >= pool.x * pool.y * pool'.lp * pool'.lp

LEMMA AddStep ==
  ASSUME PoolInv, NEW a \in Account, NEW x \in Amounts, NEW yMax \in Amounts,
         AddLiquidity(a, x, yMax)
  PROVE  PoolInv' /\ NotDiluted /\ Trade(a)
<1> DEFINE in == Pair(x, yMax)
           lp == SharesFor(in)
           p  == [x |-> pool.x + in.x, y |-> pool.y + in.y, lp |-> pool.lp + lp]
<1>1. x \in Nat /\ yMax \in Nat /\ x <= own[a].x /\ yMax <= own[a].y /\ Bounded
  BY PoolAssumption DEF AddLiquidity
<1>2. Initialized /\ steps < MaxSteps
  BY <1>1 DEF Bounded
<1>3. in.x \in Nat /\ in.y \in Nat /\ in.x <= x /\ in.y <= yMax
  BY <1>1, <1>2, PairBounds
<1>4. Commit(a, p, own[a].x - in.x, own[a].y - in.y, own[a].lp + lp)
  BY DEF AddLiquidity
<1>5. lp \in Nat /\ lp <= (in.x * pool.lp) \div pool.x /\ lp <= (in.y * pool.lp) \div pool.y
  <2>1. in.x * pool.lp \in Nat /\ in.y * pool.lp \in Nat
    BY <1>3, Numbers, SMTT(20)
  <2>2. (in.x * pool.lp) \div pool.x \in Nat /\ (in.y * pool.lp) \div pool.y \in Nat
    BY <1>2, <2>1, Numbers, DivBounds
  <2>. QED BY <2>2 DEF SharesFor, Least
<1> HIDE DEF in, lp
<1>6. PoolInv' /\ Trade(a)
  <2>1. p \in [x : Nat, y : Nat, lp : Nat] /\ p.x > 0 /\ p.y > 0 /\ p.lp >= MinLiquidity
    BY <1>2, <1>3, <1>5, Numbers, PoolAssumption
  <2>2. own[a].x - in.x \in Nat /\ own[a].y - in.y \in Nat /\ own[a].lp + lp \in Nat
    BY <1>1, <1>3, <1>5, Numbers
  <2>3. /\ p.x + (own[a].x - in.x) = pool.x + own[a].x
        /\ p.y + (own[a].y - in.y) = pool.y + own[a].y
        /\ p.lp + own[a].lp = pool.lp + (own[a].lp + lp)
    BY <1>3, <1>5, Numbers
  <2> HIDE DEF p
  <2>4. PoolInv'
    BY <1>2, <1>4, <2>1, <2>2, CommitPool
  <2>5. Trade(a)
    BY <1>2, <1>4, <2>1, <2>2, <2>3, CommitTrade
  <2>. QED BY <2>4, <2>5
<1>7. NotDiluted
  <2>1. pool' = p
    BY <1>4 DEF Commit
  <2>2. /\ (pool.x + in.x) * pool.lp >= pool.x * (pool.lp + lp)
        /\ (pool.y + in.y) * pool.lp >= pool.y * (pool.lp + lp)
    BY <1>2, <1>3, <1>5, Numbers, AddKeeps
  <2>3. pool.x + in.x \in Nat /\ pool.y + in.y \in Nat /\ pool.lp + lp \in Nat
    BY <1>3, <1>5, Numbers
  <2>4. (pool.x + in.x) * (pool.y + in.y) * pool.lp * pool.lp
          >= pool.x * pool.y * (pool.lp + lp) * (pool.lp + lp)
    BY <2>2, <2>3, Numbers, PairKeeps
  <2>. QED BY <2>1, <2>4 DEF NotDiluted
<1>. QED BY <1>6, <1>7

LEMMA RemoveStep ==
  ASSUME PoolInv, NEW a \in Account, NEW lp \in Amounts, RemoveLiquidity(a, lp)
  PROVE  PoolInv' /\ NotDiluted /\ Trade(a)
<1> DEFINE x == (pool.x * lp) \div pool.lp
           y == (pool.y * lp) \div pool.lp
           p == [x |-> pool.x - x, y |-> pool.y - y, lp |-> pool.lp - lp]
<1>1. lp \in Nat /\ lp <= own[a].lp /\ lp <= pool.lp - MinLiquidity /\ Bounded
  BY PoolAssumption DEF RemoveLiquidity
<1>2. Initialized /\ steps < MaxSteps
  BY <1>1 DEF Bounded
<1>3. lp < pool.lp /\ pool.lp - lp \in Nat /\ pool.lp - lp >= MinLiquidity
  BY <1>1, <1>2, Numbers, PoolAssumption
<1>4. Commit(a, p, own[a].x + x, own[a].y + y, own[a].lp - lp)
  BY DEF RemoveLiquidity
<1>5. /\ x \in Nat /\ x < pool.x /\ (pool.x - x) * pool.lp >= pool.x * (pool.lp - lp)
      /\ y \in Nat /\ y < pool.y /\ (pool.y - y) * pool.lp >= pool.y * (pool.lp - lp)
  BY <1>1, <1>2, <1>3, Numbers, RemoveKeeps
<1> HIDE DEF x, y
<1>6. pool.x - x \in Nat /\ pool.y - y \in Nat /\ pool.x - x > 0 /\ pool.y - y > 0
  BY <1>5, Numbers
<1>7. PoolInv' /\ Trade(a)
  <2>1. p \in [x : Nat, y : Nat, lp : Nat] /\ p.x > 0 /\ p.y > 0 /\ p.lp >= MinLiquidity
    BY <1>3, <1>6
  <2>2. own[a].x + x \in Nat /\ own[a].y + y \in Nat /\ own[a].lp - lp \in Nat
    BY <1>1, <1>5, Numbers
  <2>3. /\ p.x + (own[a].x + x) = pool.x + own[a].x
        /\ p.y + (own[a].y + y) = pool.y + own[a].y
        /\ p.lp + own[a].lp = pool.lp + (own[a].lp - lp)
    BY <1>1, <1>3, <1>5, Numbers
  <2> HIDE DEF p
  <2>4. PoolInv'
    BY <1>2, <1>4, <2>1, <2>2, CommitPool
  <2>5. Trade(a)
    BY <1>2, <1>4, <2>1, <2>2, <2>3, CommitTrade
  <2>. QED BY <2>4, <2>5
<1>8. NotDiluted
  <2>1. pool' = p
    BY <1>4 DEF Commit
  <2>2. (pool.x - x) * (pool.y - y) * pool.lp * pool.lp
          >= pool.x * pool.y * (pool.lp - lp) * (pool.lp - lp)
    BY <1>3, <1>5, <1>6, Numbers, PairKeeps
  <2>. QED BY <2>1, <2>2 DEF NotDiluted
<1>. QED BY <1>7, <1>8

\* What the pool gives for in, of reserves rIn and rOut.
LEMMA QuoteKeeps ==
  ASSUME NEW in \in Nat, NEW rIn \in Nat, NEW rOut \in Nat, rIn > 0,
         Quote(in, rIn, rOut) < rOut
  PROVE  /\ Quote(in, rIn, rOut) \in Nat
         /\ (rIn + in) * (rOut - Quote(in, rIn, rOut)) >= rIn * rOut
<1> DEFINE fee == (in * FeeNum) \div FeeDen
           eff == in - fee
<1>1. FeeNum \in Nat /\ FeeDen \in Nat /\ FeeDen > 0 /\ FeeNum <= FeeDen
  BY PoolAssumption
<1>2. fee \in Nat /\ fee <= in
  <2>1. in * FeeNum \in Nat /\ in * FeeNum <= in * FeeDen
    BY <1>1, Product, SMTT(20)
  <2>2. fee \in Nat /\ fee * FeeDen <= in * FeeNum
    BY <1>1, <2>1, DivBounds
  <2>3. fee * FeeDen < (in + 1) * FeeDen
    <3>1. (in + 1) * FeeDen = in * FeeDen + FeeDen /\ in * FeeDen \in Nat /\ fee * FeeDen \in Nat
      BY <1>1, <2>2, SMTT(20)
    <3>. QED BY <1>1, <2>1, <2>2, <3>1
  <2>4. fee < in + 1
    BY <1>1, <2>2, <2>3, Cancel
  <2>. QED BY <2>2, <2>4
<1> HIDE DEF fee
<1>3. eff \in Nat /\ eff <= in
  BY <1>2
<1>4. Quote(in, rIn, rOut) = (rOut * eff) \div (rIn + eff)
  BY DEF Quote, fee
<1> HIDE DEF eff
<1>5. Quote(in, rIn, rOut) \in Nat
  <2>1. rOut * eff \in Nat /\ rIn + eff \in Nat /\ rIn + eff > 0
    BY <1>3, SMTT(20)
  <2>. QED BY <1>4, <2>1, DivBounds
<1>. QED BY <1>3, <1>4, <1>5, SwapKeeps

\* A larger product behind the same shares.
LEMMA SameShares ==
  ASSUME NEW u \in Nat, NEW v \in Nat, NEW l \in Nat, u >= v
  PROVE  u * l * l >= v * l * l
<1>1. u * l >= v * l /\ u * l \in Nat /\ v * l \in Nat
  BY Product, SMTT(20)
<1>. QED BY <1>1, Product

LEMMA SwapStep ==
  ASSUME PoolInv, NEW a \in Account, NEW n \in Amounts,
         SwapZbxForToken(a, n) \/ SwapTokenForZbx(a, n)
  PROVE  PoolInv' /\ NotDiluted /\ Trade(a)
<1>0. n \in Nat
  BY PoolAssumption
<1>1. CASE SwapZbxForToken(a, n)
  <2> DEFINE y == Quote(n, pool.x, pool.y)
             p == [pool EXCEPT !.x = @ + n, !.y = @ - y]
  <2>1. Initialized /\ steps < MaxSteps /\ n <= own[a].x /\ y > 0 /\ y < pool.y
        /\ Commit(a, p, own[a].x - n, own[a].y + y, own[a].lp)
    BY <1>1 DEF SwapZbxForToken, Bounded
  <2>2. y \in Nat /\ (pool.x + n) * (pool.y - y) >= pool.x * pool.y
    BY <1>0, <2>1, Numbers, QuoteKeeps
  <2> HIDE DEF y
  <2>3. /\ p \in [x : Nat, y : Nat, lp : Nat] /\ p.x > 0 /\ p.y > 0 /\ p.lp >= MinLiquidity
        /\ p.x = pool.x + n /\ p.y = pool.y - y /\ p.lp = pool.lp
    <3>1. pool.x + n \in Nat /\ pool.y - y \in Nat /\ pool.x + n > 0 /\ pool.y - y > 0 /\ pool.lp >= MinLiquidity
      BY <1>0, <2>1, <2>2, Numbers
    <3>2. pool \in [x : Nat, y : Nat, lp : Nat]
      BY DEF PoolInv, TypeOK
    <3>. QED BY <3>1, <3>2
  <2>4. own[a].x - n \in Nat /\ own[a].y + y \in Nat /\ own[a].lp \in Nat
        /\ p.x + (own[a].x - n) = pool.x + own[a].x /\ p.y + (own[a].y + y) = pool.y + own[a].y
        /\ p.lp + own[a].lp = pool.lp + own[a].lp
    BY <1>0, <2>1, <2>2, <2>3, Numbers
  <2> HIDE DEF p
  <2>5. PoolInv' /\ Trade(a)
    <3>1. PoolInv'
      BY <2>1, <2>3, <2>4, CommitPool
    <3>2. Trade(a)
      BY <2>1, <2>3, <2>4, CommitTrade
    <3>. QED BY <3>1, <3>2
  <2>6. (pool.x + n) * (pool.y - y) \in Nat /\ pool.x * pool.y \in Nat
    BY <1>0, <2>1, <2>2, Numbers, SMTT(20)
  <2>7. (pool.x + n) * (pool.y - y) * pool.lp * pool.lp >= pool.x * pool.y * pool.lp * pool.lp
    BY <2>2, <2>6, Numbers, SameShares
  <2>8. pool' = p
    BY <2>1 DEF Commit
  <2>. QED BY <2>3, <2>5, <2>7, <2>8 DEF NotDiluted
<1>2. CASE SwapTokenForZbx(a, n)
  <2> DEFINE x == Quote(n, pool.y, pool.x)
             p == [pool EXCEPT !.x = @ - x, !.y = @ + n]
  <2>1. Initialized /\ steps < MaxSteps /\ n <= own[a].y /\ x > 0 /\ x < pool.x
        /\ Commit(a, p, own[a].x + x, own[a].y - n, own[a].lp)
    BY <1>2 DEF SwapTokenForZbx, Bounded
  <2>2. x \in Nat /\ (pool.y + n) * (pool.x - x) >= pool.y * pool.x
    BY <1>0, <2>1, Numbers, QuoteKeeps
  <2> HIDE DEF x
  <2>3. /\ p \in [x : Nat, y : Nat, lp : Nat] /\ p.x > 0 /\ p.y > 0 /\ p.lp >= MinLiquidity
        /\ p.x = pool.x - x /\ p.y = pool.y + n /\ p.lp = pool.lp
    <3>1. pool.x - x \in Nat /\ pool.y + n \in Nat /\ pool.x - x > 0 /\ pool.y + n > 0 /\ pool.lp >= MinLiquidity
      BY <1>0, <2>1, <2>2, Numbers
    <3>2. pool \in [x : Nat, y : Nat, lp : Nat]
      BY DEF PoolInv, TypeOK
    <3>. QED BY <3>1, <3>2
  <2>4. own[a].x + x \in Nat /\ own[a].y - n \in Nat /\ own[a].lp \in Nat
        /\ p.x + (own[a].x + x) = pool.x + own[a].x /\ p.y + (own[a].y - n) = pool.y + own[a].y
        /\ p.lp + own[a].lp = pool.lp + own[a].lp
    BY <1>0, <2>1, <2>2, <2>3, Numbers
  <2> HIDE DEF p
  <2>5. PoolInv' /\ Trade(a)
    <3>1. PoolInv'
      BY <2>1, <2>3, <2>4, CommitPool
    <3>2. Trade(a)
      BY <2>1, <2>3, <2>4, CommitTrade
    <3>. QED BY <3>1, <3>2
  <2>6. /\ (pool.x - x) * (pool.y + n) \in Nat /\ pool.x * pool.y \in Nat
        /\ (pool.x - x) * (pool.y + n) = (pool.y + n) * (pool.x - x)
        /\ pool.x * pool.y = pool.y * pool.x
    BY <1>0, <2>1, <2>2, Numbers, SMTT(20)
  <2>7. (pool.x - x) * (pool.y + n) * pool.lp * pool.lp >= pool.x * pool.y * pool.lp * pool.lp
    BY <2>2, <2>6, Numbers, SameShares
  <2>8. pool' = p
    BY <2>1 DEF Commit
  <2>. QED BY <2>3, <2>5, <2>7, <2>8 DEF NotDiluted
<1>. QED BY <1>1, <1>2

-----------------------------------------------------------------------------
LEMMA PoolInit == Init => PoolInv
  BY PoolAssumption DEF Init, PoolInv, TypeOK, NotDrained, Initialized

LEMMA PoolStep ==
  ASSUME PoolInv, [Next]_vars
  PROVE  PoolInv' /\ [Initialized => NotDiluted]_vars
<1>1. ASSUME NEW x \in Amounts, NEW y \in Amounts, Create(x, y)
      PROVE  PoolInv' /\ (Initialized => NotDiluted)
  BY <1>1, CreateStep
<1>2. ASSUME NEW a \in Account, NEW x \in Amounts, NEW yMax \in Amounts, AddLiquidity(a, x, yMax)
      PROVE  PoolInv' /\ (Initialized => NotDiluted)
  BY <1>2, AddStep
<1>3. ASSUME NEW a \in Account, NEW n \in Amounts,
             RemoveLiquidity(a, n) \/ SwapZbxForToken(a, n) \/ SwapTokenForZbx(a, n)
      PROVE  PoolInv' /\ (Initialized => NotDiluted)
  BY <1>3, RemoveStep, SwapStep
<1>4. CASE UNCHANGED vars
  BY <1>4 DEF vars, PoolInv, TypeOK, NotDrained, Initialized
<1>. QED BY <1>1, <1>2, <1>3, <1>4 DEF Next

LEMMA PoolInvariance == Spec => []PoolInv
  BY PoolInit, PoolStep, PTL DEF Spec

\* The variables of a pool and its accounts keep their types: no operation takes more
\* than an account, or a reserve, has (token_pool.rs, state.rs).
THEOREM PoolTypes == Spec => []TypeOK
<1>1. PoolInv => TypeOK BY DEF PoolInv
<1>. QED BY <1>1, PoolInvariance, PTL

\* An open pool never runs dry: both reserves and the locked shares stay, so that no
\* quotient of token_pool.rs divides by zero.
THEOREM NeverDry == Spec => []NotDrained
<1>1. PoolInv => NotDrained BY DEF PoolInv
<1>. QED BY <1>1, PoolInvariance, PTL

\* No deposit, withdrawal or swap dilutes a share, whatever the fee, the amounts and
\* the rounding (add_liquidity, remove_liquidity, swap_zbx_for_token, swap_token_for_zbx).
THEOREM NoDilution == Spec => ShareKeepsValue
<1>1. PoolInv /\ [Next]_vars => [Initialized =>
          pool'.x * pool'.y * pool.lp * pool.lp >= pool.x * pool.y * pool'.lp * pool'.lp]_vars
  BY PoolStep DEF NotDiluted
<1>. QED BY <1>1, PoolInvariance, PTL DEF Spec, ShareKeepsValue

-----------------------------------------------------------------------------
(* The books of the pool, and what one account alone can gain. *)

HeldX  == SumFunctionOnSet([a \in Account |-> own[a].x], Account)
HeldY  == SumFunctionOnSet([a \in Account |-> own[a].y], Account)
HeldLp == SumFunctionOnSet([a \in Account |-> own[a].lp], Account)

LEMMA HeldNat ==
  ASSUME own \in [Account -> [x : Nat, y : Nat, lp : Nat]]
  PROVE  HeldX \in Nat /\ HeldY \in Nat /\ HeldLp \in Nat
<1> DEFINE F == [b \in Account |-> own[b].x]
           G == [b \in Account |-> own[b].y]
           L == [b \in Account |-> own[b].lp]
<1>1. IsFiniteSet(Account) /\ \A b \in Account : F[b] \in Nat /\ G[b] \in Nat /\ L[b] \in Nat
  BY PoolAssumption
<1> HIDE DEF F, G, L
<1>2. /\ SumFunctionOnSet(F, Account) \in Nat /\ SumFunctionOnSet(G, Account) \in Nat
      /\ SumFunctionOnSet(L, Account) \in Nat
  BY <1>1, SumNat
<1>. QED BY <1>2 DEF HeldX, HeldY, HeldLp, F, G, L

\* When one account changes, a sum changes as it does.
LEMMA HeldChange ==
  ASSUME NEW u \in [Account -> [x : Nat, y : Nat, lp : Nat]],
         NEW v \in [Account -> [x : Nat, y : Nat, lp : Nat]],
         NEW a \in Account, \A b \in Account \ {a} : v[b] = u[b]
  PROVE  /\ SumFunctionOnSet([b \in Account |-> v[b].x], Account) + u[a].x
              = SumFunctionOnSet([b \in Account |-> u[b].x], Account) + v[a].x
         /\ SumFunctionOnSet([b \in Account |-> v[b].y], Account) + u[a].y
              = SumFunctionOnSet([b \in Account |-> u[b].y], Account) + v[a].y
         /\ SumFunctionOnSet([b \in Account |-> v[b].lp], Account) + u[a].lp
              = SumFunctionOnSet([b \in Account |-> u[b].lp], Account) + v[a].lp
<1>1. IsFiniteSet(Account)
  BY PoolAssumption
<1>2. SumFunctionOnSet([b \in Account |-> v[b].x], Account) + u[a].x
        = SumFunctionOnSet([b \in Account |-> u[b].x], Account) + v[a].x
  <2> DEFINE F == [b \in Account |-> u[b].x]
             G == [b \in Account |-> v[b].x]
  <2>1. /\ \A b \in Account : F[b] \in Nat /\ G[b] \in Nat /\ F[b] = u[b].x /\ G[b] = v[b].x
        /\ \A b \in Account \ {a} : G[b] = F[b]
    OBVIOUS
  <2> HIDE DEF F, G
  <2>2. SumFunctionOnSet(G, Account) + F[a] = SumFunctionOnSet(F, Account) + G[a]
    BY <1>1, <2>1, SumChange
  <2>. QED BY <2>1, <2>2 DEF F, G
<1>3. SumFunctionOnSet([b \in Account |-> v[b].y], Account) + u[a].y
        = SumFunctionOnSet([b \in Account |-> u[b].y], Account) + v[a].y
  <2> DEFINE F == [b \in Account |-> u[b].y]
             G == [b \in Account |-> v[b].y]
  <2>1. /\ \A b \in Account : F[b] \in Nat /\ G[b] \in Nat /\ F[b] = u[b].y /\ G[b] = v[b].y
        /\ \A b \in Account \ {a} : G[b] = F[b]
    OBVIOUS
  <2> HIDE DEF F, G
  <2>2. SumFunctionOnSet(G, Account) + F[a] = SumFunctionOnSet(F, Account) + G[a]
    BY <1>1, <2>1, SumChange
  <2>. QED BY <2>1, <2>2 DEF F, G
<1>4. SumFunctionOnSet([b \in Account |-> v[b].lp], Account) + u[a].lp
        = SumFunctionOnSet([b \in Account |-> u[b].lp], Account) + v[a].lp
  <2> DEFINE F == [b \in Account |-> u[b].lp]
             G == [b \in Account |-> v[b].lp]
  <2>1. /\ \A b \in Account : F[b] \in Nat /\ G[b] \in Nat /\ F[b] = u[b].lp /\ G[b] = v[b].lp
        /\ \A b \in Account \ {a} : G[b] = F[b]
    OBVIOUS
  <2> HIDE DEF F, G
  <2>2. SumFunctionOnSet(G, Account) + F[a] = SumFunctionOnSet(F, Account) + G[a]
    BY <1>1, <2>1, SumChange
  <2>. QED BY <2>1, <2>2 DEF F, G
<1>. QED BY <1>2, <1>3, <1>4

Fresh == [x |-> Wealth, y |-> Wealth, lp |-> 0]

\* Before the pool is opened nothing has moved; who has not acted since has what it had.
Untouched ==
    /\ ~Initialized => /\ pool = [x |-> 0, y |-> 0, lp |-> 0]
                       /\ acted = {} /\ own[Creator] = Fresh
    /\ \A a \in Account \ {Creator} : a \notin acted => own[a] = Fresh

\* What the pool was opened with, while the creator has not acted since.
OpenedX  == Wealth - own[Creator].x
OpenedY  == Wealth - own[Creator].y
OpenedLp == MinLiquidity + own[Creator].lp

\* One account and the pool share what the pool was opened with and what the account
\* had; a share of the pool is worth no less than at first.
Duel(a) ==
    /\ pool.x + own[a].x = OpenedX + Wealth
    /\ pool.y + own[a].y = OpenedY + Wealth
    /\ pool.lp = OpenedLp + own[a].lp
    /\ OpenedX >= 0 /\ OpenedY >= 0
    /\ pool.x * pool.y * OpenedLp * OpenedLp >= OpenedX * OpenedY * pool.lp * pool.lp

Duels == Initialized => \A a \in Account \ {Creator} : acted \subseteq {a} => Duel(a)

BooksInv == PoolInv /\ Custody /\ Untouched /\ Duels

\* The pool and each account alone.
PoolSteps ==
    \/ UNCHANGED <<own, pool, mirror, acted>>
    \/ ~Initialized /\ Opening
    \/ \E a \in Account : Initialized /\ NotDiluted /\ Trade(a)

LEMMA PoolMoves ==
  ASSUME PoolInv, [Next]_vars
  PROVE  PoolSteps
<1>1. ASSUME NEW x \in Amounts, NEW y \in Amounts, Create(x, y) PROVE PoolSteps
  BY <1>1, CreateStep DEF PoolSteps
<1>2. ASSUME NEW a \in Account, NEW x \in Amounts, NEW yMax \in Amounts, AddLiquidity(a, x, yMax)
      PROVE  PoolSteps
  BY <1>2, AddStep DEF PoolSteps, AddLiquidity, Bounded
<1>3. ASSUME NEW a \in Account, NEW n \in Amounts,
             RemoveLiquidity(a, n) \/ SwapZbxForToken(a, n) \/ SwapTokenForZbx(a, n)
      PROVE  PoolSteps
  <2>1. Initialized
    BY <1>3 DEF RemoveLiquidity, SwapZbxForToken, SwapTokenForZbx, Bounded
  <2>. QED BY <1>3, <2>1, RemoveStep, SwapStep DEF PoolSteps
<1>4. CASE UNCHANGED vars
  BY <1>4 DEF vars, PoolSteps
<1>. QED BY <1>1, <1>2, <1>3, <1>4 DEF Next

LEMMA CustodyInit == Init => Custody
<1> SUFFICES ASSUME Init PROVE Custody
  OBVIOUS
<1>1. IsFiniteSet(Account) /\ Wealth \in Nat
  BY PoolAssumption
<1>2. HeldX = Wealth * Cardinality(Account)
  <2> DEFINE F == [b \in Account |-> own[b].x]
  <2>1. \A b \in Account : F[b] = Wealth
    BY DEF Init
  <2> HIDE DEF F
  <2>2. SumFunctionOnSet(F, Account) = Wealth * Cardinality(Account)
    BY <1>1, <2>1, SumConst
  <2>. QED BY <2>2 DEF HeldX, F
<1>3. HeldY = Wealth * Cardinality(Account)
  <2> DEFINE F == [b \in Account |-> own[b].y]
  <2>1. \A b \in Account : F[b] = Wealth
    BY DEF Init
  <2> HIDE DEF F
  <2>2. SumFunctionOnSet(F, Account) = Wealth * Cardinality(Account)
    BY <1>1, <2>1, SumConst
  <2>. QED BY <2>2 DEF HeldY, F
<1>4. ~Initialized /\ mirror = [x |-> 0, y |-> 0] /\ pool.x = 0 /\ pool.y = 0
  BY DEF Init, Initialized
<1>5. Wealth * Cardinality(Account) \in Nat
  BY <1>1, FS_CardinalityType, SMTT(20)
<1>6. 0 + HeldX = Wealth * Cardinality(Account) /\ 0 + HeldY = Wealth * Cardinality(Account)
  BY <1>2, <1>3, <1>5
<1>. QED BY <1>4, <1>6 DEF Custody, HeldX, HeldY

\* Custody in one line: what is held, and the pool.
CustodyIs ==
    /\ Initialized => pool.lp = MinLiquidity + HeldLp
    /\ mirror = [x |-> pool.x, y |-> pool.y]
    /\ pool.x + HeldX = Wealth * Cardinality(Account)
    /\ pool.y + HeldY = Wealth * Cardinality(Account)

LEMMA CustodySame == Custody <=> CustodyIs
  BY DEF Custody, CustodyIs, HeldX, HeldY, HeldLp

\* What an account gives the pool gets, and what the pool gives.
LEMMA SameTotal ==
  ASSUME NEW p \in Nat, NEW q \in Nat, NEW m \in Nat, NEW n \in Nat, NEW h \in Nat, NEW k \in Nat,
         k + m = h + n
  PROVE  /\ \A t : q + n = p + m /\ p + h = t => q + k = t
         /\ \A l \in Nat : q + m = p + n /\ p = l + h => q = l + k
<1>1. q + n = p + m => q + k = p + h
  OBVIOUS
<1>2. ASSUME NEW l \in Nat, q + m = p + n, p = l + h PROVE q = l + k
  BY <1>2
<1>. QED BY <1>1, <1>2

LEMMA CustodyStep ==
  ASSUME PoolInv, PoolInv', Custody, Untouched, PoolSteps
  PROVE  Custody'
<1> DEFINE All == Wealth * Cardinality(Account)
<1>1. /\ own \in [Account -> [x : Nat, y : Nat, lp : Nat]] /\ own' \in [Account -> [x : Nat, y : Nat, lp : Nat]]
      /\ Creator \in Account /\ MinLiquidity \in Nat
  BY PoolAssumption DEF PoolInv, TypeOK
<1>2. PICK hx \in Nat, hy \in Nat, hl \in Nat : hx = HeldX /\ hy = HeldY /\ hl = HeldLp
  BY <1>1, HeldNat
<1>3. PICK kx \in Nat, ky \in Nat, kl \in Nat : kx = HeldX' /\ ky = HeldY' /\ kl = HeldLp'
  <2>1. PICK v : v = own'
    OBVIOUS
  <2> DEFINE F == [b \in Account |-> v[b].x]
             G == [b \in Account |-> v[b].y]
             L == [b \in Account |-> v[b].lp]
  <2>2. IsFiniteSet(Account) /\ \A b \in Account : F[b] \in Nat /\ G[b] \in Nat /\ L[b] \in Nat
    BY <1>1, <2>1, PoolAssumption
  <2> HIDE DEF F, G, L
  <2>3. /\ SumFunctionOnSet(F, Account) \in Nat /\ SumFunctionOnSet(G, Account) \in Nat
        /\ SumFunctionOnSet(L, Account) \in Nat
    BY <2>2, SumNat
  <2>. QED BY <2>1, <2>3 DEF HeldX, HeldY, HeldLp, F, G, L
<1>4. /\ Initialized => pool.lp = MinLiquidity + hl
      /\ mirror = [x |-> pool.x, y |-> pool.y]
      /\ pool.x + hx = All /\ pool.y + hy = All
  BY <1>2, CustodySame DEF CustodyIs
<1>5. SUFFICES /\ Initialized' => pool'.lp = MinLiquidity + kl
               /\ mirror' = [x |-> pool'.x, y |-> pool'.y]
               /\ pool'.x + kx = All /\ pool'.y + ky = All
  <2>1. CustodyIs' => Custody'
    BY DEF Custody, CustodyIs, HeldX, HeldY, HeldLp
  <2>. QED BY <1>3, <2>1 DEF CustodyIs
<1>6. ASSUME NEW a \in Account, \A b \in Account \ {a} : own'[b] = own[b]
      PROVE  /\ kx + own[a].x = hx + own'[a].x /\ ky + own[a].y = hy + own'[a].y
             /\ kl + own[a].lp = hl + own'[a].lp
             /\ own[a].x \in Nat /\ own[a].y \in Nat /\ own[a].lp \in Nat
             /\ own'[a].x \in Nat /\ own'[a].y \in Nat /\ own'[a].lp \in Nat
  <2>1. PICK v : v = own'
    OBVIOUS
  <2>2. PICK u : u = own
    OBVIOUS
  <2>3. /\ u \in [Account -> [x : Nat, y : Nat, lp : Nat]] /\ v \in [Account -> [x : Nat, y : Nat, lp : Nat]]
        /\ \A b \in Account \ {a} : v[b] = u[b]
    BY <1>1, <1>6, <2>1, <2>2
  <2>4. /\ SumFunctionOnSet([b \in Account |-> v[b].x], Account) + u[a].x
              = SumFunctionOnSet([b \in Account |-> u[b].x], Account) + v[a].x
        /\ SumFunctionOnSet([b \in Account |-> v[b].y], Account) + u[a].y
              = SumFunctionOnSet([b \in Account |-> u[b].y], Account) + v[a].y
        /\ SumFunctionOnSet([b \in Account |-> v[b].lp], Account) + u[a].lp
              = SumFunctionOnSet([b \in Account |-> u[b].lp], Account) + v[a].lp
    BY <2>3, HeldChange
  <2>5. /\ hx = SumFunctionOnSet([b \in Account |-> u[b].x], Account)
        /\ hy = SumFunctionOnSet([b \in Account |-> u[b].y], Account)
        /\ hl = SumFunctionOnSet([b \in Account |-> u[b].lp], Account)
    BY <1>2, <2>2 DEF HeldX, HeldY, HeldLp
  <2>6. /\ kx = SumFunctionOnSet([b \in Account |-> v[b].x], Account)
        /\ ky = SumFunctionOnSet([b \in Account |-> v[b].y], Account)
        /\ kl = SumFunctionOnSet([b \in Account |-> v[b].lp], Account)
    BY <1>3, <2>1 DEF HeldX, HeldY, HeldLp
  <2>7. /\ kx + u[a].x = hx + v[a].x /\ ky + u[a].y = hy + v[a].y /\ kl + u[a].lp = hl + v[a].lp
    BY <2>4, <2>5, <2>6
  <2>. QED BY <2>1, <2>2, <2>3, <2>7
<1> HIDE DEF All
<1>7. /\ pool.x \in Nat /\ pool.y \in Nat /\ pool.lp \in Nat
      /\ pool'.x \in Nat /\ pool'.y \in Nat /\ pool'.lp \in Nat
  BY DEF PoolInv, TypeOK
<1>8. CASE UNCHANGED <<own, pool, mirror, acted>>
  BY <1>2, <1>3, <1>4, <1>8 DEF HeldX, HeldY, HeldLp, Initialized
<1>9. CASE ~Initialized /\ Opening
  <2>1. /\ kx + own[Creator].x = hx + own'[Creator].x /\ ky + own[Creator].y = hy + own'[Creator].y
        /\ kl + own[Creator].lp = hl + own'[Creator].lp
        /\ own[Creator].x \in Nat /\ own[Creator].y \in Nat /\ own[Creator].lp \in Nat
        /\ own'[Creator].x \in Nat /\ own'[Creator].y \in Nat /\ own'[Creator].lp \in Nat
    BY <1>1, <1>6, <1>9 DEF Opening
  <2>2. /\ pool'.x + own'[Creator].x = own[Creator].x /\ pool'.y + own'[Creator].y = own[Creator].y
        /\ pool'.lp = MinLiquidity + own'[Creator].lp /\ mirror' = [x |-> pool'.x, y |-> pool'.y]
    BY <1>9 DEF Opening
  <2>3. pool.x = 0 /\ pool.y = 0 /\ own[Creator].lp = 0
    BY <1>9 DEF Untouched, Fresh
  <2>4. hl = 0
    <3> DEFINE L == [b \in Account |-> own[b].lp]
    <3>1. \A b \in Account : L[b] = 0
      BY <1>9 DEF Untouched, Fresh
    <3> HIDE DEF L
    <3>2. SumFunctionOnSet(L, Account) = 0
      BY <3>1, SumZero, PoolAssumption
    <3>. QED BY <1>2, <3>2 DEF HeldLp, L
  <2>5. pool'.x + kx = All
    BY <1>4, <1>7, <2>1, <2>2, <2>3
  <2>6. pool'.y + ky = All
    BY <1>4, <1>7, <2>1, <2>2, <2>3
  <2>7. pool'.lp = MinLiquidity + kl
    BY <1>7, <2>1, <2>2, <2>3, <2>4
  <2>. QED BY <2>2, <2>5, <2>6, <2>7
<1>10. CASE \E a \in Account : Initialized /\ NotDiluted /\ Trade(a)
  <2>1. PICK a \in Account : Initialized /\ Trade(a)
    BY <1>10
  <2>2. /\ kx + own[a].x = hx + own'[a].x /\ ky + own[a].y = hy + own'[a].y
        /\ kl + own[a].lp = hl + own'[a].lp
        /\ own[a].x \in Nat /\ own[a].y \in Nat /\ own[a].lp \in Nat
        /\ own'[a].x \in Nat /\ own'[a].y \in Nat /\ own'[a].lp \in Nat
    BY <1>6, <2>1 DEF Trade
  <2>3. /\ pool'.x + own'[a].x = pool.x + own[a].x /\ pool'.y + own'[a].y = pool.y + own[a].y
        /\ pool'.lp + own[a].lp = pool.lp + own'[a].lp /\ mirror' = [x |-> pool'.x, y |-> pool'.y]
    BY <2>1 DEF Trade
  <2>4. pool'.x + kx = All
    <3>1. PICK p \in Nat, q \in Nat, m \in Nat, n \in Nat :
              p = pool.x /\ q = pool'.x /\ m = own[a].x /\ n = own'[a].x
      BY <1>7, <2>2
    <3>2. kx + m = hx + n /\ q + n = p + m
      BY <2>2, <2>3, <3>1
    <3>3. q + kx = p + hx
      <4>1. \A t, u, v, w, x, y \in Nat : t + v = u + w /\ x + w = y + v => x + t = y + u
        OBVIOUS
      <4>. QED BY <3>2, <4>1
    <3>. QED BY <1>4, <3>1, <3>3
  <2>5. pool'.y + ky = All
    <3>1. PICK p \in Nat, q \in Nat, m \in Nat, n \in Nat :
              p = pool.y /\ q = pool'.y /\ m = own[a].y /\ n = own'[a].y
      BY <1>7, <2>2
    <3>2. ky + m = hy + n /\ q + n = p + m
      BY <2>2, <2>3, <3>1
    <3>3. q + ky = p + hy
      <4>1. \A t, u, v, w, x, y \in Nat : t + v = u + w /\ x + w = y + v => x + t = y + u
        OBVIOUS
      <4>. QED BY <3>2, <4>1
    <3>. QED BY <1>4, <3>1, <3>3
  <2>6. pool'.lp = MinLiquidity + kl
    <3>1. pool.lp = MinLiquidity + hl
      BY <1>4, <2>1
    <3>. QED BY <1>1, <1>7, <2>2, <2>3, <3>1, SameTotal
  <2>. QED BY <2>3, <2>4, <2>5, <2>6
<1>. QED BY <1>8, <1>9, <1>10 DEF PoolSteps

LEMMA UntouchedStep ==
  ASSUME PoolInv, PoolInv', Untouched, PoolSteps
  PROVE  Untouched'
<1>1. CASE UNCHANGED <<own, pool, mirror, acted>>
  BY <1>1 DEF Untouched, Initialized
<1>2. CASE ~Initialized /\ Opening
  <2>1. Initialized'
    <3>1. pool'.lp = MinLiquidity + own'[Creator].lp /\ own'[Creator].lp \in Nat
      BY <1>2, PoolAssumption DEF Opening, PoolInv, TypeOK
    <3>. QED BY <3>1, PoolAssumption DEF Initialized
  <2>. QED BY <1>2, <2>1 DEF Untouched, Opening
<1>3. CASE \E a \in Account : Initialized /\ NotDiluted /\ Trade(a)
  <2>1. PICK a \in Account : Initialized /\ Trade(a)
    BY <1>3
  <2>. QED BY <2>1 DEF Untouched, Trade
<1>. QED BY <1>1, <1>2, <1>3 DEF PoolSteps

\* A share that keeps its value through two steps keeps it through both.
LEMMA WorthOverTime ==
  ASSUME NEW p \in Nat, NEW l \in Nat, NEW q \in Nat, NEW m \in Nat,
         NEW o \in Nat, NEW k \in Nat, l > 0,
         q * l * l >= p * m * m, p * k * k >= o * l * l
  PROVE  q * k * k >= o * m * m
<1>1. /\ l * l \in Nat /\ m * m \in Nat /\ k * k \in Nat /\ l * l > 0
  BY SMTT(20)
<1>2. PICK ll \in Nat, mm \in Nat, kk \in Nat : ll = l * l /\ mm = m * m /\ kk = k * k
  BY <1>1
<1>3. /\ q * l * l = q * ll /\ p * m * m = p * mm /\ p * k * k = p * kk
      /\ o * l * l = o * ll /\ q * k * k = q * kk /\ o * m * m = o * mm
  <2>1. \A a \in Nat, b \in Nat : a * b * b = a * (b * b)
    BY SMTT(20)
  <2>. QED BY <1>2, <2>1
<1>4. /\ q * ll \in Nat /\ p * mm \in Nat /\ p * kk \in Nat /\ o * ll \in Nat
      /\ q * kk \in Nat /\ o * mm \in Nat
  BY SMTT(20)
<1>5. q * ll >= p * mm /\ p * kk >= o * ll
  BY <1>3
<1>6. (q * ll) * kk >= (p * mm) * kk /\ (p * kk) * mm >= (o * ll) * mm
  BY <1>4, <1>5, Product
<1>7. (q * ll) * kk = (q * kk) * ll /\ (p * mm) * kk = (p * kk) * mm /\ (o * ll) * mm = (o * mm) * ll
  BY SMTT(20)
<1>8. (q * kk) * ll >= (o * mm) * ll
  <2>1. (q * kk) * ll \in Nat /\ (p * kk) * mm \in Nat /\ (o * mm) * ll \in Nat
    BY <1>4, SMTT(20)
  <2>. QED BY <1>6, <1>7, <2>1
<1>9. q * kk >= o * mm
  <2>1. SUFFICES ASSUME q * kk < o * mm PROVE FALSE
    BY <1>4
  <2>2. q * kk + 1 <= o * mm
    BY <1>4, <2>1
  <2>3. (o * mm) * ll >= (q * kk + 1) * ll
    BY <1>4, <2>2, Product
  <2>4. (q * kk + 1) * ll = (q * kk) * ll + ll
    BY <1>4, SMTT(20)
  <2>5. (q * kk) * ll \in Nat /\ (o * mm) * ll \in Nat /\ (q * kk + 1) * ll \in Nat /\ ll > 0
    BY <1>1, <1>2, <1>4, SMTT(20)
  <2>. QED BY <1>8, <2>3, <2>4, <2>5
<1>. QED BY <1>3, <1>9

LEMMA DuelsStep ==
  ASSUME PoolInv, PoolInv', Untouched, Duels, PoolSteps
  PROVE  Duels'
<1>1. /\ own \in [Account -> [x : Nat, y : Nat, lp : Nat]] /\ own' \in [Account -> [x : Nat, y : Nat, lp : Nat]]
      /\ Creator \in Account /\ MinLiquidity \in Nat /\ MinLiquidity > 0 /\ Wealth \in Nat
      /\ pool.x \in Nat /\ pool.y \in Nat /\ pool.lp \in Nat
      /\ pool'.x \in Nat /\ pool'.y \in Nat /\ pool'.lp \in Nat
  BY PoolAssumption DEF PoolInv, TypeOK
<1>2. CASE UNCHANGED <<own, pool, mirror, acted>>
  BY <1>2 DEF Duels, Duel, OpenedX, OpenedY, OpenedLp, Initialized
<1>3. CASE ~Initialized /\ Opening
  <2> SUFFICES ASSUME NEW a \in Account \ {Creator} PROVE Duel(a)'
    BY DEF Duels
  <2>1. own'[a] = Fresh /\ own[Creator] = Fresh
    BY <1>3 DEF Opening, Untouched
  <2>2. /\ pool'.x + own'[Creator].x = Wealth /\ pool'.y + own'[Creator].y = Wealth
        /\ pool'.lp = MinLiquidity + own'[Creator].lp
    BY <1>3, <2>1 DEF Opening, Fresh
  <2>3. own'[Creator].x \in Nat /\ own'[Creator].y \in Nat /\ own'[Creator].lp \in Nat
    BY <1>1
  <2>4. OpenedX' = pool'.x /\ OpenedY' = pool'.y /\ OpenedLp' = pool'.lp
    BY <1>1, <2>2, <2>3 DEF OpenedX, OpenedY, OpenedLp
  <2>5. own'[a].x = Wealth /\ own'[a].y = Wealth /\ own'[a].lp = 0
    BY <2>1 DEF Fresh
  <2>6. pool'.x * pool'.y * pool'.lp * pool'.lp \in Nat
    BY <1>1, SMTT(20)
  <2>. QED BY <1>1, <2>4, <2>5, <2>6 DEF Duel
<1>4. CASE \E b \in Account : Initialized /\ NotDiluted /\ Trade(b)
  <2> SUFFICES ASSUME NEW a \in Account \ {Creator}, acted' \subseteq {a} PROVE Duel(a)'
    BY DEF Duels
  <2>1. PICK b \in Account : Initialized /\ NotDiluted /\ Trade(b)
    BY <1>4
  <2>2. b = a /\ acted \subseteq {a}
    BY <2>1 DEF Trade
  <2>3. Duel(a)
    BY <2>1, <2>2 DEF Duels
  <2>4. own'[Creator] = own[Creator]
    BY <1>1, <2>1, <2>2 DEF Trade
  <2>5. OpenedX' = OpenedX /\ OpenedY' = OpenedY /\ OpenedLp' = OpenedLp
    BY <2>4 DEF OpenedX, OpenedY, OpenedLp
  <2>6. /\ own[a].x \in Nat /\ own[a].y \in Nat /\ own[a].lp \in Nat
        /\ own'[a].x \in Nat /\ own'[a].y \in Nat /\ own'[a].lp \in Nat
    BY <1>1
  <2>7. PICK ox \in Int, oy \in Int, ol \in Nat : ox = OpenedX /\ oy = OpenedY /\ ol = OpenedLp
    BY <1>1 DEF OpenedX, OpenedY, OpenedLp
  <2>8. /\ pool.x + own[a].x = ox + Wealth /\ pool.y + own[a].y = oy + Wealth
        /\ pool.lp = ol + own[a].lp /\ ox >= 0 /\ oy >= 0
        /\ pool.x * pool.y * ol * ol >= ox * oy * pool.lp * pool.lp
    BY <2>3, <2>7 DEF Duel
  <2>9. /\ pool'.x + own'[a].x = pool.x + own[a].x /\ pool'.y + own'[a].y = pool.y + own[a].y
        /\ pool'.lp + own[a].lp = pool.lp + own'[a].lp
    BY <2>1, <2>2 DEF Trade
  <2>10. pool'.x + own'[a].x = ox + Wealth /\ pool'.y + own'[a].y = oy + Wealth
    BY <2>8, <2>9
  <2>11. pool'.lp = ol + own'[a].lp
    <3>1. \A p, q, m, n, l \in Nat : p = l + m /\ q + m = p + n => q = l + n
      OBVIOUS
    <3>2. pool.lp \in Nat /\ pool'.lp \in Nat /\ own[a].lp \in Nat /\ own'[a].lp \in Nat
      BY <1>1, <2>6
    <3>3. pool.lp = ol + own[a].lp
      BY <2>8
    <3>4. pool'.lp + own[a].lp = pool.lp + own'[a].lp
      BY <2>9
    <3>5. PICK p, q, m, n \in Nat : p = pool.lp /\ q = pool'.lp /\ m = own[a].lp /\ n = own'[a].lp
      BY <3>2
    <3>6. p = ol + m
      BY <3>3, <3>5
    <3>7. q + m = p + n
      BY <3>4, <3>5
    <3>8. q = ol + n
      BY <3>1, <3>6, <3>7
    <3>. QED BY <3>5, <3>8
  <2>12. pool'.x * pool'.y * ol * ol >= ox * oy * pool'.lp * pool'.lp
    <3>1. PICK p \in Nat, q \in Nat, o \in Nat : p = pool.x * pool.y /\ q = pool'.x * pool'.y /\ o = ox * oy
      BY <1>1, <2>7, <2>8, SMTT(20)
    <3>2. PICK l \in Nat, m \in Nat : l = pool.lp /\ m = pool'.lp /\ l > 0
      BY <1>1, <2>1 DEF Initialized
    <3>3. q * l * l >= p * m * m
      BY <2>1, <3>1, <3>2 DEF NotDiluted
    <3>4. p * ol * ol >= o * l * l
      BY <2>8, <3>1, <3>2
    <3>5. q * ol * ol >= o * m * m
      BY <3>2, <3>3, <3>4, WorthOverTime
    <3>. QED BY <3>1, <3>2, <3>5
  <2>. QED BY <2>5, <2>7, <2>8, <2>10, <2>11, <2>12 DEF Duel
<1>. QED BY <1>2, <1>3, <1>4 DEF PoolSteps

\* Both reserves cannot fall below what the pool was opened with.
LEMMA NoGainAlone ==
  ASSUME NEW x \in Nat, NEW y \in Nat, NEW l \in Nat, NEW ox \in Nat, NEW oy \in Nat, NEW ol \in Nat,
         x > 0, y > 0, ol > 0, l >= ol, x <= ox, y <= oy,
         x * y * ol * ol >= ox * oy * l * l
  PROVE  x = ox /\ y = oy
<1>1. PICK p \in Nat, o \in Nat, k \in Nat, m \in Nat :
          p = x * y /\ o = ox * oy /\ k = ol * ol /\ m = l * l
  BY SMTT(20)
<1>2. p * k >= o * m
  <2>1. \A a \in Nat, b \in Nat : a * b * b = a * (b * b)
    BY SMTT(20)
  <2>2. x * y * ol * ol = p * k /\ ox * oy * l * l = o * m
    BY <1>1, <2>1
  <2>. QED BY <2>2
<1>3. m >= k /\ k > 0
  <2>1. l * l >= ol * ol
    BY Product
  <2>2. ol * ol > 0
    BY SMTT(20)
  <2>. QED BY <1>1, <2>1, <2>2
<1>4. p * k >= o * k
  <2>1. o * m >= o * k /\ o * m \in Nat /\ o * k \in Nat /\ p * k \in Nat
    BY <1>3, Product, SMTT(20)
  <2>. QED BY <1>2, <2>1
<1>5. p >= o
  <2>1. SUFFICES ASSUME p < o PROVE FALSE
    OBVIOUS
  <2>2. p + 1 <= o
    BY <2>1
  <2>3. o * k >= (p + 1) * k
    BY <2>2, Product
  <2>4. (p + 1) * k = p * k + k /\ p * k \in Nat /\ o * k \in Nat
    BY SMTT(20)
  <2>. QED BY <1>3, <1>4, <2>3, <2>4
<1>6. ox * y >= x * y /\ ox * oy >= ox * y /\ ox * y \in Nat
  BY Product, SMTT(20)
<1>7. ox * y = x * y /\ ox * oy = ox * y
  BY <1>1, <1>5, <1>6
<1>8. x = ox
  <2>1. SUFFICES ASSUME x + 1 <= ox PROVE FALSE
    OBVIOUS
  <2>2. ox * y >= (x + 1) * y /\ (x + 1) * y = x * y + y
    BY <2>1, Product, SMTT(20)
  <2>3. x * y \in Nat
    BY <1>1
  <2>. QED BY <1>6, <1>7, <2>2, <2>3
<1>9. y = oy
  <2>1. SUFFICES ASSUME y + 1 <= oy PROVE FALSE
    OBVIOUS
  <2>2. ox * oy >= ox * (y + 1) /\ ox * (y + 1) = ox * y + ox
    BY <2>1, Product, SMTT(20)
  <2>. QED BY <1>6, <1>7, <2>2
<1>. QED BY <1>8, <1>9

LEMMA LunchFree ==
  ASSUME BooksInv
  PROVE  NoFreeLunch
<1> SUFFICES ASSUME NEW a \in Account \ {Creator}, acted \subseteq {a},
                    own[a].x >= Wealth, own[a].y >= Wealth
             PROVE  own[a].x = Wealth /\ own[a].y = Wealth
  BY DEF NoFreeLunch
<1>1. /\ own[a].x \in Nat /\ own[a].y \in Nat /\ own[a].lp \in Nat /\ own[Creator].lp \in Nat
      /\ own[Creator].x \in Nat /\ own[Creator].y \in Nat
      /\ Wealth \in Nat /\ MinLiquidity \in Nat /\ MinLiquidity > 0
      /\ pool.x \in Nat /\ pool.y \in Nat /\ pool.lp \in Nat
  BY PoolAssumption DEF BooksInv, PoolInv, TypeOK
<1>2. CASE ~Initialized
  <2>1. own[a] = Fresh
    BY <1>2 DEF BooksInv, Untouched
  <2>. QED BY <2>1 DEF Fresh
<1>3. CASE Initialized
  <2>1. Duel(a) /\ pool.x > 0 /\ pool.y > 0
    BY <1>3 DEF BooksInv, Duels, PoolInv, NotDrained
  <2>2. PICK ox \in Nat, oy \in Nat, ol \in Nat : ox = OpenedX /\ oy = OpenedY /\ ol = OpenedLp /\ ol > 0
    BY <1>1, <2>1 DEF OpenedX, OpenedY, OpenedLp, Duel
  <2>3. /\ pool.x + own[a].x = ox + Wealth /\ pool.y + own[a].y = oy + Wealth
        /\ pool.lp = ol + own[a].lp
        /\ pool.x * pool.y * ol * ol >= ox * oy * pool.lp * pool.lp
    BY <2>1, <2>2 DEF Duel
  <2>4. pool.x <= ox /\ pool.y <= oy /\ pool.lp >= ol
    BY <1>1, <2>3
  <2>5. pool.x = ox /\ pool.y = oy
    BY <1>1, <2>1, <2>2, <2>3, <2>4, NoGainAlone
  <2>6. \A n \in Nat, m \in Nat, w \in Nat : n + m = n + w => m = w
    OBVIOUS
  <2>7. ox + own[a].x = ox + Wealth /\ oy + own[a].y = oy + Wealth
    BY <2>3, <2>5
  <2>. QED BY <1>1, <2>2, <2>6, <2>7
<1>. QED BY <1>2, <1>3

\* Whatever is opened, deposited, withdrawn and swapped, in what amounts and with what
\* fee, the books of the pool are right, and nobody who acts alone takes more out of it
\* than it has put in (token_pool.rs, state.rs).
THEOREM NoLunch == PartsSpec => []PoolSound
<1>1. PartsInit => BooksInv
  <2> SUFFICES ASSUME Init PROVE BooksInv
    BY DEF PartsInit
  <2>1. PoolInv /\ Custody
    BY PoolInit, CustodyInit
  <2>2. ~Initialized
    BY DEF Init, Initialized
  <2>3. Untouched /\ Duels
    BY <2>2, PoolAssumption DEF Init, Untouched, Duels, Fresh
  <2>. QED BY <2>1, <2>3 DEF BooksInv
<1>2. BooksInv /\ [PartsNext]_allVars => BooksInv'
  <2> SUFFICES ASSUME BooksInv, [PartsNext]_allVars PROVE BooksInv'
    OBVIOUS
  <2>1. PoolInv /\ [Next]_vars
    BY PartsSteps DEF BooksInv
  <2>2. PoolInv' /\ PoolSteps
    BY <2>1, PoolStep, PoolMoves
  <2>. QED BY <2>1, <2>2, CustodyStep, UntouchedStep, DuelsStep DEF BooksInv
<1>3. BooksInv => PoolSound
  BY LunchFree DEF BooksInv, PoolInv, PoolSound
<1>. QED BY <1>1, <1>2, <1>3, PTL DEF PartsSpec

-----------------------------------------------------------------------------
(* The relay. *)

RelayTypes ==
    /\ w_session \in BOOLEAN /\ w_takeover \in BOOLEAN
    /\ w_slot \in [Role -> Socket \cup {Relay!Nobody}]
    /\ w_state \in [Socket -> Relay!States]

\* Before a takeover an open socket holds the slot of its role, its session is in the
\* map, and no socket of its role is still closing.
OpenHolds ==
    \A s \in Socket : w_state[s] = "open" =>
        /\ w_slot[RoleOf[s]] = s /\ w_session
        /\ \A t \in Socket : w_state[t] = "closing" => RoleOf[t] # RoleOf[s]

RelayInv == RelayTypes /\ (~w_takeover => OpenHolds)

LEMMA RelayInit == Relay!Init => RelayInv
  BY DEF Relay!Init, RelayInv, RelayTypes, OpenHolds, Relay!States

LEMMA RelayStep == ASSUME RelayInv, [Relay!Next]_relayVars PROVE RelayInv'
<1> USE PartsAssumption DEF RelayInv, RelayTypes, Relay!States
<1>1. CASE UNCHANGED relayVars
  BY <1>1 DEF relayVars, OpenHolds
<1>2. CASE Relay!Expire
  BY <1>2 DEF Relay!Expire, OpenHolds
<1>3. CASE Relay!Gc
  BY <1>3 DEF Relay!Gc, OpenHolds
<1>4. ASSUME NEW s \in Socket, Relay!Accept(s) PROVE RelayInv'
  BY <1>4 DEF Relay!Accept, Relay!Occupied, OpenHolds
<1>5. ASSUME NEW s \in Socket, Relay!Refuse(s) PROVE RelayInv'
  BY <1>5 DEF Relay!Refuse, OpenHolds
<1>6. ASSUME NEW s \in Socket, Relay!Hangup(s) PROVE RelayInv'
  BY <1>6 DEF Relay!Hangup, OpenHolds
<1>7. ASSUME NEW s \in Socket, Relay!Cleanup(s) PROVE RelayInv'
  BY <1>7 DEF Relay!Cleanup, OpenHolds
<1>. QED BY <1>1, <1>2, <1>3, <1>4, <1>5, <1>6, <1>7 DEF Relay!Next

THEOREM SocketsKnown == PartsSpec => []RelayRight
<1>1. PartsInit => RelayInv
  BY RelayInit DEF PartsInit
<1>2. RelayInv /\ [PartsNext]_allVars => RelayInv'
  BY PartsSteps, RelayStep
<1>3. RelayInv => RelayRight
  BY DEF RelayInv, OpenHolds, RelayRight, Relay!OnePerRole, Relay!ConnectedIsKnown, Relay!Open
<1>. QED BY <1>1, <1>2, <1>3, PTL DEF PartsSpec

-----------------------------------------------------------------------------
(* The settings. *)

\* A content that the table had at some moment not before t.
Recent(map, t) ==
    \E i \in DOMAIN s_history : s_history[i].map = map /\ Settings!Until(i) >= t

\* What a query has seen, what is cached and what was answered are all whole, and each
\* may be older than the one before by what it may have waited.
SettingsInv ==
    /\ Settings!TypeOK
    /\ Len(s_history) > 0 /\ s_history[Len(s_history)].map = s_table
    /\ \A r \in Reader : s_reader[r].pc # "idle" =>
           s_reader[r].since <= s_now /\ s_now - s_reader[r].since <= Latency
    /\ \A r \in Reader : s_reader[r].pc = "run" => Recent(s_reader[r].map, s_reader[r].since)
    /\ s_cache # <<>> => Recent(s_cache[1].map, s_cache[1].at - Latency)
    /\ s_answer # <<>> => Recent(s_answer[1].map, s_answer[1].at - CacheTTL - Latency)


LEMMA SeqFacts ==
    ASSUME NEW S, NEW s \in Seq(S)
    PROVE  /\ Len(s) \in Nat /\ DOMAIN s = 1 .. Len(s)
           /\ \A i \in 1 .. Len(s) : s[i] \in S
           /\ s # <<>> => 1 \in 1 .. Len(s) /\ s[1] \in S
<1>1. Len(s) \in Nat /\ DOMAIN s = 1 .. Len(s) /\ (s # <<>> => Len(s) # 0)
  BY LenProperties, EmptySeq
<1>2. \A i \in 1 .. Len(s) : s[i] \in S
  BY ElementOfSeq
<1>3. s # <<>> => 1 \in 1 .. Len(s)
  BY <1>1
<1>. QED BY <1>1, <1>2, <1>3

LEMMA SettingsTypes ==
    ASSUME Settings!TypeOK
    PROVE  /\ s_now \in Nat /\ s_now \in 0 .. MaxTime /\ MaxTime \in Nat
           /\ CacheTTL \in Nat /\ Latency \in Nat /\ MaxReads \in Nat
           /\ Len(s_history) \in Nat /\ DOMAIN s_history = 1 .. Len(s_history)
           /\ \A i \in 1 .. Len(s_history) : s_history[i].at \in Nat
           /\ \A r \in Reader : s_reader[r].since \in Nat /\ s_reader[r].map \in Settings!Table
           /\ s_cache # <<>> => s_cache[1].at \in Nat /\ s_cache[1].map \in Settings!Table
           /\ s_answer # <<>> => s_answer[1].at \in Nat
<1> DEFINE Stamp == [at : 0 .. MaxTime, map : Settings!Table]
<1>1. /\ s_history \in Seq(Stamp) /\ s_cache \in Seq(Stamp) /\ s_answer \in Seq(Stamp)
      /\ Len(s_cache) <= 1 /\ Len(s_answer) <= 1
  BY DEF Settings!TypeOK
<1>2. MaxTime \in Nat /\ CacheTTL \in Nat /\ Latency \in Nat /\ MaxReads \in Nat
  BY PartsAssumption
<1>3. \A e \in Stamp : e.at \in Nat /\ e.map \in Settings!Table
  BY <1>2
<1> HIDE DEF Stamp
<1>5. \A r \in Reader : s_reader[r].since \in 0 .. MaxTime /\ s_reader[r].map \in Settings!Table
  BY DEF Settings!TypeOK
<1>6. s_now \in 0 .. MaxTime
  BY DEF Settings!TypeOK
<1>7. Len(s_history) \in Nat /\ DOMAIN s_history = 1 .. Len(s_history)
      /\ \A i \in 1 .. Len(s_history) : s_history[i] \in Stamp
  BY <1>1, SeqFacts
<1>8. (s_cache # <<>> => s_cache[1] \in Stamp) /\ (s_answer # <<>> => s_answer[1] \in Stamp)
  BY <1>1, SeqFacts
<1>. QED BY <1>2, <1>3, <1>5, <1>6, <1>7, <1>8

LEMMA RecentWeaker ==
    ASSUME Settings!TypeOK, NEW map, NEW t \in Int, NEW u \in Int, u <= t, Recent(map, t)
    PROVE  Recent(map, u)
<1>1. PICK i \in 1 .. Len(s_history) : s_history[i].map = map /\ Settings!Until(i) >= t
  BY SettingsTypes DEF Recent
<1>2. Settings!Until(i) \in Nat
  <2>1. Len(s_history) \in Nat /\ s_now \in Nat /\ \A j \in 1 .. Len(s_history) : s_history[j].at \in Nat
    BY SettingsTypes
  <2>2. i # Len(s_history) => i + 1 \in 1 .. Len(s_history)
    BY <2>1
  <2>. QED BY <2>1, <2>2 DEF Settings!Until
<1>3. Settings!Until(i) >= u
  BY <1>1, <1>2
<1>. QED BY <1>1, <1>3, SettingsTypes DEF Recent

\* A content that is recent stays so, whether time passes or the table changes.
LEMMA RecentStays ==
    ASSUME Settings!TypeOK, Len(s_history) > 0,
           \/ s_history' = s_history /\ s_now' \in {s_now, s_now + 1}
           \/ \E map \in Settings!Table :
                 s_history' = Append(s_history, [at |-> s_now, map |-> map]) /\ s_now' = s_now,
           NEW map, NEW t \in Int, Recent(map, t)
    PROVE  Recent(map, t)'
<1> DEFINE n == Len(s_history)
<1>0. /\ n \in Nat /\ DOMAIN s_history = 1 .. n /\ s_now \in 0 .. MaxTime /\ s_now \in Nat
      /\ \A i \in 1 .. n : s_history[i].at \in Nat
  BY SettingsTypes
<1>1. PICK i \in 1 .. n : s_history[i].map = map /\ Settings!Until(i) >= t
  BY <1>0 DEF Recent
<1>2. CASE s_history' = s_history /\ s_now' \in {s_now, s_now + 1}
  <2>1. Settings!Until(i)' >= t
    <3>1. CASE i = n
      <4>1. s_now >= t
        BY <1>1, <3>1 DEF Settings!Until
      <4>3. s_now' >= s_now /\ s_now' \in Nat
        <5>1. s_now >= s_now /\ s_now + 1 >= s_now /\ s_now + 1 \in Nat
          BY <1>0
        <5>2. s_now' = s_now \/ s_now' = s_now + 1
          BY <1>2
        <5>. QED BY <1>0, <5>1, <5>2
      <4>2. Settings!Until(i)' = s_now'
        BY <1>2, <3>1 DEF Settings!Until
      <4>. QED BY <1>0, <4>1, <4>2, <4>3
    <3>2. CASE i # n
      BY <1>1, <1>2, <3>2 DEF Settings!Until
    <3>. QED BY <3>1, <3>2
  <2>. QED BY <1>0, <1>1, <1>2, <2>1 DEF Recent
<1>3. ASSUME NEW m \in Settings!Table,
             s_history' = Append(s_history, [at |-> s_now, map |-> m]), s_now' = s_now
      PROVE  Recent(map, t)'
  <2> DEFINE e == [at |-> s_now, map |-> m]
  <2>1. s_history \in Seq([at : 0 .. MaxTime, map : Settings!Table]) /\ e \in [at : 0 .. MaxTime, map : Settings!Table]
    BY <1>0 DEF Settings!TypeOK
  <2>2. e.at = s_now
    OBVIOUS
  <2> HIDE DEF e
  <2>3. s_history' = Append(s_history, e)
    BY <1>3 DEF e
  <2>4. /\ Len(s_history') = n + 1 /\ DOMAIN s_history' = 1 .. n + 1
        /\ \A j \in 1 .. n : s_history'[j] = s_history[j]
        /\ s_history'[n + 1] = e
    BY <2>1, <2>3, AppendProperties, LenProperties
  <2>5. Settings!Until(i)' = Settings!Until(i)
    <3>1. CASE i = n
      <4>1. i \in Nat /\ i + 1 # i
        BY <1>0
      <4>2. Settings!Until(i) = s_now
        BY <3>1 DEF Settings!Until
      <4>3. Settings!Until(i)' = s_history'[i + 1].at
        BY <2>4, <3>1, <4>1 DEF Settings!Until
      <4>. QED BY <2>2, <2>4, <3>1, <4>2, <4>3
    <3>2. CASE i # n
      <4>1. i + 1 \in 1 .. n /\ i # n + 1
        BY <1>0, <3>2
      <4>. QED BY <2>4, <3>2, <4>1 DEF Settings!Until
    <3>. QED BY <3>1, <3>2
  <2>6. i \in DOMAIN s_history'
    BY <1>0, <2>4
  <2>. QED BY <1>1, <2>4, <2>5, <2>6 DEF Recent
<1>. QED BY <1>2, <1>3

LEMMA SettingsInit == Settings!Init => SettingsInv
<1> SUFFICES ASSUME Settings!Init PROVE SettingsInv
  OBVIOUS
<1> DEFINE e == [at |-> 0, map |-> Settings!Empty]
<1>1. 0 \in 0 .. MaxTime /\ 0 \in 0 .. MaxReads /\ Settings!Empty \in Settings!Table
  BY PartsAssumption DEF Settings!Empty, Settings!Table, Settings!None
<1>2. <<e>> \in Seq([at : 0 .. MaxTime, map : Settings!Table]) /\ <<e>>[1] = e /\ Len(<<e>>) = 1
  BY <1>1
<1>3. <<>> \in Seq([at : 0 .. MaxTime, map : Settings!Table]) /\ Len(<<>>) = 0
  BY EmptySeq
<1>4. Settings!Idle \in [pc : {"idle", "sent", "run"}, since : 0 .. MaxTime, map : Settings!Table]
      /\ Settings!Idle.pc = "idle"
  BY <1>1 DEF Settings!Idle
<1>5. Settings!TypeOK
  BY <1>1, <1>2, <1>3, <1>4 DEF Settings!Init, Settings!TypeOK
<1>. QED BY <1>2, <1>4, <1>5 DEF Settings!Init, SettingsInv

\* What a query has seen, and what is answered, keep their types.
LEMMA SettingsTypesStep == ASSUME SettingsInv, Settings!Next PROVE Settings!TypeOK'
<1> DEFINE Stamp == [at : 0 .. MaxTime, map : Settings!Table]
<1>0. Settings!TypeOK
  BY DEF SettingsInv
<1>1. /\ s_now \in Nat /\ s_now \in 0 .. MaxTime /\ MaxTime \in Nat /\ MaxReads \in Nat
      /\ \A r \in Reader : s_reader[r].map \in Settings!Table
      /\ s_cache # <<>> => s_cache[1].map \in Settings!Table
  BY <1>0, SettingsTypes
<1>2. \A map \in Settings!Table : <<[at |-> s_now, map |-> map]>> \in Seq(Stamp)
  BY <1>1
<1>3. <<>> \in Seq(Stamp) /\ Len(<<>>) = 0
  BY EmptySeq
<1>4. ASSUME NEW map \in Settings!Table, Settings!Answer(map)
      PROVE  s_answer' \in Seq(Stamp) /\ Len(s_answer') <= 1 /\ s_reads' \in 0 .. MaxReads
  <2>1. s_answer' \in Seq(Stamp) /\ Len(s_answer') = 1
    BY <1>2, <1>4 DEF Settings!Answer
  <2>2. s_reads' \in 0 .. MaxReads
    BY <1>0, <1>1, <1>4 DEF Settings!Answer, Settings!TypeOK
  <2>. QED BY <2>1, <2>2
<1>5. CASE Settings!Tick
  BY <1>0, <1>1, <1>5 DEF Settings!Tick, Settings!TypeOK
<1>6. ASSUME NEW r \in Reader, Settings!Read(r) PROVE Settings!TypeOK'
  <2>1. CASE Settings!FromCache(r)
    <3>1. s_cache[1].map \in Settings!Table
      BY <1>1, <2>1 DEF Settings!FromCache, Settings!Hit
    <3>2. Settings!Answer(s_cache[1].map) /\ UNCHANGED <<s_now, s_table, s_history, s_cache, s_reader, s_writer>>
      BY <2>1 DEF Settings!FromCache
    <3>. QED BY <1>0, <1>4, <3>1, <3>2 DEF Settings!TypeOK
  <2>2. CASE Settings!SendQuery(r)
    <3>1. Settings!Empty \in Settings!Table
      BY DEF Settings!Empty, Settings!Table, Settings!None
    <3>. QED BY <1>0, <1>1, <2>2, <3>1 DEF Settings!SendQuery, Settings!TypeOK
  <2>3. CASE Settings!RunQuery(r)
    BY <1>0, <2>3 DEF Settings!RunQuery, Settings!TypeOK
  <2>4. CASE Settings!EndQuery(r)
    <3>1. s_reader[r].map \in Settings!Table /\ Settings!Idle \in [pc : {"idle", "sent", "run"}, since : 0 .. MaxTime, map : Settings!Table]
      BY <1>1 DEF Settings!Idle, Settings!Empty, Settings!Table, Settings!None
    <3>2. /\ Settings!Answer(s_reader[r].map) /\ UNCHANGED <<s_now, s_table, s_history, s_writer>>
          /\ s_cache' = <<[at |-> s_now, map |-> s_reader[r].map]>>
          /\ s_reader' = [s_reader EXCEPT ![r] = Settings!Idle]
      BY <2>4 DEF Settings!EndQuery
    <3>3. s_cache' \in Seq(Stamp) /\ Len(s_cache') = 1
      BY <1>2, <3>1, <3>2
    <3>4. s_answer' \in Seq(Stamp) /\ Len(s_answer') <= 1 /\ s_reads' \in 0 .. MaxReads
      BY <1>4, <3>1, <3>2
    <3>5. s_reader' \in [Reader -> [pc : {"idle", "sent", "run"}, since : 0 .. MaxTime, map : Settings!Table]]
      BY <1>0, <3>1, <3>2 DEF Settings!TypeOK
    <3>6. s_now' \in 0 .. MaxTime /\ s_table' \in Settings!Table /\ s_history' \in Seq(Stamp)
          /\ s_writer' \in [Writer -> {"idle", "writing", "written", "done"}]
      BY <1>0, <3>2 DEF Settings!TypeOK
    <3>7. Len(s_cache') <= 1
      BY <3>3
    <3>. QED BY <3>3, <3>4, <3>5, <3>6, <3>7 DEF Settings!TypeOK
  <2>5. CASE Settings!FailQuery(r)
    <3>1. Settings!Idle \in [pc : {"idle", "sent", "run"}, since : 0 .. MaxTime, map : Settings!Table]
      BY <1>1 DEF Settings!Idle, Settings!Empty, Settings!Table, Settings!None
    <3>. QED BY <1>0, <2>5, <3>1 DEF Settings!FailQuery, Settings!TypeOK
  <2>. QED BY <1>6, <2>1, <2>2, <2>3, <2>4, <2>5 DEF Settings!Read
<1>7. ASSUME NEW w \in Writer, Settings!Write(w) PROVE Settings!TypeOK'
  <2>1. CASE Settings!Begin(w)
    BY <1>0, <2>1 DEF Settings!Begin, Settings!TypeOK
  <2>2. CASE Settings!Commit(w)
    <3>1. s_table' \in Settings!Table
      BY <1>0, <2>2 DEF Settings!Commit, Settings!TypeOK, Settings!Table
    <3>2. s_history' = Append(s_history, [at |-> s_now, map |-> s_table'])
      BY <2>2 DEF Settings!Commit
    <3>3. [at |-> s_now, map |-> s_table'] \in Stamp /\ s_history \in Seq(Stamp)
      BY <1>0, <1>1, <3>1 DEF Settings!TypeOK
    <3>4. s_history' \in Seq(Stamp)
      BY <3>2, <3>3, AppendProperties
    <3>. QED BY <1>0, <2>2, <3>1, <3>4 DEF Settings!Commit, Settings!TypeOK
  <2>3. CASE Settings!Abort(w)
    BY <1>0, <2>3 DEF Settings!Abort, Settings!TypeOK
  <2>4. CASE Settings!Invalidate(w)
    BY <1>0, <1>3, <2>4 DEF Settings!Invalidate, Settings!TypeOK
  <2>. QED BY <1>7, <2>1, <2>2, <2>3, <2>4 DEF Settings!Write
<1>. QED BY <1>5, <1>6, <1>7 DEF Settings!Next

\* What a step may do to the clock and the table, to the query of a reader, to the
\* snapshot and to the last answer.
TableMoves ==
    \/ s_history' = s_history /\ s_table' = s_table /\ s_now' \in {s_now, s_now + 1}
    \/ /\ s_table' \in Settings!Table /\ s_now' = s_now
       /\ s_history' = Append(s_history, [at |-> s_now, map |-> s_table'])

QueryMoves(r) ==
    \/ /\ s_reader'[r] = s_reader[r]
       /\ s_now' = s_now \/ (/\ s_now' = s_now + 1
                             /\ s_reader[r].pc # "idle" => s_now - s_reader[r].since < Latency)
    \/ s_reader'[r].pc = "idle"
    \/ s_now' = s_now /\ s_reader'[r].pc = "sent" /\ s_reader'[r].since = s_now
    \/ /\ s_now' = s_now /\ s_reader[r].pc = "sent" /\ s_reader'[r].pc = "run"
       /\ s_reader'[r].since = s_reader[r].since /\ s_reader'[r].map = s_table

CacheMoves ==
    \/ s_cache' \in {s_cache, <<>>}
    \/ \E r \in Reader : /\ s_reader[r].pc = "run"
                         /\ s_cache' = <<[at |-> s_now, map |-> s_reader[r].map]>>

AnswerMoves ==
    \/ s_answer' = s_answer
    \/ \E r \in Reader : /\ s_reader[r].pc = "run"
                         /\ s_answer' = <<[at |-> s_now, map |-> s_reader[r].map]>>
    \/ /\ s_cache # <<>> /\ s_now - s_cache[1].at < CacheTTL
       /\ s_answer' = <<[at |-> s_now, map |-> s_cache[1].map]>>

LEMMA SettingsMoves ==
    ASSUME SettingsInv, Settings!Next
    PROVE  TableMoves /\ (\A r \in Reader : QueryMoves(r)) /\ CacheMoves /\ AnswerMoves
<1>0. /\ Settings!TypeOK' /\ s_reader \in [Reader -> [pc : {"idle", "sent", "run"}, since : 0 .. MaxTime, map : Settings!Table]]
  BY SettingsTypesStep DEF SettingsInv, Settings!TypeOK
<1> USE DEF TableMoves, QueryMoves, CacheMoves, AnswerMoves
<1>1. CASE Settings!Tick
  BY <1>1 DEF Settings!Tick
<1>2. ASSUME NEW r \in Reader, Settings!FromCache(r)
      PROVE  TableMoves /\ (\A q \in Reader : QueryMoves(q)) /\ CacheMoves /\ AnswerMoves
  BY <1>2 DEF Settings!FromCache, Settings!Hit, Settings!Answer
<1>3. ASSUME NEW r \in Reader, Settings!SendQuery(r)
      PROVE  TableMoves /\ (\A q \in Reader : QueryMoves(q)) /\ CacheMoves /\ AnswerMoves
  BY <1>0, <1>3 DEF Settings!SendQuery
<1>4. ASSUME NEW r \in Reader, Settings!RunQuery(r)
      PROVE  TableMoves /\ (\A q \in Reader : QueryMoves(q)) /\ CacheMoves /\ AnswerMoves
  BY <1>0, <1>4 DEF Settings!RunQuery
<1>5. ASSUME NEW r \in Reader, Settings!EndQuery(r)
      PROVE  TableMoves /\ (\A q \in Reader : QueryMoves(q)) /\ CacheMoves /\ AnswerMoves
  BY <1>0, <1>5 DEF Settings!EndQuery, Settings!Answer, Settings!Idle
<1>6. ASSUME NEW r \in Reader, Settings!FailQuery(r)
      PROVE  TableMoves /\ (\A q \in Reader : QueryMoves(q)) /\ CacheMoves /\ AnswerMoves
  BY <1>0, <1>6 DEF Settings!FailQuery, Settings!Idle
<1>7. ASSUME NEW w \in Writer, Settings!Write(w)
      PROVE  TableMoves /\ (\A q \in Reader : QueryMoves(q)) /\ CacheMoves /\ AnswerMoves
  BY <1>0, <1>7 DEF Settings!Write, Settings!Begin, Settings!Commit, Settings!Abort,
                    Settings!Invalidate, Settings!TypeOK
<1>. QED BY <1>1, <1>2, <1>3, <1>4, <1>5, <1>6, <1>7 DEF Settings!Next, Settings!Read

LEMMA SettingsStep == ASSUME SettingsInv, [Settings!Next]_settingsVars PROVE SettingsInv'
<1>1. CASE UNCHANGED settingsVars
  BY <1>1 DEF settingsVars, SettingsInv, Settings!TypeOK, Recent, Settings!Until
<1>2. CASE Settings!Next
  <2> DEFINE n == Len(s_history)
  <2>1. /\ Settings!TypeOK /\ s_now \in Nat /\ CacheTTL \in Nat /\ Latency \in Nat
        /\ n \in Nat /\ n > 0 /\ DOMAIN s_history = 1 .. n /\ s_history[n].map = s_table
        /\ \A r \in Reader : s_reader[r].since \in Nat /\ s_reader[r].map \in Settings!Table
        /\ s_cache # <<>> => s_cache[1].at \in Nat
        /\ s_answer # <<>> => s_answer[1].at \in Nat
    BY SettingsTypes DEF SettingsInv
  <2>2. /\ Settings!TypeOK' /\ TableMoves /\ CacheMoves /\ AnswerMoves
        /\ \A r \in Reader : QueryMoves(r)
    BY <1>2, SettingsTypesStep, SettingsMoves
  <2>3. \A map : \A t \in Int : Recent(map, t) => Recent(map, t)'
    BY <2>1, <2>2, RecentStays DEF TableMoves
  <2>4. Len(s_history') > 0 /\ s_history'[Len(s_history')].map = s_table'
    <3>1. CASE s_history' = s_history /\ s_table' = s_table
      BY <2>1, <3>1
    <3>2. CASE /\ s_history' = Append(s_history, [at |-> s_now, map |-> s_table'])
               /\ s_table' \in Settings!Table
      <4> DEFINE e == [at |-> s_now, map |-> s_table']
                 Stamp == [at : 0 .. MaxTime, map : Settings!Table]
      <4>1. e \in Stamp /\ s_history \in Seq(Stamp) /\ e.map = s_table'
        BY <2>1, <3>2 DEF Settings!TypeOK
      <4> HIDE DEF e, Stamp
      <4>2. s_history' = Append(s_history, e)
        BY <3>2 DEF e
      <4>3. Len(s_history') = n + 1 /\ s_history'[n + 1] = e
        BY <4>1, <4>2, AppendProperties
      <4>. QED BY <2>1, <4>1, <4>3
    <3>. QED BY <2>2, <3>1, <3>2 DEF TableMoves
  <2>5. ASSUME NEW r \in Reader, s_reader'[r].pc # "idle"
        PROVE  s_reader'[r].since <= s_now' /\ s_now' - s_reader'[r].since <= Latency
    <3>1. s_reader[r].pc # "idle" => s_reader[r].since <= s_now /\ s_now - s_reader[r].since <= Latency
      BY DEF SettingsInv
    <3>2. QueryMoves(r) /\ s_reader[r].since \in Nat
      BY <2>1, <2>2
    <3>. QED BY <2>1, <2>5, <3>1, <3>2 DEF QueryMoves
  <2>6. ASSUME NEW r \in Reader, s_reader[r].pc = "run", NEW t \in Int, t <= s_now - Latency
        PROVE  \E m : m = s_reader[r].map /\ Recent(m, t)'
    <3>1. PICK m : m = s_reader[r].map
      OBVIOUS
    <3>2. PICK u : u = s_reader[r].since
      OBVIOUS
    <3>3. /\ Recent(m, u) /\ s_now - u <= Latency /\ u \in Nat
      BY <2>1, <2>6, <3>1, <3>2 DEF SettingsInv
    <3>4. t <= u
      BY <2>1, <2>6, <3>3
    <3>5. Recent(m, t)
      BY <2>1, <3>3, <3>4, RecentWeaker
    <3>. QED BY <2>3, <3>1, <3>5
  <2>7. ASSUME NEW r \in Reader, s_reader'[r].pc = "run"
        PROVE  Recent(s_reader[r].map, s_reader[r].since)'
    <3>1. PICK m : m = s_reader'[r].map
      OBVIOUS
    <3>2. PICK t : t = s_reader'[r].since
      OBVIOUS
    <3>3. Recent(m, t) /\ t \in Int
      <4>1. CASE s_reader'[r] = s_reader[r]
        BY <2>1, <2>7, <3>1, <3>2, <4>1 DEF SettingsInv
      <4>2. CASE /\ s_reader[r].pc = "sent" /\ s_reader'[r].since = s_reader[r].since
                 /\ s_reader'[r].map = s_table
        <5>1. t <= s_now /\ t \in Nat /\ m = s_table
          BY <2>1, <3>1, <3>2, <4>2 DEF SettingsInv
        <5>2. n \in DOMAIN s_history /\ Settings!Until(n) = s_now
          BY <2>1 DEF Settings!Until
        <5>. QED BY <2>1, <5>1, <5>2 DEF Recent
      <4>. QED BY <2>2, <2>7, <4>1, <4>2 DEF QueryMoves
    <3>4. Recent(m, t)'
      BY <2>3, <3>3
    <3>. QED BY <3>1, <3>2, <3>4 DEF Recent
  <2>8. ASSUME s_cache' # <<>> PROVE Recent(s_cache[1].map, s_cache[1].at - Latency)'
    <3>1. PICK m : m = s_cache'[1].map
      OBVIOUS
    <3>2. PICK t : t = s_cache'[1].at - Latency
      OBVIOUS
    <3>3. Recent(m, t)'
      <4>1. CASE s_cache' = s_cache
        <5>1. Recent(m, t) /\ t \in Int
          BY <2>1, <2>8, <3>1, <3>2, <4>1 DEF SettingsInv
        <5>. QED BY <2>3, <5>1
      <4>2. ASSUME NEW r \in Reader, s_reader[r].pc = "run",
                   s_cache' = <<[at |-> s_now, map |-> s_reader[r].map]>>
            PROVE  Recent(m, t)'
        <5>1. m = s_reader[r].map /\ t = s_now - Latency
          BY <3>1, <3>2, <4>2
        <5>2. t \in Int /\ t <= s_now - Latency
          BY <2>1, <5>1
        <5>. QED BY <2>6, <4>2, <5>1, <5>2
      <4>. QED BY <2>2, <2>8, <4>1, <4>2 DEF CacheMoves
    <3>. QED BY <3>1, <3>2, <3>3 DEF Recent
  <2>9. ASSUME s_answer' # <<>>
        PROVE  Recent(s_answer[1].map, s_answer[1].at - CacheTTL - Latency)'
    <3>1. PICK m : m = s_answer'[1].map
      OBVIOUS
    <3>2. PICK t : t = s_answer'[1].at - CacheTTL - Latency
      OBVIOUS
    <3>3. Recent(m, t)'
      <4>1. CASE s_answer' = s_answer
        <5>1. Recent(m, t) /\ t \in Int
          BY <2>1, <2>9, <3>1, <3>2, <4>1 DEF SettingsInv
        <5>. QED BY <2>3, <5>1
      <4>2. ASSUME NEW r \in Reader, s_reader[r].pc = "run",
                   s_answer' = <<[at |-> s_now, map |-> s_reader[r].map]>>
            PROVE  Recent(m, t)'
        <5>1. m = s_reader[r].map /\ t = s_now - CacheTTL - Latency
          BY <3>1, <3>2, <4>2
        <5>2. t \in Int /\ t <= s_now - Latency
          BY <2>1, <5>1
        <5>. QED BY <2>6, <4>2, <5>1, <5>2
      <4>3. CASE /\ s_cache # <<>> /\ s_now - s_cache[1].at < CacheTTL
                 /\ s_answer' = <<[at |-> s_now, map |-> s_cache[1].map]>>
        <5>1. m = s_cache[1].map /\ t = s_now - CacheTTL - Latency
          BY <3>1, <3>2, <4>3
        <5>2. PICK u : u = s_cache[1].at - Latency
          OBVIOUS
        <5>3. Recent(m, u) /\ u \in Int /\ t \in Int /\ t <= u
          BY <2>1, <4>3, <5>1, <5>2 DEF SettingsInv
        <5>4. Recent(m, t)
          BY <2>1, <5>3, RecentWeaker
        <5>. QED BY <2>3, <5>3, <5>4
      <4>. QED BY <2>2, <4>1, <4>2, <4>3 DEF AnswerMoves
    <3>. QED BY <3>1, <3>2, <3>3 DEF Recent
  <2>. QED BY <2>2, <2>4, <2>5, <2>7, <2>8, <2>9 DEF SettingsInv
<1>. QED BY <1>1, <1>2

THEOREM AnswersFresh == PartsSpec => []SettingsFresh
<1>1. PartsInit => SettingsInv
  BY SettingsInit DEF PartsInit
<1>2. SettingsInv /\ [PartsNext]_allVars => SettingsInv'
  BY PartsSteps, SettingsStep
<1>3. SettingsInv => SettingsFresh
  BY DEF SettingsInv, SettingsFresh, Settings!FreshAndWhole, Recent
<1>. QED BY <1>1, <1>2, <1>3, PTL DEF PartsSpec

-----------------------------------------------------------------------------
(* The navigation. *)

\* An id is used once, and a deletion under way is of an item that an admin added.
IdsRight ==
    /\ \A r \in n_rows : r.id < n_nextId
    /\ \A r, x \in n_rows : r.id = x.id => r = x
    /\ \A q \in Request : n_req[q].pc = "delete" =>
           /\ n_req[q].id < n_nextId
           /\ \A r \in n_rows : r.id = n_req[q].id => r.custom

NavInv == Nav!TypeOK /\ Nav!AllOrNothing /\ IdsRight

LEMMA NavInit == Nav!Init => NavInv
  BY PartsAssumption DEF Nav!Init, NavInv, Nav!TypeOK, Nav!AllOrNothing, IdsRight, Nav!Idle

LEMMA NavTypes ==
    ASSUME Nav!TypeOK
    PROVE  /\ n_nextId \in Nat
           /\ \A r \in n_rows : /\ r.id \in Nat /\ r.slug \in Builtin \cup Custom
                                /\ r.custom \in BOOLEAN /\ r.enabled \in BOOLEAN
           /\ \A q \in Request : n_req[q].id \in Nat
BY DEF Nav!TypeOK, Nav!Row, Nav!Slug

\* The built-in items get ids of their own, or stay as they are.
LEMMA DefaultsInserted ==
    ASSUME NavInv, Nav!InsertDefaults
    PROVE  /\ n_nextId' \in Nat /\ n_nextId <= n_nextId' /\ n_rows \subseteq n_rows'
           /\ \A r \in n_rows' \ n_rows :
                  /\ r \in Nav!Row /\ r.slug \in Builtin /\ ~r.custom
                  /\ n_nextId <= r.id /\ r.id < n_nextId'
           /\ \A r, x \in n_rows' \ n_rows : r.id = x.id => r = x
           /\ Nav!AllOrNothing'
<1> DEFINE n == Cardinality(Builtin)
<1>0. /\ n \in Nat /\ n_nextId \in Nat /\ IsFiniteSet(Builtin)
      /\ \A r \in n_rows : r.slug \in Builtin \cup Custom /\ r.custom \in BOOLEAN
  BY PartsAssumption, FS_CardinalityType, NavTypes DEF NavInv
<1>1. Nav!Cardinality(Builtin) = Cardinality(Builtin)
  BY DEF Nav!Cardinality, Cardinality
<1>2. CASE Nav!Slugs \cap Builtin # {}
  <2>1. n_rows' = n_rows /\ n_nextId' = n_nextId
    BY <1>2 DEF Nav!InsertDefaults
  <2>2. Nav!AllOrNothing'
    BY <2>1 DEF NavInv, Nav!AllOrNothing
  <2>3. n_rows' \ n_rows = {}
    BY <2>1
  <2>. QED BY <1>0, <2>1, <2>2, <2>3
<1>3. CASE Nav!Slugs \cap Builtin = {}
  <2> DEFINE I == n_nextId .. n_nextId + Cardinality(Builtin) - 1
             Good(f) == \A s, t \in Builtin : s # t => f[s] # f[t]
             ids == CHOOSE f \in [Builtin -> n_nextId .. n_nextId + Nav!Cardinality(Builtin) - 1] :
                        \A s, t \in Builtin : s # t => f[s] # f[t]
  <2>1. n_rows' = n_rows \cup Nav!DefaultRows(ids) /\ n_nextId' = n_nextId + n
    BY <1>1, <1>3 DEF Nav!InsertDefaults
  <2>2. \E f \in [Builtin -> I] : Good(f)
    <3>1. PICK a, b \in Int : a = n_nextId /\ b = n_nextId + n - 1
      BY <1>0
    <3>2. IsFiniteSet(a .. b) /\ Cardinality(a .. b) = n
      <4>1. IsFiniteSet(a .. b) /\ Cardinality(a .. b) = IF a > b THEN 0 ELSE b - a + 1
        BY <3>1, FS_Interval
      <4>2. PICK c \in Nat : c = n
        BY <1>0
      <4>3. (IF a > b THEN 0 ELSE b - a + 1) = c
        BY <1>0, <3>1, <4>2
      <4>. QED BY <4>1, <4>2, <4>3
    <3>3. ExistsBijection(Builtin, a .. b)
      BY <1>0, <3>2, FS_SameCardinalityBij
    <3>4. PICK f \in [Builtin -> a .. b] : \A s, t \in Builtin : f[s] = f[t] => s = t
      BY <3>3 DEF ExistsBijection, Bijection, Injection, IsInjective
    <3>. QED BY <3>1, <3>4
  <2>3. ids \in [Builtin -> I] /\ Good(ids)
    BY <1>1, <2>2
  <2> HIDE DEF ids
  <2>4. \A r \in Nav!DefaultRows(ids) :
            \E s \in Builtin : r = [id |-> ids[s], slug |-> s, custom |-> FALSE, enabled |-> TRUE]
    BY DEF Nav!DefaultRows
  <2>5. \A s \in Builtin : ids[s] \in Nat /\ n_nextId <= ids[s] /\ ids[s] < n_nextId + n
    BY <1>0, <2>3
  <2>6. \A r \in Nav!DefaultRows(ids) :
            /\ r \in Nav!Row /\ r.slug \in Builtin /\ ~r.custom
            /\ n_nextId <= r.id /\ r.id < n_nextId'
    <3> TAKE r \in Nav!DefaultRows(ids)
    <3>1. PICK s \in Builtin : r = [id |-> ids[s], slug |-> s, custom |-> FALSE, enabled |-> TRUE]
      BY <2>4
    <3>2. r.id = ids[s] /\ r.slug = s /\ ~r.custom
      BY <3>1
    <3>3. r \in Nav!Row
      BY <2>5, <3>1 DEF Nav!Row, Nav!Slug
    <3>. QED BY <2>1, <2>5, <3>2, <3>3
  <2>7. \A r, x \in Nav!DefaultRows(ids) : r.id = x.id => r = x
    <3> TAKE r, x \in Nav!DefaultRows(ids)
    <3>1. PICK s \in Builtin : r = [id |-> ids[s], slug |-> s, custom |-> FALSE, enabled |-> TRUE]
      BY <2>4
    <3>2. PICK t \in Builtin : x = [id |-> ids[t], slug |-> t, custom |-> FALSE, enabled |-> TRUE]
      BY <2>4
    <3>3. r.id = ids[s] /\ x.id = ids[t]
      BY <3>1, <3>2
    <3>4. ids[s] = ids[t] => s = t
      BY <2>3
    <3>. QED BY <3>1, <3>2, <3>3, <3>4
  <2>8. n_nextId' \in Nat /\ n_nextId <= n_nextId'
    <3>1. n_nextId + n \in Nat /\ n_nextId <= n_nextId + n
      BY <1>0
    <3>. QED BY <2>1, <3>1
  <2>9. Nav!AllOrNothing'
    <3>1. \A r \in n_rows : r.custom
      BY <1>0, <1>3 DEF NavInv, Nav!AllOrNothing, Nav!Slugs
    <3>2. \A s \in Builtin : \E r \in Nav!DefaultRows(ids) : r.slug = s /\ ~r.custom
      <4> TAKE s \in Builtin
      <4>1. PICK r : r = [id |-> ids[s], slug |-> s, custom |-> FALSE, enabled |-> TRUE]
        OBVIOUS
      <4>2. r \in Nav!DefaultRows(ids)
        BY <4>1 DEF Nav!DefaultRows
      <4>. QED BY <4>1, <4>2
    <3>3. {r.slug : r \in {x \in n_rows' : ~x.custom}} = Builtin
      BY <2>1, <2>6, <3>1, <3>2
    <3>. QED BY <3>3 DEF Nav!AllOrNothing
  <2>. QED BY <2>1, <2>6, <2>7, <2>8, <2>9
<1>. QED BY <1>2, <1>3

\* A statement that ends its request with the defaults inserted.
LEMMA InsertStep ==
    ASSUME NavInv, NEW q \in Request, Nav!InsertDefaults, Nav!Done(q), n_resets' = n_resets
    PROVE  NavInv'
<1>1. /\ n_nextId' \in Nat /\ n_nextId \in Nat /\ n_nextId <= n_nextId' /\ n_rows \subseteq n_rows'
      /\ \A r \in n_rows' \ n_rows :
             /\ r \in Nav!Row /\ ~r.custom /\ n_nextId <= r.id /\ r.id < n_nextId'
      /\ \A r, x \in n_rows' \ n_rows : r.id = x.id => r = x
      /\ Nav!AllOrNothing'
      /\ \A r \in n_rows : r \in Nav!Row /\ r.id < n_nextId
  BY DefaultsInserted, NavTypes DEF NavInv, IdsRight, Nav!TypeOK
<1>2. \A r \in Nav!Row : r.id \in Nat
  BY DEF Nav!Row
<1>3. n_req' = [n_req EXCEPT ![q] = [pc |-> "idle", id |-> 0]]
  BY DEF Nav!Done, Nav!Become
<1>4. Nav!TypeOK'
  BY <1>1, <1>3 DEF NavInv, Nav!TypeOK
<1>5. IdsRight'
  <2>1. \A r \in n_rows' : r.id < n_nextId'
    <3> TAKE r \in n_rows'
    <3>1. CASE r \in n_rows
      <4>1. r.id \in Nat /\ r.id < n_nextId
        BY <1>1, <1>2, <3>1
      <4>. QED BY <1>1, <4>1
    <3>. QED BY <1>1, <3>1
  <2>2. ASSUME NEW r \in n_rows', NEW x \in n_rows', r.id = x.id PROVE r = x
    <3>0. r.id \in Nat /\ x.id \in Nat
      BY <1>1, <1>2
    <3>1. CASE r \in n_rows /\ x \in n_rows
      BY <2>2, <3>1 DEF NavInv, IdsRight
    <3>2. CASE r \notin n_rows /\ x \notin n_rows
      BY <1>1, <2>2, <3>2
    <3>3. CASE (r \in n_rows /\ x \notin n_rows) \/ (r \notin n_rows /\ x \in n_rows)
      BY <1>1, <2>2, <3>0, <3>3
    <3>. QED BY <3>1, <3>2, <3>3
  <2>3. ASSUME NEW p \in Request, n_req'[p].pc = "delete"
        PROVE  n_req'[p].id < n_nextId' /\ \A r \in n_rows' : r.id = n_req'[p].id => r.custom
    <3>1. n_req'[p] = n_req[p] /\ n_req[p].id \in Nat
      BY <1>3, <2>3, NavTypes DEF NavInv, Nav!TypeOK
    <3>2. n_req[p].id < n_nextId /\ \A r \in n_rows : r.id = n_req[p].id => r.custom
      BY <2>3, <3>1 DEF NavInv, IdsRight
    <3>3. n_req[p].id < n_nextId'
      BY <1>1, <3>1, <3>2
    <3>4. \A r \in n_rows' \ n_rows : r.id # n_req[p].id
      BY <1>1, <1>2, <3>1, <3>2
    <3>. QED BY <3>1, <3>2, <3>3, <3>4
  <2>. QED BY <2>1, <2>2, <2>3 DEF IdsRight
<1>. QED BY <1>1, <1>4, <1>5 DEF NavInv

LEMMA NavStep == ASSUME NavInv, [Nav!Next]_navVars PROVE NavInv'
<1> USE DEF NavInv, IdsRight, Nav!TypeOK, Nav!AllOrNothing
<1>0. /\ n_nextId \in Nat
      /\ \A r \in n_rows : /\ r.id \in Nat /\ r.slug \in Builtin \cup Custom
                           /\ r.custom \in BOOLEAN /\ r.enabled \in BOOLEAN
      /\ \A q \in Request : n_req[q].id \in Nat
  BY NavTypes
<1>1. CASE UNCHANGED navVars
  BY <1>1 DEF navVars
<1>2. ASSUME NEW q \in Request, Nav!SeedLook(q) PROVE NavInv'
  BY <1>2 DEF Nav!SeedLook, Nav!Become
<1>3. ASSUME NEW q \in Request, Nav!SeedInsert(q) \/ Nav!ResetInsert(q) PROVE NavInv'
  BY <1>3, InsertStep DEF Nav!SeedInsert, Nav!ResetInsert
<1>4. ASSUME NEW q \in Request, Nav!DeleteItem(q) PROVE NavInv'
  BY <1>0, <1>4 DEF Nav!DeleteItem, Nav!Done, Nav!Become
<1>5. ASSUME NEW q \in Request, Nav!ResetDelete(q) PROVE NavInv'
  BY <1>0, <1>5, PartsAssumption DEF Nav!ResetDelete, Nav!Become
<1>6. ASSUME NEW q \in Request, Nav!Stop(q) PROVE NavInv'
  BY <1>6 DEF Nav!Stop, Nav!Done, Nav!Become
<1>7. ASSUME NEW q \in Request, NEW s \in Nav!Slug, Nav!CreateItem(q, s) PROVE NavInv'
  <2>1. PICK r : r = [id |-> n_nextId, slug |-> s, custom |-> TRUE, enabled |-> TRUE]
    OBVIOUS
  <2>2. /\ n_rows' = n_rows \cup {r} /\ n_nextId' = n_nextId + 1
        /\ n_req' = n_req /\ n_resets' = n_resets
    BY <1>7, <2>1 DEF Nav!CreateItem
  <2>3. r \in Nav!Row /\ r.id = n_nextId /\ r.custom
    BY <1>0, <2>1 DEF Nav!Row
  <2>4. n_nextId < n_nextId + 1 /\ n_nextId + 1 \in Nat
        /\ \A m \in Nat : m < n_nextId => m < n_nextId + 1 /\ m # n_nextId
    BY <1>0
  <2>5. {x \in n_rows' : ~x.custom} = {x \in n_rows : ~x.custom}
    BY <2>2, <2>3
  <2>6. Nav!AllOrNothing' /\ Nav!TypeOK'
    BY <2>2, <2>3, <2>4, <2>5
  <2>7. IdsRight'
    BY <1>0, <2>2, <2>3, <2>4
  <2>. QED BY <2>6, <2>7
<1>8. ASSUME NEW q \in Request, NEW r \in n_rows, Nav!UpdateItem(q, r) PROVE NavInv'
  <2>1. PICK x : x = [r EXCEPT !.enabled = ~@]
    OBVIOUS
  <2>2. /\ n_rows' = (n_rows \ {r}) \cup {x} /\ n_nextId' = n_nextId
        /\ n_req' = n_req /\ n_resets' = n_resets
    BY <1>8, <2>1 DEF Nav!UpdateItem
  <2>3. x \in Nav!Row /\ x.id = r.id /\ x.custom = r.custom /\ x.slug = r.slug
    BY <1>0, <2>1 DEF Nav!Row
  <2>4. {y.slug : y \in {z \in n_rows' : ~z.custom}} = {y.slug : y \in {z \in n_rows : ~z.custom}}
    BY <2>2, <2>3
  <2>5. Nav!AllOrNothing' /\ Nav!TypeOK'
    BY <2>2, <2>3, <2>4
  <2>6. IdsRight'
    BY <1>0, <2>2, <2>3
  <2>. QED BY <2>5, <2>6
<1>9. ASSUME NEW q \in Request, NEW r \in n_rows, Nav!DeleteLook(q, r) PROVE NavInv'
  BY <1>0, <1>9 DEF Nav!DeleteLook, Nav!Become
<1>. QED BY <1>1, <1>2, <1>3, <1>4, <1>5, <1>6, <1>7, <1>8, <1>9 DEF Nav!Next, Nav!Handler

\* An item that an admin added is gone only if a request was deleting it.
LEMMA CustomStays ==
    ASSUME NavInv, [Nav!Next]_navVars, NEW r \in n_rows, r.custom,
           \A x \in n_rows' : x.id # r.id
    PROVE  \E q \in Request : n_req[q] = [pc |-> "delete", id |-> r.id]
<1>1. r \notin n_rows'
  OBVIOUS
<1>2. PICK q \in Request : Nav!Handler(q)
  BY <1>1 DEF navVars, Nav!Next
<1>3. ~Nav!InsertDefaults
  BY <1>1 DEF Nav!InsertDefaults
<1>4. ASSUME NEW y \in n_rows, Nav!UpdateItem(q, y) PROVE FALSE
  <2>1. PICK x : x = [y EXCEPT !.enabled = ~@]
    OBVIOUS
  <2>2. x.id = y.id /\ n_rows' = (n_rows \ {y}) \cup {x}
    BY <1>4, <2>1 DEF Nav!UpdateItem, NavInv, Nav!TypeOK, Nav!Row
  <2>. QED BY <1>1, <2>2
<1>5. Nav!DeleteItem(q)
  BY <1>1, <1>2, <1>3, <1>4 DEF Nav!Handler, Nav!SeedLook, Nav!SeedInsert, Nav!ResetDelete,
         Nav!ResetInsert, Nav!Stop, Nav!CreateItem, Nav!DeleteLook
<1>6. n_req[q].pc = "delete" /\ r.id = n_req[q].id
  BY <1>1, <1>5 DEF Nav!DeleteItem
<1>7. n_req[q] = [pc |-> "delete", id |-> r.id]
  BY <1>6 DEF NavInv, Nav!TypeOK
<1>. QED BY <1>7

THEOREM NavigationKept == PartsSpec => NavKept
<1>1. PartsInit => NavInv
  BY NavInit DEF PartsInit
<1>2. NavInv /\ [PartsNext]_allVars => NavInv'
  BY PartsSteps, NavStep
<1>3. NavInv => Nav!TypeOK /\ Nav!AllOrNothing
  BY DEF NavInv
<1> DEFINE Kept == \A r \in n_rows :
                r.custom /\ (\A x \in n_rows' : x.id # r.id)
                => \E q \in Request : n_req[q] = [pc |-> "delete", id |-> r.id]
<1>4. NavInv /\ [PartsNext]_allVars => [Kept]_navVars
  BY PartsSteps, CustomStays
<1>5. Nav!CustomKept <=> [][Kept]_navVars
  BY DEF Nav!CustomKept, Nav!vars, navVars
<1> HIDE DEF Kept
<1>. QED BY <1>1, <1>2, <1>3, <1>4, <1>5, PTL DEF PartsSpec, NavKept

-----------------------------------------------------------------------------
(* The browser wallet. *)

LegacyLeft == Legacy \cap v_mine

\* What is on disk, what tabs hold and what is about to be written, all have it.
ListsHold ==
    /\ ~Wallets!VaultExists => LegacyLeft \subseteq v_plain
    /\ Wallets!VaultExists => LegacyLeft \subseteq v_vault[1]
    /\ \A t \in Tab : Wallets!Unlocked(t) => LegacyLeft \subseteq v_open[t][1]
    /\ \A x \in v_tasks : LegacyLeft \subseteq x.list

VaultInv == Wallets!TypeOK /\ ListsHold

-----------------------------------------------------------------------------
\* The initial state satisfies the invariant: there is no vault and no task.
LEMMA VaultInit == Wallets!Init => VaultInv
  BY PartsAssumption DEF VaultInv, Wallets!Init, Wallets!TypeOK, ListsHold, Wallets!List, Wallets!VaultExists, Wallets!Unlocked, LegacyLeft, Wallets!Task

\* A list that can be added to, or removed from, holds what must be kept.
LEMMA LoadedHolds ==
  ASSUME VaultInv, NEW t \in Tab
  PROVE  /\ Wallets!LoadWallets(t) \in Wallets!List
         /\ Wallets!VaultExists /\ ~Wallets!Unlocked(t) => Wallets!LoadWallets(t) = {}
         /\ ~Wallets!VaultExists \/ Wallets!Unlocked(t) => LegacyLeft \subseteq Wallets!LoadWallets(t)
  BY DEF VaultInv, Wallets!TypeOK, ListsHold, Wallets!LoadWallets, Wallets!Unlocked, Wallets!VaultExists, Wallets!List, Wallets!Nothing

\* Calls keep what they hold.
Holding(S) == S \subseteq Wallets!Task /\ \A x \in S : LegacyLeft \subseteq x.list

\* A wallet pushed to a list that a call holds adds to it; a list left for another is
\* as it was.
LEMMA SharedHolds ==
  ASSUME VaultInv, NEW t \in Tab, NEW w \in Wallet
  PROVE  Holding(Wallets!Pushed(t, w)) /\ Holding(Wallets!Parted(t))
<1>1. \A x \in v_tasks : x \in Wallets!Task /\ LegacyLeft \subseteq x.list
  BY DEF VaultInv, Wallets!TypeOK, ListsHold
<1>2. ASSUME NEW x \in v_tasks
      PROVE  /\ [x EXCEPT !.list = @ \cup {w}] \in Wallets!Task
             /\ LegacyLeft \subseteq [x EXCEPT !.list = @ \cup {w}].list
             /\ [x EXCEPT !.kind = "rekeyOld"] \in Wallets!Task
             /\ LegacyLeft \subseteq [x EXCEPT !.kind = "rekeyOld"].list
  <2>1. x.list \cup {w} \in Wallets!List
    BY <1>1 DEF Wallets!Task, Wallets!List
  <2>. QED BY <1>1, <2>1 DEF Wallets!Task, Wallets!Kinds
<1>. QED BY <1>1, <1>2 DEF Holding, Wallets!Pushed, Wallets!Parted, Wallets!Sharing

\* saveWallets of a list that holds what is still to be kept.
LEMMA SaveInv ==
  ASSUME VaultInv, NEW t \in Tab, NEW ws \in Wallets!List, NEW held, Holding(held),
         v_mine' \in Wallets!List, LegacyLeft' \subseteq LegacyLeft,
         Wallets!VaultExists /\ ~Wallets!Unlocked(t) => ws # {},
         ~Wallets!VaultExists \/ Wallets!Unlocked(t) => LegacyLeft' \subseteq ws,
         Wallets!SaveWallets(t, ws, held), UNCHANGED <<v_vault, v_keyed>>
  PROVE  VaultInv'
<1>1. CASE Wallets!VaultExists /\ Wallets!Unlocked(t)
  <2>1. /\ v_open' = [v_open EXCEPT ![t] = <<ws>>] /\ v_plain' = v_plain
        /\ v_tasks' = held \/ v_tasks' = held \cup {[kind |-> "save", tab |-> t, list |-> ws]}
    BY <1>1 DEF Wallets!SaveWallets
  <2>2. v_tasks' \subseteq Wallets!Task
    BY <2>1 DEF Holding, Wallets!Task, Wallets!Kinds
  <2>3. Wallets!TypeOK'
    BY <2>1, <2>2 DEF VaultInv, Wallets!TypeOK, Wallets!List
  <2>4. ListsHold'
    BY <1>1, <2>1 DEF Holding, VaultInv, Wallets!TypeOK, ListsHold, Wallets!VaultExists, Wallets!Unlocked, Wallets!Nothing
  <2>. QED BY <2>3, <2>4 DEF VaultInv
<1>2. CASE ~(Wallets!VaultExists /\ Wallets!Unlocked(t))
  <2>1. ws = {} /\ v_plain' = {} /\ UNCHANGED <<v_open, v_tasks>> /\ ~Wallets!VaultExists
    BY <1>2 DEF Wallets!SaveWallets
  <2>. QED
    BY <2>1 DEF VaultInv, Wallets!TypeOK, ListsHold, Wallets!VaultExists, Wallets!Unlocked, Wallets!List
<1>. QED BY <1>1, <1>2

LEMMA AddInv == ASSUME VaultInv, NEW t \in Tab, NEW w \in Wallet, Wallets!AddToList(t, w) PROVE VaultInv'
<1>1. v_mine' = v_mine \cup {w} /\ w \notin Legacy /\ UNCHANGED <<v_vault, v_keyed>>
      /\ Wallets!SaveWallets(t, Wallets!LoadWallets(t) \cup {w}, Wallets!Pushed(t, w))
  BY DEF Wallets!AddToList
<1>2. v_mine' \in Wallets!List /\ LegacyLeft' = LegacyLeft
  BY <1>1 DEF VaultInv, Wallets!TypeOK, Wallets!List, LegacyLeft
<1>. QED BY <1>1, <1>2, LoadedHolds, SharedHolds, SaveInv DEF Wallets!List

LEMMA RemoveInv == ASSUME VaultInv, NEW t \in Tab, NEW w \in Wallet, Wallets!RemoveWallet(t, w) PROVE VaultInv'
<1>1. v_mine' = v_mine \ {w} /\ w \in Wallets!LoadWallets(t) /\ UNCHANGED <<v_vault, v_keyed>>
      /\ Wallets!SaveWallets(t, Wallets!LoadWallets(t) \ {w}, Wallets!Parted(t))
  BY DEF Wallets!RemoveWallet
<1>2. v_mine' \in Wallets!List /\ LegacyLeft' = LegacyLeft \ {w}
  BY <1>1 DEF VaultInv, Wallets!TypeOK, Wallets!List, LegacyLeft
<1>3. ~Wallets!VaultExists \/ Wallets!Unlocked(t)
  BY <1>1, LoadedHolds
<1>. QED BY <1>1, <1>2, <1>3, LoadedHolds, SharedHolds, SaveInv DEF Wallets!List

\* A call is made with a list that holds what must be kept.
LEMMA StartInv ==
  ASSUME VaultInv, NEW t \in Tab, NEW kind \in Wallets!Kinds, NEW ws \in Wallets!List,
         LegacyLeft \subseteq ws, Wallets!Start(t, kind, ws)
  PROVE  VaultInv'
<1>1. /\ v_tasks' = v_tasks \cup {[kind |-> kind, tab |-> t, list |-> ws]}
      /\ UNCHANGED <<v_plain, v_vault, v_open, v_keyed, v_mine>>
  BY DEF Wallets!Start
<1>. QED
  BY <1>1 DEF VaultInv, Wallets!TypeOK, ListsHold, Wallets!VaultExists, Wallets!Unlocked, Wallets!Task, LegacyLeft

LEMMA UserInv ==
  ASSUME VaultInv, NEW t \in Tab, Wallets!User(t)
  PROVE  VaultInv'
<1>1. CASE Wallets!SetupVault(t)
  <2>1. v_plain \in Wallets!List /\ LegacyLeft \subseteq v_plain /\ Wallets!Start(t, "setup", v_plain)
    BY <1>1 DEF Wallets!SetupVault, VaultInv, Wallets!TypeOK, ListsHold
  <2>. QED BY <2>1, StartInv DEF Wallets!Kinds
<1>2. CASE Wallets!PersistVaultUpdate(t)
  <2>1. v_open[t][1] \in Wallets!List /\ LegacyLeft \subseteq v_open[t][1]
        /\ Wallets!Start(t, "rekey", v_open[t][1])
    BY <1>2 DEF Wallets!PersistVaultUpdate, VaultInv, Wallets!TypeOK, ListsHold, Wallets!Unlocked, Wallets!Nothing
  <2>. QED BY <2>1, StartInv DEF Wallets!Kinds
<1>3. CASE Wallets!UnlockVault(t) \/ Wallets!DestroyVault(t)
  <2>1. v_vault[1] \in Wallets!List /\ LegacyLeft \subseteq v_vault[1]
    BY <1>3 DEF Wallets!UnlockVault, Wallets!DestroyVault, VaultInv, Wallets!TypeOK, ListsHold, Wallets!VaultExists, Wallets!Nothing
  <2>2. \E kind \in {"unlock", "destroy"} : Wallets!Start(t, kind, v_vault[1])
    BY <1>3 DEF Wallets!UnlockVault, Wallets!DestroyVault
  <2>. QED BY <2>1, <2>2, StartInv DEF Wallets!Kinds
<1>4. CASE Wallets!Reload(t) \/ Wallets!Close(t)
  <2>1. /\ v_tasks' \subseteq v_tasks /\ UNCHANGED <<v_plain, v_vault, v_mine>>
        /\ v_keyed' = v_keyed \ {t}
        /\ v_open' = v_open \/ v_open' = [v_open EXCEPT ![t] = Wallets!Nothing]
    BY <1>4 DEF Wallets!Reload, Wallets!Close
  <2>2. Wallets!TypeOK'
    BY <2>1 DEF VaultInv, Wallets!TypeOK, Wallets!Nothing
  <2>3. ListsHold'
    BY <2>1 DEF VaultInv, Wallets!TypeOK, ListsHold, Wallets!VaultExists, Wallets!Unlocked, Wallets!Nothing, LegacyLeft
  <2>. QED BY <2>2, <2>3 DEF VaultInv
<1>5. CASE \E w \in Wallet : Wallets!AddToList(t, w) \/ Wallets!RemoveWallet(t, w)
  BY <1>5, AddInv, RemoveInv
<1>. QED BY <1>1, <1>2, <1>3, <1>4, <1>5 DEF Wallets!User

-----------------------------------------------------------------------------
\* What a call that ends may have written: a list it held, or nothing.
LEMMA EndWrites ==
  ASSUME VaultInv, NEW x \in v_tasks, Wallets!End(x)
  PROVE  /\ v_tasks' = v_tasks \ {x} /\ v_mine' = v_mine
         /\ \/ v_vault' = <<x.list>>
            \/ v_vault' = Wallets!Nothing /\ v_plain' = x.list
            \/ v_vault' = v_vault /\ v_plain' = v_plain
         /\ v_plain' \in {v_plain, {}, x.list}
         /\ v_open' \in {v_open, [v_open EXCEPT ![x.tab] = <<x.list>>], [v_open EXCEPT ![x.tab] = Wallets!Nothing]}
         /\ v_keyed' \in {v_keyed, v_keyed \cup {x.tab}, v_keyed \ {x.tab}}
<1>1. CASE Wallets!EndSave(x) BY <1>1 DEF Wallets!EndSave, Wallets!Ends
<1>2. CASE Wallets!EndSetup(x) BY <1>2 DEF Wallets!EndSetup, Wallets!WriteVaulted, Wallets!Ends
<1>3. CASE Wallets!EndRekey(x) BY <1>3 DEF Wallets!EndRekey, Wallets!WriteVaulted, Wallets!Ends
<1>4. CASE Wallets!EndUnlock(x) BY <1>4 DEF Wallets!EndUnlock, Wallets!Ends
<1>5. CASE Wallets!EndDestroy(x) BY <1>5 DEF Wallets!EndDestroy, Wallets!Ends
<1>6. CASE Wallets!Fail(x) BY <1>6 DEF Wallets!Fail, Wallets!Ends
<1>. QED BY <1>1, <1>2, <1>3, <1>4, <1>5, <1>6 DEF Wallets!End

LEMMA EndInv == ASSUME VaultInv, NEW x \in v_tasks, Wallets!End(x) PROVE VaultInv'
<1>1. x \in Wallets!Task /\ x.tab \in Tab /\ x.list \in Wallets!List /\ LegacyLeft \subseteq x.list
  BY DEF VaultInv, Wallets!TypeOK, ListsHold, Wallets!Task
<1>2. LegacyLeft' = LegacyLeft
  BY EndWrites DEF LegacyLeft
<1>3. Wallets!TypeOK'
  <2>1. v_plain' \in Wallets!List /\ v_mine' \in Wallets!List /\ v_tasks' \subseteq Wallets!Task
    BY <1>1, EndWrites DEF VaultInv, Wallets!TypeOK, Wallets!List
  <2>2. v_vault' \in {Wallets!Nothing} \cup {<<ws>> : ws \in Wallets!List}
    BY <1>1, EndWrites DEF VaultInv, Wallets!TypeOK
  <2>3. v_open' \in [Tab -> {Wallets!Nothing} \cup {<<ws>> : ws \in Wallets!List}]
    BY <1>1, EndWrites DEF VaultInv, Wallets!TypeOK
  <2>4. v_keyed' \subseteq Tab
    BY <1>1, EndWrites DEF VaultInv, Wallets!TypeOK
  <2>. QED BY <2>1, <2>2, <2>3, <2>4 DEF Wallets!TypeOK
<1>4. (~Wallets!VaultExists => LegacyLeft \subseteq v_plain)' /\ (Wallets!VaultExists => LegacyLeft \subseteq v_vault[1])'
  <2>1. CASE v_vault' = <<x.list>>
    <3>1. v_vault' # Wallets!Nothing /\ v_vault'[1] = x.list
      BY <2>1 DEF Wallets!Nothing
    <3>. QED BY <1>1, <1>2, <3>1 DEF Wallets!VaultExists
  <2>2. CASE v_vault' = Wallets!Nothing /\ v_plain' = x.list
    BY <1>1, <1>2, <2>2 DEF Wallets!VaultExists
  <2>3. CASE v_vault' = v_vault /\ v_plain' = v_plain
    BY <1>2, <2>3 DEF VaultInv, ListsHold, Wallets!VaultExists
  <2>. QED BY <2>1, <2>2, <2>3, EndWrites
<1>5. (\A t \in Tab : Wallets!Unlocked(t) => LegacyLeft \subseteq v_open[t][1])'
  BY <1>1, <1>2, EndWrites DEF VaultInv, Wallets!TypeOK, ListsHold, Wallets!Unlocked, Wallets!Nothing
<1>6. (\A y \in v_tasks : LegacyLeft \subseteq y.list)'
  BY <1>2, EndWrites DEF VaultInv, ListsHold
<1>. QED BY <1>3, <1>4, <1>5, <1>6 DEF VaultInv, ListsHold

-----------------------------------------------------------------------------
\* A step of the browser keeps the invariant.
LEMMA VaultStep == VaultInv /\ [Wallets!Next]_vaultVars => VaultInv'
<1> SUFFICES ASSUME VaultInv, [Wallets!Next]_vaultVars PROVE VaultInv'
  OBVIOUS
<1>1. CASE UNCHANGED vaultVars
  BY <1>1 DEF vaultVars, VaultInv, Wallets!TypeOK, ListsHold, Wallets!VaultExists, Wallets!Unlocked, LegacyLeft
<1>. QED BY <1>1, UserInv, EndInv DEF Wallets!Next

\* Set-ups, changes of password, late saves, opt-outs, reloads and closed tabs, in
\* any number and order, leave every legacy wallet in localStorage until the user
\* removes it (setupVault, lockVault, memCacheSet, destroyVault).
THEOREM LegacySafe == PartsSpec => []LegacyKept
<1>1. PartsInit => VaultInv
  BY VaultInit DEF PartsInit
<1>2. VaultInv /\ [PartsNext]_allVars => VaultInv'
  BY PartsSteps, VaultStep
<1>3. VaultInv => LegacyKept
  BY DEF VaultInv, Wallets!TypeOK, ListsHold, LegacyKept, Wallets!LegacyKept,
         Wallets!OnDisk, Wallets!VaultExists, LegacyLeft
<1>. QED BY <1>1, <1>2, <1>3, PTL DEF PartsSpec

-----------------------------------------------------------------------------
(* The multisig wallet. *)

\* The sums of the instance are those of SumProofs.
LEMMA SharedSum ==
  ASSUME NEW F, NEW S
  PROVE  Shared!SumFunctionOnSet(F, S) = SumFunctionOnSet(F, S)
BY DEF Shared!SumFunctionOnSet, Shared!FoldFunctionOnSet, Shared!MapThenFoldSet,
       SumFunctionOnSet, FoldFunctionOnSet, MapThenFoldSet

MsProposals ==
    [to : Shared!Holder, amount : Nat, approvals : SUBSET Owner, expiry : Nat,
     executed : BOOLEAN]

MsTypes ==
    /\ \E n \in Nat : m_proposals \in [1 .. n -> MsProposals]
    /\ m_balance \in [Shared!Holder -> Nat]
    /\ m_height \in 0 .. MaxHeight /\ m_funded \in 0 .. MaxFunds /\ m_selfPaid \in Nat

MsAmounts == [i \in Shared!Ids |-> m_proposals[i].amount]
MsPaid    == {i \in Shared!Executed : m_proposals[i].to # Treasury}

\* What was paid in is in the wallet or went to others; all of it is in some account but
\* for what executors overwrote.
MsPaysOnce == m_balance[Treasury] + SumFunctionOnSet(MsAmounts, MsPaid) = m_funded * Funds
MsArrives  == SumFunctionOnSet(m_balance, Shared!Holder) + m_selfPaid = m_funded * Funds

MsInv == MsTypes /\ MsPaysOnce /\ MsArrives

LEMMA MsCount ==
  ASSUME MsTypes
  PROVE  \E n \in Nat : /\ Shared!Ids = 1 .. n /\ Shared!Cardinality(Shared!Ids) = n
                        /\ m_proposals \in [1 .. n -> MsProposals]
<1>1. PICK n \in Nat : m_proposals \in [1 .. n -> MsProposals]
  BY DEF MsTypes
<1>2. Shared!Ids = 1 .. n
  BY <1>1 DEF Shared!Ids
<1>3. Cardinality(1 .. n) = n
  BY FS_Interval
<1>4. Shared!Cardinality(Shared!Ids) = Cardinality(Shared!Ids)
  BY DEF Shared!Cardinality, Cardinality
<1>. QED BY <1>1, <1>2, <1>3, <1>4

LEMMA MsConstants ==
  /\ Funds \in Nat /\ MaxFunds \in Nat /\ MaxExpiry \in Nat /\ MaxHeight \in Nat
  /\ Treasury \notin Owner /\ IsFiniteSet(Owner \cup Other)
BY PartsAssumption

LEMMA MsFinite ==
  ASSUME MsTypes
  PROVE  /\ IsFiniteSet(Shared!Ids) /\ Shared!Executed \in SUBSET Shared!Ids
         /\ MsPaid \in SUBSET Shared!Ids /\ IsFiniteSet(MsPaid)
         /\ \A i \in Shared!Ids : MsAmounts[i] \in Nat /\ MsAmounts[i] = m_proposals[i].amount
         /\ IsFiniteSet(Shared!Holder) /\ Treasury \in Shared!Holder
         /\ SumFunctionOnSet(MsAmounts, MsPaid) \in Nat
<1>1. PICK n \in Nat : Shared!Ids = 1 .. n /\ m_proposals \in [1 .. n -> MsProposals]
  BY MsCount
<1>2. IsFiniteSet(Shared!Ids)
  BY <1>1, FS_Interval
<1>3. Shared!Executed \in SUBSET Shared!Ids /\ MsPaid \in SUBSET Shared!Ids
  BY DEF Shared!Executed, MsPaid
<1>4. IsFiniteSet(MsPaid)
  BY <1>2, <1>3, FS_Subset
<1>5. \A i \in Shared!Ids : MsAmounts[i] \in Nat /\ MsAmounts[i] = m_proposals[i].amount
  BY <1>1 DEF MsAmounts, MsProposals
<1>6. IsFiniteSet(Shared!Holder) /\ Treasury \in Shared!Holder
  BY PartsAssumption, FS_AddElement DEF Shared!Holder
<1>7. SumFunctionOnSet(MsAmounts, MsPaid) \in Nat
  BY <1>3, <1>4, <1>5, SumNat
<1>. QED BY <1>2, <1>3, <1>4, <1>5, <1>6, <1>7

LEMMA MsInit == Shared!Init => MsInv
<1> SUFFICES ASSUME Shared!Init PROVE MsInv
  OBVIOUS
<1>1. m_proposals \in [1 .. 0 -> MsProposals]
  BY DEF Shared!Init
<1>2. MsTypes
  <2>1. {MaxFunds, MaxHeight} \subseteq Nat
    BY PartsAssumption
  <2>. QED BY <1>1, <2>1 DEF Shared!Init, MsTypes
<1>3. MsPaid = {} /\ Funds \in Nat
  BY PartsAssumption DEF Shared!Init, MsPaid, Shared!Executed, Shared!Ids
<1>4. SumFunctionOnSet(MsAmounts, {}) = 0 /\ SumFunctionOnSet(m_balance, Shared!Holder) = 0
  <2>1. /\ \A a \in Shared!Holder : m_balance[a] = 0
        /\ IsFiniteSet(Shared!Holder)
    BY <1>2, MsFinite DEF Shared!Init
  <2>. QED BY <2>1, SumEmpty, SumZero
<1>5. m_balance[Treasury] = 0 /\ m_funded = 0 /\ m_selfPaid = 0
  BY <1>2, MsFinite DEF Shared!Init
<1>. QED BY <1>2, <1>3, <1>4, <1>5 DEF MsInv, MsPaysOnce, MsArrives

\* An operation that pays nothing leaves the books as they are.
LEMMA MsKeeps ==
  ASSUME MsInv, MsTypes', UNCHANGED <<m_balance, m_funded, m_selfPaid>>,
         Shared!Ids \subseteq Shared!Ids',
         \A i \in Shared!Ids : /\ m_proposals'[i].amount = m_proposals[i].amount
                               /\ m_proposals'[i].to = m_proposals[i].to
                               /\ m_proposals'[i].executed = m_proposals[i].executed,
         \A i \in Shared!Ids' : i \notin Shared!Ids => ~m_proposals'[i].executed
  PROVE  MsInv'
<1>1. MsPaid' = MsPaid
  BY DEF MsPaid, Shared!Executed
<1>2. \A i \in MsPaid : MsAmounts'[i] = MsAmounts[i]
  <2>1. MsPaid \in SUBSET Shared!Ids
    BY MsFinite DEF MsInv
  <2>. QED BY <2>1 DEF MsAmounts
<1>3. SumFunctionOnSet(MsAmounts', MsPaid) = SumFunctionOnSet(MsAmounts, MsPaid)
  <2>1. IsFiniteSet(MsPaid)
    BY MsFinite DEF MsInv
  <2>. QED BY <1>2, <2>1, SumSame
<1>4. (SumFunctionOnSet(MsAmounts, MsPaid))' = SumFunctionOnSet(MsAmounts', MsPaid')
  OBVIOUS
<1>5. MsPaysOnce'
  BY <1>1, <1>3, <1>4 DEF MsInv, MsPaysOnce
<1>6. MsArrives'
  BY DEF MsInv, MsArrives, Shared!Holder
<1>. QED BY <1>5, <1>6 DEF MsInv

LEMMA FundStep == ASSUME MsInv, Shared!Fund PROVE MsInv'
<1>1. /\ m_funded < MaxFunds /\ m_funded' = m_funded + 1
      /\ m_balance' = [m_balance EXCEPT ![Treasury] = @ + Funds]
      /\ UNCHANGED <<m_proposals, m_height, m_selfPaid>>
  BY DEF Shared!Fund
<1>2. /\ Funds \in Nat /\ MaxFunds \in Nat /\ m_funded \in Nat
      /\ m_balance \in [Shared!Holder -> Nat] /\ Treasury \in Shared!Holder
      /\ IsFiniteSet(Shared!Holder)
  BY MsConstants, MsFinite DEF MsInv, MsTypes
<1>3. MsTypes'
  <2>1. m_balance' \in [Shared!Holder -> Nat] /\ Shared!Holder' = Shared!Holder
    BY <1>1, <1>2 DEF Shared!Holder
  <2>2. m_funded' \in 0 .. MaxFunds
    BY <1>1, <1>2
  <2>. QED BY <1>1, <2>1, <2>2 DEF MsInv, MsTypes
<1>4. m_balance'[Treasury] = m_balance[Treasury] + Funds
  BY <1>1, <1>2
<1>5. /\ \A a \in Shared!Holder : m_balance[a] \in Nat /\ m_balance'[a] \in Nat
      /\ \A a \in Shared!Holder \ {Treasury} : m_balance'[a] = m_balance[a]
  BY <1>1, <1>2
<1>6. /\ SumFunctionOnSet(m_balance', Shared!Holder) + m_balance[Treasury]
          = SumFunctionOnSet(m_balance, Shared!Holder) + m_balance'[Treasury]
      /\ SumFunctionOnSet(m_balance, Shared!Holder) \in Nat
      /\ SumFunctionOnSet(m_balance', Shared!Holder) \in Nat
  BY <1>2, <1>5, SumChange
<1>7. m_funded' * Funds = m_funded * Funds + Funds /\ m_funded * Funds \in Nat
  BY <1>1, <1>2
<1>8. MsPaysOnce'
  <2>1. MsPaid' = MsPaid /\ MsAmounts' = MsAmounts /\ SumFunctionOnSet(MsAmounts, MsPaid) \in Nat
    BY <1>1, MsFinite DEF MsInv, MsPaid, MsAmounts, Shared!Executed, Shared!Ids
  <2>2. PICK s \in Nat : s = SumFunctionOnSet(MsAmounts, MsPaid)
    BY <2>1
  <2>3. PICK b \in Nat : b = m_balance[Treasury]
    BY <1>2
  <2>4. b + s = m_funded * Funds
    BY <2>2, <2>3 DEF MsInv, MsPaysOnce
  <2>5. (b + Funds) + s = m_funded' * Funds
    BY <1>2, <1>7, <2>2, <2>3, <2>4
  <2>6. SumFunctionOnSet(MsAmounts, MsPaid)' = s
    BY <2>1, <2>2
  <2>7. m_balance'[Treasury] = b + Funds
    BY <1>4, <2>3
  <2>. QED BY <2>5, <2>6, <2>7 DEF MsPaysOnce
<1>9. MsArrives'
  <2>1. PICK s \in Nat : s = SumFunctionOnSet(m_balance, Shared!Holder)
    BY <1>6
  <2>2. PICK t \in Nat : t = SumFunctionOnSet(m_balance', Shared!Holder)
    BY <1>6
  <2>3. PICK b \in Nat : b = m_balance[Treasury]
    BY <1>2
  <2>4. t = s + Funds
    BY <1>2, <1>4, <1>6, <2>1, <2>2, <2>3
  <2>5. s + m_selfPaid = m_funded * Funds /\ m_selfPaid' = m_selfPaid /\ m_selfPaid \in Nat
    BY <1>1, <2>1 DEF MsInv, MsTypes, MsArrives
  <2>6. t + m_selfPaid' = m_funded' * Funds
    BY <1>2, <1>7, <2>4, <2>5
  <2>. QED BY <2>2, <2>6 DEF MsArrives, Shared!Holder
<1>. QED BY <1>3, <1>8, <1>9 DEF MsInv

LEMMA ProposeStep ==
  ASSUME MsInv, NEW o \in Owner, NEW to \in Shared!Holder, NEW a \in 1 .. Funds,
         NEW e \in 1 .. MaxExpiry, Shared!Propose(o, to, a, e)
  PROVE  MsInv'
<1>1. PICK n \in Nat : /\ Shared!Ids = 1 .. n /\ Shared!Cardinality(Shared!Ids) = n
                       /\ m_proposals \in [1 .. n -> MsProposals]
  BY MsCount DEF MsInv
<1> DEFINE p == [to |-> to, amount |-> a, approvals |-> {o}, expiry |-> m_height + e,
                 executed |-> FALSE]
<1>2. /\ m_proposals' = [i \in 1 .. n + 1 |-> IF i \in 1 .. n THEN m_proposals[i] ELSE p]
      /\ UNCHANGED <<m_balance, m_height, m_funded, m_selfPaid>>
  BY <1>1 DEF Shared!Propose
<1>3. p \in MsProposals /\ p.executed = FALSE
  BY PartsAssumption DEF MsProposals, MsInv, MsTypes
<1> HIDE DEF p
<1>4. m_proposals' \in [1 .. n + 1 -> MsProposals]
  BY <1>1, <1>2, <1>3
<1>5. Shared!Ids' = 1 .. n + 1
  BY <1>2 DEF Shared!Ids
<1>6. /\ \A i \in 1 .. n : m_proposals'[i] = m_proposals[i]
      /\ \A i \in 1 .. n + 1 : i \notin 1 .. n => m_proposals'[i] = p
  BY <1>2
<1>7. MsTypes'
  BY <1>2, <1>4 DEF MsInv, MsTypes, Shared!Holder, MsProposals
<1>. QED BY <1>1, <1>2, <1>3, <1>5, <1>6, <1>7, MsKeeps

\* Approvals and revocations.
LEMMA MarkStep ==
  ASSUME MsInv, NEW i \in Shared!Ids, NEW s \in SUBSET Owner,
         m_proposals' = [m_proposals EXCEPT ![i].approvals = s],
         UNCHANGED <<m_balance, m_height, m_funded, m_selfPaid>>
  PROVE  MsInv'
<1>1. PICK n \in Nat : Shared!Ids = 1 .. n /\ m_proposals \in [1 .. n -> MsProposals]
  BY MsCount DEF MsInv
<1>2. m_proposals' \in [1 .. n -> MsProposals] /\ Shared!Ids' = Shared!Ids
  BY <1>1 DEF MsProposals, Shared!Ids
<1>3. \A j \in Shared!Ids : /\ m_proposals'[j].amount = m_proposals[j].amount
                            /\ m_proposals'[j].to = m_proposals[j].to
                            /\ m_proposals'[j].executed = m_proposals[j].executed
  BY <1>1 DEF MsProposals
<1>4. MsTypes'
  BY <1>2 DEF MsInv, MsTypes, Shared!Holder, MsProposals
<1>. QED BY <1>2, <1>3, <1>4, MsKeeps

LEMMA ExecuteStep ==
  ASSUME MsInv, NEW o \in Owner, NEW i \in Shared!Ids, Shared!Execute(o, i)
  PROVE  MsInv'
<1>1. PICK n \in Nat : Shared!Ids = 1 .. n /\ m_proposals \in [1 .. n -> MsProposals]
  BY MsCount DEF MsInv
<1>2. PICK to \in Shared!Holder, a \in Nat :
          to = m_proposals[i].to /\ a = m_proposals[i].amount /\ ~m_proposals[i].executed
  BY <1>1 DEF MsProposals, Shared!Execute, Shared!Executable
<1>3. PICK b : b = m_balance
  OBVIOUS
<1>4. PICK c : c = m_balance'
  OBVIOUS
<1>5. PICK S : S = Shared!Holder
  OBVIOUS
<1>6. /\ b \in [S -> Nat] /\ IsFiniteSet(S) /\ Treasury \in S /\ o \in S /\ to \in S
      /\ o # Treasury /\ Shared!Holder' = S
  BY <1>2, <1>3, <1>5, MsConstants, MsFinite DEF MsInv, MsTypes, Shared!Holder
<1>7. b[Treasury] >= a
  BY <1>2, <1>3 DEF Shared!Execute, Shared!Executable
<1>8. /\ m_proposals' = [m_proposals EXCEPT ![i].executed = TRUE]
      /\ m_selfPaid' = m_selfPaid + IF to = o THEN a ELSE 0
      /\ UNCHANGED <<m_height, m_funded>>
  BY <1>2 DEF Shared!Execute
<1>9. PICK d : d = [b EXCEPT ![Treasury] = @ - a]
  OBVIOUS
<1>10. PICK f : f = [d EXCEPT ![to] = @ + a]
  OBVIOUS
<1>11. c = [f EXCEPT ![o] = b[o]]
  BY <1>2, <1>3, <1>4, <1>9, <1>10 DEF Shared!Execute, Shared!PaidRows
<1>12. d \in [S -> Nat] /\ d[Treasury] + a = b[Treasury] /\ \A x \in S \ {Treasury} : d[x] = b[x]
  <2>1. b[Treasury] \in Nat /\ b[Treasury] - a \in Nat
    BY <1>6, <1>7
  <2>. QED BY <1>6, <1>9, <2>1
<1>13. f \in [S -> Nat] /\ f[to] = d[to] + a /\ \A x \in S \ {to} : f[x] = d[x]
  BY <1>6, <1>10, <1>12
<1>14. c \in [S -> Nat] /\ c[o] = b[o] /\ \A x \in S \ {o} : c[x] = f[x]
  BY <1>6, <1>11, <1>13
<1>15. m_proposals' \in [1 .. n -> MsProposals] /\ Shared!Ids' = Shared!Ids
  BY <1>1, <1>8 DEF MsProposals, Shared!Ids
<1>16. MsTypes'
  <2>1. m_selfPaid' \in Nat
    BY <1>8 DEF MsInv, MsTypes
  <2>2. MsProposals' = MsProposals
    BY <1>5, <1>6 DEF MsProposals
  <2>. QED BY <1>4, <1>6, <1>8, <1>14, <1>15, <2>1, <2>2 DEF MsInv, MsTypes
<1>17. /\ \A j \in Shared!Ids : /\ m_proposals'[j].amount = m_proposals[j].amount
                                /\ m_proposals'[j].to = m_proposals[j].to
       /\ \A j \in Shared!Ids \ {i} : m_proposals'[j].executed = m_proposals[j].executed
       /\ m_proposals'[i].executed
  BY <1>1, <1>8 DEF MsProposals
<1>18. MsPaysOnce'
  <2>1. PICK s \in Nat : s = SumFunctionOnSet(MsAmounts, MsPaid)
    BY MsFinite DEF MsInv
  <2>2. b[Treasury] + s = m_funded * Funds
    BY <1>3, <2>1 DEF MsInv, MsPaysOnce
  <2>3. MsAmounts' = MsAmounts
    BY <1>15, <1>17 DEF MsAmounts
  <2>4. i \notin MsPaid
    BY <1>2 DEF MsPaid, Shared!Executed
  <2>5. CASE to = Treasury
    <3>1. MsPaid' = MsPaid
      BY <1>2, <1>15, <1>17, <2>5 DEF MsPaid, Shared!Executed
    <3>2. c[Treasury] = b[Treasury]
      BY <1>6, <1>12, <1>13, <1>14, <2>5
    <3>. QED BY <1>4, <1>8, <2>1, <2>2, <2>3, <3>1, <3>2 DEF MsPaysOnce
  <2>6. CASE to # Treasury
    <3>1. MsPaid' = MsPaid \cup {i}
      BY <1>2, <1>15, <1>17, <2>6 DEF MsPaid, Shared!Executed
    <3>2. c[Treasury] + a = b[Treasury] /\ c[Treasury] \in Nat
      BY <1>6, <1>12, <1>13, <1>14, <2>6
    <3>3. SumFunctionOnSet(MsAmounts, MsPaid \cup {i}) = s + a
      <4>1. \A y \in MsPaid \cup {i} : MsAmounts[y] \in Nat
        BY MsFinite DEF MsInv
      <4>2. SumFunctionOnSet(MsAmounts, MsPaid \cup {i}) = SumFunctionOnSet(MsAmounts, MsPaid) + MsAmounts[i]
        BY <2>4, <4>1, SumAdd, MsFinite DEF MsInv
      <4>3. MsAmounts[i] = a
        BY <1>2, MsFinite DEF MsInv
      <4>. QED BY <2>1, <4>2, <4>3
    <3>4. c[Treasury] + (s + a) = m_funded' * Funds
      <4>1. b[Treasury] \in Nat
        BY <1>6
      <4>. QED BY <1>8, <2>2, <3>2, <4>1
    <3>5. SumFunctionOnSet(MsAmounts, MsPaid)' = s + a
      BY <2>3, <3>1, <3>3
    <3>. QED BY <1>4, <3>4, <3>5 DEF MsPaysOnce
  <2>. QED BY <2>5, <2>6
<1>19. MsArrives'
  <2>1. /\ SumFunctionOnSet(d, S) + b[Treasury] = SumFunctionOnSet(b, S) + d[Treasury]
        /\ SumFunctionOnSet(b, S) \in Nat /\ SumFunctionOnSet(d, S) \in Nat
    BY <1>6, <1>12, SumChange
  <2>2. /\ SumFunctionOnSet(f, S) + d[to] = SumFunctionOnSet(d, S) + f[to]
        /\ SumFunctionOnSet(f, S) \in Nat
    BY <1>6, <1>12, <1>13, SumChange
  <2>3. /\ SumFunctionOnSet(c, S) + f[o] = SumFunctionOnSet(f, S) + c[o]
        /\ SumFunctionOnSet(c, S) \in Nat
    BY <1>6, <1>13, <1>14, SumChange
  <2>4. f[o] = c[o] + IF to = o THEN a ELSE 0
    BY <1>6, <1>12, <1>13, <1>14
  <2>5. b[Treasury] \in Nat /\ d[Treasury] \in Nat /\ d[to] \in Nat /\ f[to] \in Nat /\ f[o] \in Nat /\ c[o] \in Nat
    BY <1>6, <1>12, <1>13, <1>14
  <2>6. PICK x \in Nat : x = IF to = o THEN a ELSE 0
    OBVIOUS
  <2>7. SumFunctionOnSet(c, S) + x = SumFunctionOnSet(b, S)
    BY <1>12, <1>13, <2>1, <2>2, <2>3, <2>4, <2>5, <2>6
  <2>8. m_selfPaid' = m_selfPaid + x /\ m_selfPaid \in Nat
    BY <1>8, <2>6 DEF MsInv, MsTypes
  <2>9. SumFunctionOnSet(b, S) + m_selfPaid = m_funded' * Funds
    BY <1>3, <1>5, <1>8 DEF MsInv, MsArrives
  <2>10. SumFunctionOnSet(c, S) + m_selfPaid' = m_funded' * Funds
    BY <2>1, <2>3, <2>7, <2>8, <2>9
  <2>. QED BY <1>4, <1>6, <2>10 DEF MsArrives
<1>. QED BY <1>16, <1>18, <1>19 DEF MsInv

LEMMA MsStep == ASSUME MsInv, [Shared!Next]_sharedVars PROVE MsInv'
<1>1. CASE UNCHANGED sharedVars
  BY <1>1 DEF sharedVars, MsInv, MsTypes, MsPaysOnce, MsArrives, MsAmounts, MsPaid, MsProposals,
              Shared!Executed, Shared!Ids, Shared!Holder
<1>2. CASE Shared!Fund
  BY <1>2, FundStep
<1>3. CASE Shared!NewBlock
  <2>1. /\ UNCHANGED <<m_proposals, m_balance, m_funded, m_selfPaid>>
        /\ m_height' \in 0 .. MaxHeight
    BY <1>3, MsConstants DEF Shared!NewBlock, MsInv, MsTypes
  <2>2. MsTypes'
    BY <2>1 DEF MsInv, MsTypes, MsProposals, Shared!Holder
  <2>. QED BY <2>1, <2>2, MsKeeps DEF Shared!Ids
<1>4. ASSUME NEW o \in Owner, NEW to \in Shared!Holder, NEW a \in 1 .. Funds,
             NEW e \in 1 .. MaxExpiry, Shared!Propose(o, to, a, e)
      PROVE  MsInv'
  BY <1>4, ProposeStep
<1>5. ASSUME NEW o \in Owner, NEW i \in Shared!Ids,
             Shared!Approve(o, i) \/ Shared!Revoke(o, i) \/ Shared!Execute(o, i)
      PROVE  MsInv'
  <2>1. m_proposals[i].approvals \in SUBSET Owner
    BY MsCount DEF MsInv, MsProposals
  <2>2. CASE Shared!Approve(o, i)
    <3>1. m_proposals' = [m_proposals EXCEPT ![i].approvals = m_proposals[i].approvals \cup {o}]
      BY <2>2, MsCount DEF Shared!Approve, MsInv
    <3>2. m_proposals[i].approvals \cup {o} \in SUBSET Owner
      BY <2>1
    <3>3. UNCHANGED <<m_balance, m_height, m_funded, m_selfPaid>>
      BY <2>2 DEF Shared!Approve
    <3>. QED BY <3>1, <3>2, <3>3, MarkStep
  <2>3. CASE Shared!Revoke(o, i)
    <3>1. m_proposals' = [m_proposals EXCEPT ![i].approvals = m_proposals[i].approvals \ {o}]
      BY <2>3, MsCount DEF Shared!Revoke, MsInv
    <3>2. m_proposals[i].approvals \ {o} \in SUBSET Owner
      BY <2>1
    <3>3. UNCHANGED <<m_balance, m_height, m_funded, m_selfPaid>>
      BY <2>3 DEF Shared!Revoke
    <3>. QED BY <3>1, <3>2, <3>3, MarkStep
  <2>. QED BY <1>5, <2>2, <2>3, ExecuteStep
<1>. QED BY <1>1, <1>2, <1>3, <1>4, <1>5 DEF Shared!Next

\* Whatever owners propose, approve, revoke and execute, and in what order, a proposal
\* pays once, only what the wallet was sent leaves it, and what leaves it arrives but for
\* what an executor was to be paid himself (state.rs, MultisigOp).
THEOREM MultisigBooks == PartsSpec => []MultisigPays
<1>1. PartsInit => MsInv
  BY MsInit DEF PartsInit
<1>2. MsInv /\ [PartsNext]_allVars => MsInv'
  BY PartsSteps, MsStep
<1>3. MsInv => MultisigPays
  <2> SUFFICES ASSUME MsInv PROVE MultisigPays
    OBVIOUS
  <2>1. Shared!TypeOK
    <3>1. PICK n \in Nat : /\ Shared!Ids = 1 .. n /\ Shared!Cardinality(Shared!Ids) = n
                           /\ m_proposals \in [1 .. n -> MsProposals]
      BY MsCount DEF MsInv
    <3>. QED BY <3>1 DEF MsInv, MsTypes, MsProposals, Shared!TypeOK
  <2>2. Shared!PaysOnce /\ Shared!Arrives
    BY SharedSum DEF MsInv, MsPaysOnce, MsArrives, MsAmounts, MsPaid, Shared!PaysOnce, Shared!Arrives
  <2>. QED BY <2>1, <2>2 DEF MultisigPays
<1>. QED BY <1>1, <1>2, <1>3, PTL DEF PartsSpec

-----------------------------------------------------------------------------
(* The proposals. *)

Proposals == [proposer : Voter, value : Value, status : Gov!Status,
              starts : Nat, ends : Nat, yes : Nat, no : Nat]
Ballots   == UNION {[S -> BOOLEAN] : S \in SUBSET Voter}

GovTypes ==
    /\ g_proposals \in Seq(Proposals)
    /\ g_votes \in Seq(Ballots) /\ Len(g_votes) = Len(g_proposals)
    /\ \A i \in Gov!Ids : IsFiniteSet(DOMAIN g_votes[i])
    /\ g_flag \in Value \cup {Gov!Unset} /\ g_height \in 0 .. GovHeight
    /\ g_faults \in 0 .. MaxFaults /\ g_unsaved \in BOOLEAN
    /\ g_ticking \in Seq(Nat) /\ \A k \in DOMAIN g_ticking : g_ticking[k] \in Gov!Ids
    /\ g_order \in Seq(Nat) /\ \A k \in DOMAIN g_order : g_order[k] \in Gov!Ids

Passed(i) == g_height >= g_proposals[i].ends /\ Gov!MeetsPassCriteria(g_proposals[i])

\* What is approved had ended and passed, and its tally is closed.
ApprovedPassed ==
    \A i \in Gov!Ids : g_proposals[i].status = "Approved" => Passed(i)

\* So had what was carried out; while no status is lost, it stays carried out.
Done(i) == \E k \in DOMAIN g_order : g_order[k] = i

DoneEnded ==
    \A i \in Gov!Ids : Done(i) =>
        /\ g_height >= g_proposals[i].ends
        /\ ~g_unsaved => g_proposals[i].status = "Activated" /\ Passed(i)

\* The flag is that of the last one.
FlagIsLast ==
    IF g_order = <<>> THEN g_flag = Gov!Unset
    ELSE g_flag = g_proposals[g_order[Len(g_order)]].value

GovInv ==
    /\ GovTypes /\ Gov!TallyIsBallots /\ ApprovedPassed /\ DoneEnded /\ FlagIsLast
    /\ Gov!OnceEach

LEMMA GovConstants ==
  {TestBlocks, VoteBlocks, MaxFaults, GovHeight} \subseteq Nat /\ MinQuorum \in Nat \ {0}
BY PartsAssumption

LEMMA GovCount ==
  /\ Gov!Cardinality({}) = 0
  /\ \A S, x : IsFiniteSet(S) /\ x \notin S => Gov!Cardinality(S \cup {x}) = Gov!Cardinality(S) + 1
  /\ \A S : IsFiniteSet(S) => Gov!Cardinality(S) \in Nat
<1>1. \A S : Gov!Cardinality(S) = Cardinality(S)
  BY DEF Gov!Cardinality, Cardinality
<1>. QED BY <1>1, FS_EmptySet, FS_AddElement, FS_CardinalityType

LEMMA GovInit == Gov!Init => GovInv
<1> SUFFICES ASSUME Gov!Init PROVE GovInv
  OBVIOUS
<1>1. g_proposals = <<>> /\ g_votes = <<>> /\ g_ticking = <<>> /\ g_order = <<>> /\ DOMAIN g_order = {}
      /\ Gov!Ids = {}
  BY DEF Gov!Init, Gov!Ids
<1>2. GovTypes
  <2>1. g_height \in 0 .. GovHeight /\ g_faults \in 0 .. MaxFaults
    BY GovConstants DEF Gov!Init
  <2>2. <<>> \in Seq(Proposals) /\ <<>> \in Seq(Ballots) /\ <<>> \in Seq(Nat)
    OBVIOUS
  <2>3. /\ g_proposals \in Seq(Proposals) /\ g_votes \in Seq(Ballots)
        /\ g_ticking \in Seq(Nat) /\ g_order \in Seq(Nat) /\ DOMAIN g_ticking = {}
        /\ g_flag = Gov!Unset /\ g_unsaved = FALSE
    BY <1>1, <2>2 DEF Gov!Init
  <2>4. Len(g_votes) = Len(g_proposals)
    BY <1>1
  <2>. QED BY <1>1, <2>1, <2>3, <2>4 DEF GovTypes
<1>. QED
  BY <1>1, <1>2 DEF Gov!Init, GovInv, Gov!TallyIsBallots, ApprovedPassed, Done, DoneEnded, FlagIsLast, Gov!OnceEach

\* Ids are the first numbers, and what they have.
LEMMA GovIds ==
  ASSUME GovInv
  PROVE  /\ Gov!Ids = 1 .. Len(g_proposals) /\ DOMAIN g_votes = Gov!Ids /\ Len(g_proposals) \in Nat
         /\ \A i \in Gov!Ids : g_proposals[i] \in Proposals /\ g_votes[i] \in Ballots
  BY DEF GovInv, GovTypes, Gov!Ids

-----------------------------------------------------------------------------
LEMMA SubmitStep ==
  ASSUME GovInv, NEW w \in Voter, NEW v \in Value, Gov!Submit(w, v)
  PROVE  GovInv'
<1>0. PICK n \in Nat : n = Len(g_proposals) + 1
  BY GovIds
<1> DEFINE new == [proposer |-> w, value |-> v, status |-> "Testing",
                   starts |-> g_height + TestBlocks, ends |-> g_height + TestBlocks + VoteBlocks,
                   yes |-> 0, no |-> 0]
<1>1. /\ g_proposals' = Append(g_proposals, new) /\ g_votes' = Append(g_votes, Gov!NoBallot)
      /\ UNCHANGED <<g_flag, g_height, g_ticking, g_order, g_unsaved, g_faults>>
  BY DEF Gov!Submit
<1>2. new \in Proposals
  <2>1. g_height \in Nat /\ TestBlocks \in Nat /\ VoteBlocks \in Nat
    BY GovConstants DEF GovInv, GovTypes
  <2>2. g_height + TestBlocks \in Nat /\ g_height + TestBlocks + VoteBlocks \in Nat
    BY <2>1
  <2>3. "Testing" \in Gov!Status
    BY DEF Gov!Status
  <2>. QED BY <2>2, <2>3 DEF Proposals
<1>3. Gov!NoBallot \in Ballots /\ DOMAIN Gov!NoBallot = {}
  <2>1. Gov!NoBallot \in [{} -> BOOLEAN] /\ {} \in SUBSET Voter
    BY DEF Gov!NoBallot
  <2>. QED BY <2>1 DEF Ballots
<1>4. new.status = "Testing" /\ new.yes = 0 /\ new.no = 0
  OBVIOUS
<1> HIDE DEF new
<1>5. /\ g_proposals' \in Seq(Proposals) /\ g_votes' \in Seq(Ballots)
      /\ Len(g_votes') = Len(g_proposals') /\ Gov!Ids' = Gov!Ids \cup {n} /\ n \notin Gov!Ids
      /\ \A i \in Gov!Ids : g_proposals'[i] = g_proposals[i] /\ g_votes'[i] = g_votes[i]
      /\ g_proposals'[n] = new /\ g_votes'[n] = Gov!NoBallot
  <2>1. g_proposals \in Seq(Proposals) /\ g_votes \in Seq(Ballots)
        /\ Len(g_votes) = Len(g_proposals) /\ Len(g_proposals) \in Nat
        /\ Gov!Ids = 1 .. Len(g_proposals)
    BY GovIds DEF GovInv, GovTypes
  <2>2. /\ g_proposals' \in Seq(Proposals) /\ Len(g_proposals') = n /\ g_proposals'[n] = new
        /\ \A i \in 1 .. Len(g_proposals) : g_proposals'[i] = g_proposals[i]
    BY <1>0, <1>1, <1>2, <2>1
  <2>3. /\ g_votes' \in Seq(Ballots) /\ Len(g_votes') = n /\ g_votes'[n] = Gov!NoBallot
        /\ \A i \in 1 .. Len(g_proposals) : g_votes'[i] = g_votes[i]
    BY <1>0, <1>1, <1>3, <2>1
  <2>4. Gov!Ids' = 1 .. n
    BY <2>2 DEF Gov!Ids
  <2>5. 1 .. n = 1 .. Len(g_proposals) \cup {n} /\ n \notin 1 .. Len(g_proposals)
    BY <1>0, <2>1
  <2>. QED BY <2>1, <2>2, <2>3, <2>4, <2>5
<1>6. GovTypes'
  BY <1>1, <1>3, <1>5, FS_EmptySet DEF GovInv, GovTypes
<1>7. Gov!TallyIsBallots'
  <2>1. Gov!Cardinality({}) = 0
    BY GovCount
  <2>2. Gov!Voters(n, TRUE)' = {} /\ Gov!Voters(n, FALSE)' = {}
    BY <1>3, <1>5 DEF Gov!Voters
  <2>3. \A j \in Gov!Ids : Gov!Voters(j, TRUE)' = Gov!Voters(j, TRUE)
                        /\ Gov!Voters(j, FALSE)' = Gov!Voters(j, FALSE)
    BY <1>5 DEF Gov!Voters
  <2>. QED BY <1>4, <1>5, <2>1, <2>2, <2>3 DEF GovInv, Gov!TallyIsBallots
<1>8. ApprovedPassed'
  BY <1>1, <1>4, <1>5 DEF GovInv, ApprovedPassed, Passed, Gov!MeetsPassCriteria
<1>9. \A k \in DOMAIN g_order : g_proposals'[g_order[k]] = g_proposals[g_order[k]]
  BY <1>5 DEF GovInv, GovTypes
<1>10. DoneEnded' /\ Gov!OnceEach'
  <2>1. \A j \in Gov!Ids : Done(j)' = Done(j) /\ Passed(j)' = Passed(j)
          /\ g_proposals'[j].ends = g_proposals[j].ends
          /\ g_proposals'[j].status = g_proposals[j].status
    BY <1>1, <1>5 DEF Done, Passed, Gov!MeetsPassCriteria
  <2>2. ~Done(n)'
    BY <1>1, <1>5 DEF GovInv, GovTypes, Done
  <2>. QED BY <1>1, <1>5, <2>1, <2>2 DEF GovInv, DoneEnded, Gov!OnceEach
<1>11. FlagIsLast'
  <2>1. g_order # <<>> => Len(g_order) \in DOMAIN g_order
    BY DEF GovInv, GovTypes
  <2>. QED BY <1>1, <1>9, <2>1 DEF GovInv, FlagIsLast
<1>. QED BY <1>6, <1>7, <1>8, <1>10, <1>11 DEF GovInv

LEMMA VoteStep ==
  ASSUME GovInv, NEW w \in Voter, NEW i \in Gov!Ids, NEW yes \in BOOLEAN, Gov!Vote(w, i, yes)
  PROVE  GovInv'
<1> DEFINE ballot == [x \in DOMAIN g_votes[i] \cup {w} |-> IF x = w THEN yes ELSE g_votes[i][x]]
           up   == IF yes THEN 1 ELSE 0
           down == IF yes THEN 0 ELSE 1
           p    == [g_proposals[i] EXCEPT !.yes = @ + up, !.no = @ + down]
<1>1. /\ g_proposals[i].status = "Voting" /\ w \notin DOMAIN g_votes[i]
      /\ g_votes' = [g_votes EXCEPT ![i] = ballot]
      /\ UNCHANGED <<g_flag, g_height, g_ticking, g_order, g_unsaved, g_faults>>
  BY DEF Gov!Vote
<1>2. g_proposals' = [g_proposals EXCEPT ![i].yes = @ + up, ![i].no = @ + down]
  BY DEF Gov!Vote
<1>3. g_proposals[i] \in Proposals /\ g_votes[i] \in Ballots
  BY GovIds
<1>4. up \in Nat /\ down \in Nat
  OBVIOUS
<1>5. p \in Proposals /\ p.status = "Voting" /\ p.value = g_proposals[i].value /\ p.ends = g_proposals[i].ends
      /\ p.yes = g_proposals[i].yes + up /\ p.no = g_proposals[i].no + down
  <2>1. g_proposals[i].yes + up \in Nat /\ g_proposals[i].no + down \in Nat
    BY <1>3, <1>4 DEF Proposals
  <2> HIDE DEF up, down
  <2>. QED BY <1>1, <1>3, <2>1 DEF Proposals
<1>6. g_proposals' = [g_proposals EXCEPT ![i] = p]
  BY <1>2, <1>3 DEF Proposals, GovInv, GovTypes
<1>7. ballot \in Ballots /\ DOMAIN ballot = DOMAIN g_votes[i] \cup {w}
  <2>1. PICK S \in SUBSET Voter : g_votes[i] \in [S -> BOOLEAN]
    BY <1>3 DEF Ballots
  <2>2. ballot \in [S \cup {w} -> BOOLEAN] /\ S \cup {w} \in SUBSET Voter
    BY <2>1
  <2>. QED BY <2>1, <2>2 DEF Ballots
<1>8. \A b \in BOOLEAN : {x \in DOMAIN ballot : ballot[x] = b} =
          {x \in DOMAIN g_votes[i] : g_votes[i][x] = b} \cup (IF b = yes THEN {w} ELSE {})
  BY <1>1
<1> HIDE DEF p, ballot
<1>9. /\ g_proposals' \in Seq(Proposals) /\ g_votes' \in Seq(Ballots)
      /\ Len(g_votes') = Len(g_proposals') /\ Gov!Ids' = Gov!Ids
      /\ g_proposals'[i] = p /\ g_votes'[i] = ballot
      /\ \A j \in Gov!Ids \ {i} : g_proposals'[j] = g_proposals[j] /\ g_votes'[j] = g_votes[j]
  BY <1>1, <1>5, <1>6, <1>7, GovIds DEF GovInv, GovTypes, Gov!Ids
<1>10. IsFiniteSet(DOMAIN g_votes[i]) /\ IsFiniteSet(DOMAIN ballot)
  BY <1>1, <1>7, FS_AddElement DEF GovInv, GovTypes
<1>11. GovTypes'
  BY <1>1, <1>9, <1>10 DEF GovInv, GovTypes
<1>12. Gov!TallyIsBallots'
  <2>1. \A b \in BOOLEAN : IsFiniteSet(Gov!Voters(i, b)) /\ w \notin Gov!Voters(i, b)
    BY <1>1, <1>10, FS_Subset DEF Gov!Voters
  <2>2. Gov!Voters(i, yes)' = Gov!Voters(i, yes) \cup {w}
        /\ Gov!Voters(i, ~yes)' = Gov!Voters(i, ~yes)
    BY <1>8, <1>9 DEF Gov!Voters
  <2>3. \A j \in Gov!Ids \ {i} : Gov!Voters(j, TRUE)' = Gov!Voters(j, TRUE)
                              /\ Gov!Voters(j, FALSE)' = Gov!Voters(j, FALSE)
    BY <1>9 DEF Gov!Voters
  <2>4. Gov!Cardinality(Gov!Voters(i, yes) \cup {w}) = Gov!Cardinality(Gov!Voters(i, yes)) + 1
    BY <2>1, GovCount
  <2>5. g_proposals[i].yes \in Nat /\ g_proposals[i].no \in Nat
    BY <1>3 DEF Proposals
  <2>6. /\ g_proposals[i].yes = Gov!Cardinality(Gov!Voters(i, TRUE))
        /\ g_proposals[i].no = Gov!Cardinality(Gov!Voters(i, FALSE))
    BY DEF GovInv, Gov!TallyIsBallots
  <2>7. p.yes = Gov!Cardinality(Gov!Voters(i, TRUE)') /\ p.no = Gov!Cardinality(Gov!Voters(i, FALSE)')
    <3>1. CASE yes = TRUE
      <4>1. p.yes = g_proposals[i].yes + 1 /\ p.no = g_proposals[i].no
        BY <1>5, <2>5, <3>1
      <4>. QED BY <2>2, <2>4, <2>6, <3>1, <4>1
    <3>2. CASE yes = FALSE
      <4>1. p.no = g_proposals[i].no + 1 /\ p.yes = g_proposals[i].yes
        BY <1>5, <2>5, <3>2
      <4>. QED BY <2>2, <2>4, <2>6, <3>2, <4>1
    <3>. QED BY <3>1, <3>2
  <2>. QED BY <1>9, <2>3, <2>7 DEF GovInv, Gov!TallyIsBallots
<1>13. ApprovedPassed'
  BY <1>1, <1>5, <1>9 DEF GovInv, ApprovedPassed, Passed, Gov!MeetsPassCriteria
<1>14. /\ \A j \in Gov!Ids : g_proposals'[j].ends = g_proposals[j].ends
                          /\ g_proposals'[j].value = g_proposals[j].value
       /\ \A j \in Gov!Ids : g_proposals[j].status = "Activated" => g_proposals'[j] = g_proposals[j]
  BY <1>1, <1>5, <1>9
<1>15. DoneEnded' /\ Gov!OnceEach'
  BY <1>1, <1>9, <1>14 DEF GovInv, GovTypes, Done, DoneEnded, Gov!OnceEach, Passed, Gov!MeetsPassCriteria
<1>16. FlagIsLast'
  <2>1. g_order # <<>> => Len(g_order) \in DOMAIN g_order
    BY DEF GovInv, GovTypes
  <2>. QED BY <1>1, <1>14, <2>1 DEF GovInv, GovTypes, FlagIsLast
<1>. QED BY <1>11, <1>12, <1>13, <1>15, <1>16 DEF GovInv

LEMMA BlockStep ==
  ASSUME GovInv, Gov!NewBlock
  PROVE  GovInv'
<1>1. /\ g_height < GovHeight /\ g_height' = g_height + 1 /\ g_ticking' = [i \in Gov!Ids |-> i]
      /\ UNCHANGED <<g_proposals, g_votes, g_flag, g_order, g_unsaved, g_faults>>
  BY DEF Gov!NewBlock
<1>2. Gov!Ids' = Gov!Ids
  BY <1>1 DEF Gov!Ids
<1>3. g_ticking' \in Seq(Nat) /\ \A k \in DOMAIN g_ticking' : g_ticking'[k] \in Gov!Ids
  BY <1>1, GovIds
<1>4. GovHeight \in Nat /\ g_height \in Nat /\ g_height' \in 0 .. GovHeight
  BY <1>1, GovConstants DEF GovInv, GovTypes
<1>5. \A j \in Gov!Ids : g_proposals[j].ends \in Nat
                         /\ (g_height >= g_proposals[j].ends => g_height' >= g_proposals[j].ends)
  <2> SUFFICES ASSUME NEW j \in Gov!Ids
               PROVE  g_proposals[j].ends \in Nat
                      /\ (g_height >= g_proposals[j].ends => g_height' >= g_proposals[j].ends)
    OBVIOUS
  <2>1. PICK e \in Nat : e = g_proposals[j].ends
    BY GovIds DEF Proposals
  <2>2. g_height >= e => g_height + 1 >= e
    BY <1>4
  <2>. QED BY <1>1, <2>1, <2>2
<1>6. GovTypes'
  BY <1>1, <1>2, <1>3, <1>4 DEF GovInv, GovTypes
<1>7. Gov!TallyIsBallots' /\ FlagIsLast' /\ Gov!OnceEach'
  BY <1>1, <1>2 DEF GovInv, Gov!TallyIsBallots, Gov!Voters, FlagIsLast, Gov!OnceEach
<1>8. \A j \in Gov!Ids : Passed(j) => Passed(j)'
  BY <1>1, <1>5 DEF Passed, Gov!MeetsPassCriteria
<1>9. ApprovedPassed'
  BY <1>1, <1>2, <1>8 DEF GovInv, ApprovedPassed
<1>10. DoneEnded'
  BY <1>1, <1>2, <1>5, <1>8 DEF GovInv, Done, DoneEnded
<1>. QED BY <1>6, <1>7, <1>9, <1>10 DEF GovInv

-----------------------------------------------------------------------------
\* Where a tick takes a proposal: to approval only if its vote is over and passed.
LEMMA MovedIs ==
  ASSUME GovInv, NEW i \in Gov!Ids
  PROVE  /\ Gov!Moved(g_proposals[i]) \in Gov!Status
         /\ g_proposals[i].status = "Activated" => Gov!Moved(g_proposals[i]) = "Activated"
         /\ Gov!Moved(g_proposals[i]) = "Approved" => Passed(i)
<1>1. g_proposals[i].status \in Gov!Status
  BY GovIds DEF Proposals
<1>. QED BY <1>1 DEF Gov!Moved, Gov!Status, Passed, GovInv, ApprovedPassed

\* A proposal whose status alone changes.
LEMMA KeepStep ==
  ASSUME GovInv, NEW i \in Gov!Ids, NEW s \in Gov!Status, Gov!Keep(i, s),
         UNCHANGED <<g_votes, g_height>>
  PROVE  /\ g_proposals' \in Seq(Proposals) /\ Len(g_proposals') = Len(g_proposals)
         /\ Gov!Ids' = Gov!Ids /\ Gov!TallyIsBallots'
         /\ \A j \in Gov!Ids : /\ g_proposals'[j].ends = g_proposals[j].ends
                               /\ g_proposals'[j].value = g_proposals[j].value
                               /\ g_proposals'[j].status = IF j = i THEN s ELSE g_proposals[j].status
                               /\ Passed(j)' = Passed(j)
<1> DEFINE p == [g_proposals[i] EXCEPT !.status = s]
<1>1. g_proposals' = [g_proposals EXCEPT ![i].status = s]
  BY DEF Gov!Keep
<1>2. g_proposals[i] \in Proposals
  BY GovIds
<1>3. p \in Proposals /\ p.status = s /\ p.ends = g_proposals[i].ends
      /\ p.value = g_proposals[i].value /\ p.yes = g_proposals[i].yes /\ p.no = g_proposals[i].no
  BY <1>2 DEF Proposals
<1>4. g_proposals' = [g_proposals EXCEPT ![i] = p]
  BY <1>1
<1> HIDE DEF p
<1>5. g_proposals' \in Seq(Proposals) /\ Len(g_proposals') = Len(g_proposals) /\ Gov!Ids' = Gov!Ids
      /\ g_proposals'[i] = p /\ \A j \in Gov!Ids \ {i} : g_proposals'[j] = g_proposals[j]
  BY <1>3, <1>4, GovIds DEF GovInv, GovTypes, Gov!Ids
<1>6. \A j \in Gov!Ids : /\ g_proposals'[j].ends = g_proposals[j].ends
                         /\ g_proposals'[j].value = g_proposals[j].value
                         /\ g_proposals'[j].status = (IF j = i THEN s ELSE g_proposals[j].status)
                         /\ g_proposals'[j].yes = g_proposals[j].yes
                         /\ g_proposals'[j].no = g_proposals[j].no
  BY <1>3, <1>5
<1>7. Gov!TallyIsBallots'
  <2>1. \A j \in Gov!Ids, b \in BOOLEAN : Gov!Voters(j, b)' = Gov!Voters(j, b)
    BY DEF Gov!Voters
  <2>. QED BY <1>5, <1>6, <2>1 DEF GovInv, Gov!TallyIsBallots
<1>8. \A j \in Gov!Ids : Passed(j)' = Passed(j)
  BY <1>6 DEF Passed, Gov!MeetsPassCriteria
<1>. QED BY <1>5, <1>6, <1>7, <1>8

\* The rest of a tick: the proposals still to see.
LEMMA SkipStep ==
  ASSUME GovInv, g_ticking # <<>>
  PROVE  /\ Head(g_ticking) \in Gov!Ids
         /\ Tail(g_ticking) \in Seq(Nat)
         /\ \A k \in DOMAIN Tail(g_ticking) : Tail(g_ticking)[k] \in Gov!Ids
<1>1. g_ticking \in Seq(Nat) /\ \A k \in DOMAIN g_ticking : g_ticking[k] \in Gov!Ids
  BY DEF GovInv, GovTypes
<1>2. Head(g_ticking) = g_ticking[1] /\ 1 \in DOMAIN g_ticking
  BY <1>1
<1>3. Tail(g_ticking) \in Seq(Nat) /\ \A k \in DOMAIN Tail(g_ticking) :
          Tail(g_ticking)[k] = g_ticking[k + 1] /\ k + 1 \in DOMAIN g_ticking
  BY <1>1
<1>. QED BY <1>1, <1>2, <1>3

\* One more is carried out.
LEMMA OrderMore ==
  ASSUME GovInv, NEW i \in Gov!Ids
  PROVE  /\ Append(g_order, i) \in Seq(Nat) /\ Append(g_order, i) # <<>>
         /\ Append(g_order, i)[Len(Append(g_order, i))] = i
         /\ DOMAIN Append(g_order, i) = DOMAIN g_order \cup {Len(g_order) + 1}
         /\ Append(g_order, i)[Len(g_order) + 1] = i
         /\ \A k \in DOMAIN g_order : Append(g_order, i)[k] = g_order[k] /\ g_order[k] \in Gov!Ids
<1>1. g_order \in Seq(Nat) /\ i \in Nat /\ \A k \in DOMAIN g_order : g_order[k] \in Gov!Ids
  BY GovIds DEF GovInv, GovTypes
<1>. QED BY <1>1

LEMMA OtherStep ==
  ASSUME GovInv, NEW i \in Gov!Ids, g_ticking # <<>>, Gov!TickOther(i) \/ Gov!EffectFails(i)
  PROVE  GovInv'
<1>1. PICK s \in Gov!Status :
        /\ Gov!Keep(i, s) /\ (g_proposals[i].status = "Activated" => s = "Activated")
        /\ (s = "Approved" => Passed(i))
  BY MovedIs DEF Gov!TickOther, Gov!EffectFails, Gov!Status
<1>2. g_ticking' = Tail(g_ticking) /\ UNCHANGED <<g_votes, g_flag, g_height, g_order, g_unsaved>>
  BY DEF Gov!TickOther, Gov!EffectFails, Gov!Skip
<1>3. g_faults' \in 0 .. MaxFaults
  <2>1. g_faults \in 0 .. MaxFaults /\ MaxFaults \in Nat
    BY GovConstants DEF GovInv, GovTypes
  <2>2. g_faults' = g_faults \/ (g_faults < MaxFaults /\ g_faults' = g_faults + 1)
    BY DEF Gov!TickOther, Gov!EffectFails, Gov!Fault
  <2>. QED BY <2>1, <2>2
<1>4. /\ g_proposals' \in Seq(Proposals) /\ Len(g_proposals') = Len(g_proposals)
      /\ Gov!Ids' = Gov!Ids /\ Gov!TallyIsBallots'
      /\ \A j \in Gov!Ids : /\ g_proposals'[j].ends = g_proposals[j].ends
                            /\ g_proposals'[j].value = g_proposals[j].value
                            /\ g_proposals'[j].status = IF j = i THEN s ELSE g_proposals[j].status
                            /\ Passed(j)' = Passed(j)
  BY <1>1, <1>2, KeepStep
<1>5. GovTypes'
  BY <1>2, <1>3, <1>4, SkipStep DEF GovInv, GovTypes
<1>6. ApprovedPassed'
  BY <1>1, <1>4 DEF GovInv, ApprovedPassed
<1>7. DoneEnded' /\ Gov!OnceEach'
  BY <1>1, <1>2, <1>4 DEF GovInv, Done, DoneEnded, Gov!OnceEach
<1>8. FlagIsLast'
  <2>1. g_order # <<>> => Len(g_order) \in DOMAIN g_order
    BY DEF GovInv, GovTypes
  <2>. QED BY <1>2, <1>4, <2>1 DEF GovInv, GovTypes, FlagIsLast
<1>. QED BY <1>4, <1>5, <1>6, <1>7, <1>8 DEF GovInv

LEMMA ActivateStep ==
  ASSUME GovInv, NEW i \in Gov!Ids, g_ticking # <<>>, Gov!Activate(i)
  PROVE  GovInv'
<1>1. /\ Gov!Keep(i, "Activated") /\ "Activated" \in Gov!Status /\ g_order' = Append(g_order, i)
      /\ g_flag' = g_proposals[i].value /\ g_ticking' = Tail(g_ticking)
      /\ UNCHANGED <<g_votes, g_height, g_unsaved, g_faults>>
  BY DEF Gov!Activate, Gov!Skip, Gov!Status
<1>2. Passed(i) /\ g_proposals[i].status # "Activated"
  BY MovedIs DEF Gov!Activate
<1>3. /\ g_proposals' \in Seq(Proposals) /\ Len(g_proposals') = Len(g_proposals)
      /\ Gov!Ids' = Gov!Ids /\ Gov!TallyIsBallots'
      /\ \A j \in Gov!Ids : /\ g_proposals'[j].ends = g_proposals[j].ends
                            /\ g_proposals'[j].value = g_proposals[j].value
                            /\ g_proposals'[j].status = IF j = i THEN "Activated" ELSE g_proposals[j].status
                            /\ Passed(j)' = Passed(j)
  BY <1>1, KeepStep
<1>4. /\ g_order' \in Seq(Nat) /\ g_order' # <<>> /\ g_order'[Len(g_order')] = i
      /\ DOMAIN g_order' = DOMAIN g_order \cup {Len(g_order) + 1} /\ g_order'[Len(g_order) + 1] = i
      /\ \A k \in DOMAIN g_order : g_order'[k] = g_order[k] /\ g_order[k] \in Gov!Ids
  BY <1>1, OrderMore
<1>5. GovTypes'
  <2>1. g_proposals[i].value \in Value
    BY GovIds DEF Proposals
  <2>. QED BY <1>1, <1>3, <1>4, <2>1, SkipStep DEF GovInv, GovTypes
<1>6. ApprovedPassed'
  BY <1>3 DEF GovInv, ApprovedPassed
<1>7. DoneEnded'
  <2>1. \A j \in Gov!Ids : Done(j)' => Done(j) \/ j = i
    BY <1>4 DEF Done
  <2>2. g_height' >= g_proposals'[i].ends /\ Passed(i)' /\ g_proposals'[i].status = "Activated"
    BY <1>1, <1>2, <1>3 DEF Passed
  <2>3. \A j \in Gov!Ids : Done(j) => g_height' >= g_proposals'[j].ends
          /\ (~g_unsaved => g_proposals'[j].status = "Activated" /\ Passed(j)')
    BY <1>1, <1>3 DEF GovInv, DoneEnded
  <2>. QED BY <1>1, <1>3, <2>1, <2>2, <2>3 DEF DoneEnded
<1>8. FlagIsLast'
  BY <1>1, <1>3, <1>4 DEF FlagIsLast
<1>9. Gov!OnceEach'
  <2>1. ~g_unsaved => \A k \in DOMAIN g_order : g_order[k] # i
    BY <1>2 DEF GovInv, Done, DoneEnded
  <2>. QED BY <1>1, <1>4, <2>1 DEF GovInv, Gov!OnceEach
<1>. QED BY <1>3, <1>5, <1>6, <1>7, <1>8, <1>9 DEF GovInv

LEMMA LostStep ==
  ASSUME GovInv, NEW i \in Gov!Ids, Gov!StatusFails(i)
  PROVE  GovInv'
<1>1. /\ g_ticking' = <<>> /\ g_unsaved' = TRUE /\ UNCHANGED <<g_proposals, g_votes, g_height>>
      /\ \/ UNCHANGED <<g_flag, g_order>>
         \/ g_flag' = g_proposals[i].value /\ g_order' = Append(g_order, i) /\ Passed(i)
  BY MovedIs DEF Gov!StatusFails
<1>2. g_faults' \in 0 .. MaxFaults
  BY GovConstants DEF Gov!StatusFails, Gov!Fault, GovInv, GovTypes
<1>3. Gov!Ids' = Gov!Ids /\ g_proposals[i].value \in Value
  BY <1>1, GovIds DEF Gov!Ids, Proposals
<1>4. Gov!TallyIsBallots' /\ ApprovedPassed' /\ Gov!OnceEach'
  BY <1>1, <1>3 DEF GovInv, Gov!TallyIsBallots, Gov!Voters, ApprovedPassed, Passed,
                   Gov!MeetsPassCriteria, Gov!OnceEach
<1>5. CASE UNCHANGED <<g_flag, g_order>>
  BY <1>1, <1>2, <1>3, <1>4, <1>5 DEF GovInv, GovTypes, Done, DoneEnded, FlagIsLast
<1>6. CASE g_flag' = g_proposals[i].value /\ g_order' = Append(g_order, i) /\ Passed(i)
  <2>1. /\ g_order' \in Seq(Nat) /\ g_order' # <<>> /\ g_order'[Len(g_order')] = i
        /\ DOMAIN g_order' = DOMAIN g_order \cup {Len(g_order) + 1} /\ g_order'[Len(g_order) + 1] = i
        /\ \A k \in DOMAIN g_order : g_order'[k] = g_order[k] /\ g_order[k] \in Gov!Ids
    BY <1>6, OrderMore
  <2>2. GovTypes'
    BY <1>1, <1>2, <1>3, <1>6, <2>1 DEF GovInv, GovTypes
  <2>3. DoneEnded' /\ FlagIsLast'
    BY <1>1, <1>3, <1>6, <2>1 DEF GovInv, Done, DoneEnded, FlagIsLast, Passed
  <2>. QED BY <1>4, <2>2, <2>3 DEF GovInv
<1>. QED BY <1>1, <1>5, <1>6

LEMMA GovStep == ASSUME GovInv, [Gov!Next]_govVars PROVE GovInv'
<1>1. CASE UNCHANGED govVars
  <2>1. GovTypes' /\ Gov!TallyIsBallots'
    BY <1>1 DEF govVars, GovInv, GovTypes, Gov!Ids, Gov!TallyIsBallots, Gov!Voters
  <2>2. Gov!Ids' = Gov!Ids /\ \A j : Passed(j)' = Passed(j) /\ Done(j)' = Done(j)
    BY <1>1 DEF govVars, Gov!Ids, Passed, Gov!MeetsPassCriteria, Done
  <2>3. ApprovedPassed' /\ DoneEnded' /\ FlagIsLast' /\ Gov!OnceEach'
    BY <1>1, <2>2 DEF govVars, GovInv, ApprovedPassed, DoneEnded, FlagIsLast, Gov!OnceEach
  <2>. QED BY <2>1, <2>3 DEF GovInv
<1>2. CASE Gov!NewBlock
  BY <1>2, BlockStep
<1>3. CASE Gov!Tick
  <2>1. g_ticking # <<>> /\ Head(g_ticking) \in Gov!Ids
    BY <1>3, SkipStep DEF Gov!Tick
  <2>2. PICK i \in Gov!Ids : Gov!TickOther(i) \/ Gov!Activate(i) \/ Gov!EffectFails(i) \/ Gov!StatusFails(i)
    BY <1>3, <2>1 DEF Gov!Tick
  <2>. QED BY <2>1, <2>2, OtherStep, ActivateStep, LostStep
<1>4. ASSUME NEW w \in Voter, NEW v \in Value, Gov!Submit(w, v) PROVE GovInv'
  BY <1>4, SubmitStep
<1>5. ASSUME NEW w \in Voter, NEW i \in Gov!Ids, NEW yes \in BOOLEAN, Gov!Vote(w, i, yes) PROVE GovInv'
  BY <1>5, VoteStep
<1>. QED BY <1>1, <1>2, <1>3, <1>4, <1>5 DEF Gov!Next

\* Whatever the order of proposals, votes, blocks and failed writes, the tally of a
\* proposal is that of its ballots, what is carried out had ended and passed, and it is
\* carried out once unless its status was lost (governance.rs, tick_proposals).
THEOREM ProposalsKept == PartsSpec => []ProposalsRight
<1>1. PartsInit => GovInv
  BY GovInit DEF PartsInit
<1>2. GovInv /\ [PartsNext]_allVars => GovInv'
  BY PartsSteps, GovStep
<1>3. GovInv => ProposalsRight
  <2> SUFFICES ASSUME GovInv PROVE ProposalsRight
    OBVIOUS
  <2>1. Gov!TypeOK
    <3>1. \A i \in Gov!Ids : g_votes[i] \in [DOMAIN g_votes[i] -> BOOLEAN]
      BY GovIds DEF Ballots
    <3>. QED BY <3>1, GovIds DEF GovInv, GovTypes, Gov!TypeOK, Proposals
  <2>2. Gov!FlagBacked
    <3>1. g_order # <<>> => Len(g_order) \in DOMAIN g_order
      BY DEF GovInv, GovTypes
    <3>2. g_order # <<>> => g_order[Len(g_order)] \in Gov!Ids /\ Done(g_order[Len(g_order)])
      BY <3>1 DEF GovInv, GovTypes, Done
    <3>. QED BY <3>2 DEF GovInv, DoneEnded, FlagIsLast, Passed, Gov!FlagBacked
  <2>. QED BY <2>1, <2>2 DEF GovInv, ProposalsRight
<1>. QED BY <1>1, <1>2, <1>3, PTL DEF PartsSpec

-----------------------------------------------------------------------------
(* Staking.  A blob is judged by itself, whoever wrote it: its shares have owners, and
   the stake behind a share is one unit until its validator is slashed, after which
   nothing can be staked there.  What delegators hold and have taken out is judged
   against what they have put in. *)

LEMMA StakesSum ==
  ASSUME NEW F, NEW S
  PROVE  /\ Stakes!SumFunctionOnSet(F, S) = SumFunctionOnSet(F, S)
         /\ Stakes!SumFunction(F) = SumFunctionOnSet(F, DOMAIN F)
  BY DEF Stakes!SumFunction, Stakes!SumFunctionOnSet, Stakes!FoldFunctionOnSet, Stakes!MapThenFoldSet,
         SumFunctionOnSet, FoldFunctionOnSet, MapThenFoldSet

Unbonding == [to : Delegator, validator : Validator, amount : Nat, matures : Nat]

Blob == [stake : [Validator -> Nat], shares : [Validator -> Nat],
         operator : [Validator -> Seq(Delegator)], jailed : SUBSET Validator,
         held : [Delegator \X Validator -> Nat], queue : Seq(Unbonding),
         epoch : Nat, slashed : Nat, locked : [Delegator -> Nat]]

HeldOf(s, v) == SumFunctionOnSet([d \in Delegator |-> s.held[<<d, v>>]], Delegator)
HeldBy(s, d) == SumFunctionOnSet([v \in Validator |-> s.held[<<d, v>>]], Validator)

BlobOK(s) ==
    /\ s \in Blob
    /\ \A v \in Validator :
         /\ s.shares[v] = HeldOf(s, v) /\ s.stake[v] <= s.shares[v]
         /\ v \notin s.jailed => s.stake[v] = s.shares[v]
         /\ s.operator[v] = <<>> => s.shares[v] = 0

\* o is what each delegator has outside the validators: paid, locked, in the queue.
Books(s, o, dep, m) ==
    /\ \A d \in Delegator : HeldBy(s, d) + o[d] <= dep[d] + m
    /\ SumFunctionOnSet(o, Delegator) + s.slashed + SumFunctionOnSet(s.stake, Validator)
         <= SumFunctionOnSet(dep, Delegator) + m

LEMMA StakesConstants ==
    /\ IsFiniteSet(Delegator) /\ IsFiniteSet(Validator) /\ Founder \in Delegator
    /\ StakeAmounts \subseteq Nat /\ UnbondingEpochs \in Nat /\ Reward \in Nat /\ StakeSteps \in Nat
    /\ BpsDen \in Nat /\ BpsDen > 0 /\ SlashBps \in 0 .. BpsDen /\ CommissionBps \in 0 .. BpsDen
  BY StakesAssumption

\* Shares are worth at most their number, and to the last unit when the validator's are.
LEMMA FloorShare ==
  ASSUME NEW n \in Nat, NEW t \in Nat, NEW s \in Nat, NEW a, a = (n * t) \div s,
         n > 0, n <= s, t <= s
  PROVE  a \in Nat /\ a <= n /\ a <= t /\ t - a <= s - n /\ (t = s => a = n)
<1>1. PICK p \in Nat : p = n * t
  OBVIOUS
<1>2. a \in Nat /\ s * a <= p /\ p < s * a + s
  BY <1>1
<1>3. \A x, y \in Nat : s * x < s * y => x < y
  <2> SUFFICES ASSUME NEW x \in Nat, NEW y \in Nat, s * x < s * y, y <= x PROVE FALSE
    OBVIOUS
  <2>1. s * y <= s * x
    OBVIOUS
  <2>. QED BY <2>1
<1>4. a <= n
  <2>1. p <= s * n
    BY <1>1
  <2>2. s * a < s * (n + 1)
    BY <1>2, <2>1
  <2>. QED BY <1>2, <1>3, <2>2
<1>5. a <= t
  <2>1. p <= s * t
    BY <1>1
  <2>2. s * a < s * (t + 1)
    BY <1>2, <2>1
  <2>. QED BY <1>2, <1>3, <2>2
<1>6. t - a <= s - n
  <2>1. PICK k \in Nat : s = n + k
    OBVIOUS
  <2>2. s * t = n * t + k * t /\ k * t <= s * k
    BY <2>1
  <2>3. s * t <= p + s * k
    BY <1>1, <2>2
  <2>4. s * t < s * (a + k + 1)
    BY <1>2, <2>3
  <2>5. t < a + k + 1
    BY <1>2, <1>3, <2>4
  <2>. QED BY <1>2, <2>1, <2>5
<1>7. ASSUME t = s PROVE a = n
  BY <1>2, <1>4, <1>6, <1>7
<1>. QED BY <1>2, <1>4, <1>5, <1>6, <1>7

LEMMA HeldNat2 ==
  ASSUME NEW s \in Blob
  PROVE  /\ \A v \in Validator : HeldOf(s, v) \in Nat
         /\ \A d \in Delegator : HeldBy(s, d) \in Nat
         /\ \A v \in Validator, d \in Delegator :
                s.held[<<d, v>>] <= HeldOf(s, v) /\ s.held[<<d, v>>] \in Nat
<1>1. \A d \in Delegator, v \in Validator : s.held[<<d, v>>] \in Nat
  BY DEF Blob
<1>2. ASSUME NEW v \in Validator
      PROVE  HeldOf(s, v) \in Nat /\ \A d \in Delegator : s.held[<<d, v>>] <= HeldOf(s, v)
  <2> DEFINE F == [d \in Delegator |-> s.held[<<d, v>>]]
  <2>1. \A d \in Delegator : F[d] \in Nat /\ F[d] = s.held[<<d, v>>]
    BY <1>1
  <2> HIDE DEF F
  <2>2. SumFunctionOnSet(F, Delegator) \in Nat /\ \A d \in Delegator : F[d] <= SumFunctionOnSet(F, Delegator)
    BY <2>1, SumNat, SumMember, StakesConstants
  <2>. QED BY <2>1, <2>2 DEF HeldOf, F
<1>3. ASSUME NEW d \in Delegator PROVE HeldBy(s, d) \in Nat
  <2> DEFINE F == [v \in Validator |-> s.held[<<d, v>>]]
  <2>1. \A v \in Validator : F[v] \in Nat
    BY <1>1
  <2> HIDE DEF F
  <2>2. SumFunctionOnSet(F, Validator) \in Nat
    BY <2>1, SumNat, StakesConstants
  <2>. QED BY <2>2 DEF HeldBy, F
<1>. QED BY <1>1, <1>2, <1>3

\* One holding changes: so do the two sums that it is in.
LEMMA HoldingChange ==
  ASSUME NEW s \in Blob, NEW t \in Blob, NEW d \in Delegator, NEW v \in Validator,
         \A x \in (Delegator \X Validator) \ {<<d, v>>} : t.held[x] = s.held[x]
  PROVE  /\ HeldOf(t, v) + s.held[<<d, v>>] = HeldOf(s, v) + t.held[<<d, v>>]
         /\ \A w \in Validator \ {v} : HeldOf(t, w) = HeldOf(s, w)
         /\ HeldBy(t, d) + s.held[<<d, v>>] = HeldBy(s, d) + t.held[<<d, v>>]
         /\ \A e \in Delegator \ {d} : HeldBy(t, e) = HeldBy(s, e)
<1>1. /\ \A e \in Delegator, w \in Validator : s.held[<<e, w>>] \in Nat /\ t.held[<<e, w>>] \in Nat
      /\ \A e \in Delegator, w \in Validator : e # d \/ w # v => t.held[<<e, w>>] = s.held[<<e, w>>]
  BY DEF Blob
<1>6. IsFiniteSet(Delegator) /\ IsFiniteSet(Validator)
  BY StakesConstants
<1>2. HeldOf(t, v) + s.held[<<d, v>>] = HeldOf(s, v) + t.held[<<d, v>>]
  <2> DEFINE F == [e \in Delegator |-> s.held[<<e, v>>]]
             G == [e \in Delegator |-> t.held[<<e, v>>]]
  <2>1. /\ \A e \in Delegator : F[e] \in Nat /\ G[e] \in Nat /\ F[e] = s.held[<<e, v>>] /\ G[e] = t.held[<<e, v>>]
        /\ \A e \in Delegator \ {d} : G[e] = F[e]
    BY <1>1
  <2> HIDE DEF F, G
  <2>2. SumFunctionOnSet(G, Delegator) + F[d] = SumFunctionOnSet(F, Delegator) + G[d]
    <3>1. \A e \in Delegator : F[e] \in Nat /\ G[e] \in Nat
      BY <2>1
    <3>2. \A e \in Delegator \ {d} : G[e] = F[e]
      BY <2>1
    <3>. QED BY <1>6, <3>1, <3>2, SumChange
  <2>. QED BY <2>1, <2>2 DEF F, G, HeldOf
<1>3. ASSUME NEW w \in Validator \ {v} PROVE HeldOf(t, w) = HeldOf(s, w)
  <2> DEFINE F == [e \in Delegator |-> s.held[<<e, w>>]]
             G == [e \in Delegator |-> t.held[<<e, w>>]]
  <2>1. \A e \in Delegator : F[e] = G[e]
    BY <1>1
  <2> HIDE DEF F, G
  <2>2. SumFunctionOnSet(F, Delegator) = SumFunctionOnSet(G, Delegator)
    BY <1>6, <2>1, SumSame
  <2>. QED BY <2>2 DEF F, G, HeldOf
<1>4. HeldBy(t, d) + s.held[<<d, v>>] = HeldBy(s, d) + t.held[<<d, v>>]
  <2> DEFINE F == [w \in Validator |-> s.held[<<d, w>>]]
             G == [w \in Validator |-> t.held[<<d, w>>]]
  <2>1. /\ \A w \in Validator : F[w] \in Nat /\ G[w] \in Nat /\ F[w] = s.held[<<d, w>>] /\ G[w] = t.held[<<d, w>>]
        /\ \A w \in Validator \ {v} : G[w] = F[w]
    BY <1>1
  <2> HIDE DEF F, G
  <2>2. SumFunctionOnSet(G, Validator) + F[v] = SumFunctionOnSet(F, Validator) + G[v]
    <3>1. \A w \in Validator : F[w] \in Nat /\ G[w] \in Nat
      BY <2>1
    <3>2. \A w \in Validator \ {v} : G[w] = F[w]
      BY <2>1
    <3>. QED BY <1>6, <3>1, <3>2, SumChange
  <2>. QED BY <2>1, <2>2 DEF F, G, HeldBy
<1>5. ASSUME NEW e \in Delegator \ {d} PROVE HeldBy(t, e) = HeldBy(s, e)
  <2> DEFINE F == [w \in Validator |-> s.held[<<e, w>>]]
             G == [w \in Validator |-> t.held[<<e, w>>]]
  <2>1. \A w \in Validator : F[w] = G[w]
    BY <1>1
  <2> HIDE DEF F, G
  <2>2. SumFunctionOnSet(F, Validator) = SumFunctionOnSet(G, Validator)
    BY <1>6, <2>1, SumSame
  <2>. QED BY <2>2 DEF F, G, HeldBy
<1>. QED BY <1>2, <1>3, <1>4, <1>5

Outside == [Delegator -> Nat]
Plus(o, d, n)  == [o EXCEPT ![d] = @ + n]
Minus(o, d, n) == [o EXCEPT ![d] = @ - n]

LEMMA StakeNat ==
  ASSUME NEW s \in Blob, NEW o \in Outside
  PROVE  SumFunctionOnSet(o, Delegator) \in Nat /\ SumFunctionOnSet(s.stake, Validator) \in Nat
         /\ s.slashed \in Nat
<1>1. IsFiniteSet(Delegator) /\ IsFiniteSet(Validator)
  BY StakesConstants
<1>2. (\A d \in Delegator : o[d] \in Nat) /\ (\A v \in Validator : s.stake[v] \in Nat) /\ s.slashed \in Nat
  BY DEF Outside, Blob
<1>. QED BY <1>1, <1>2, SumNat

\* One value changes.
LEMMA OneChange ==
  ASSUME NEW S, IsFiniteSet(S), NEW f \in [S -> Nat], NEW g \in [S -> Nat], NEW x \in S,
         \A y \in S \ {x} : g[y] = f[y]
  PROVE  SumFunctionOnSet(g, S) + f[x] = SumFunctionOnSet(f, S) + g[x]
<1>1. \A y \in S : f[y] \in Nat /\ g[y] \in Nat
  OBVIOUS
<1>. QED BY <1>1, SumChange

\* A delegator moves value between a validator and itself, and none appears.
LEMMA BooksChange ==
  ASSUME NEW s \in Blob, NEW t \in Blob, NEW o \in Outside, NEW q \in Outside, NEW dep \in Outside,
         NEW m \in Nat, Books(s, o, dep, m), NEW d \in Delegator, NEW v \in Validator,
         \A x \in (Delegator \X Validator) \ {<<d, v>>} : t.held[x] = s.held[x],
         \A w \in Validator \ {v} : t.stake[w] = s.stake[w],
         \A e \in Delegator \ {d} : q[e] = o[e],
         t.slashed = s.slashed,
         t.held[<<d, v>>] + q[d] <= s.held[<<d, v>>] + o[d],
         t.stake[v] + q[d] <= s.stake[v] + o[d]
  PROVE  Books(t, q, dep, m)
<1>1. /\ \A w \in Validator, e \in Delegator : s.held[<<e, w>>] \in Nat /\ t.held[<<e, w>>] \in Nat
      /\ \A e \in Delegator : HeldBy(s, e) \in Nat /\ HeldBy(t, e) \in Nat
      /\ \A e \in Delegator : o[e] \in Nat /\ q[e] \in Nat /\ dep[e] \in Nat
      /\ s.stake[v] \in Nat /\ t.stake[v] \in Nat
  BY HeldNat2 DEF Outside, Blob
<1>2. ASSUME NEW e \in Delegator PROVE HeldBy(t, e) + q[e] <= dep[e] + m
  <2>1. HeldBy(s, e) + o[e] <= dep[e] + m
    BY DEF Books
  <2>2. CASE e = d
    <3>1. HeldBy(t, d) + s.held[<<d, v>>] = HeldBy(s, d) + t.held[<<d, v>>]
      BY HoldingChange
    <3>2. PICK hs \in Nat, ht \in Nat, a \in Nat, b \in Nat, i \in Nat, j \in Nat :
              /\ hs = HeldBy(s, d) /\ ht = HeldBy(t, d) /\ a = s.held[<<d, v>>] /\ b = t.held[<<d, v>>]
              /\ i = o[d] /\ j = q[d]
      BY <1>1
    <3>3. ht + a = hs + b /\ b + j <= a + i
      BY <3>1, <3>2
    <3>4. ht + j <= hs + i
      BY <3>3
    <3>5. PICK l \in Nat : l = dep[e] + m
      BY <1>1
    <3>. QED BY <2>1, <2>2, <3>2, <3>4, <3>5
  <2>3. CASE e # d
    <3>1. HeldBy(t, e) = HeldBy(s, e)
      BY <2>3, HoldingChange
    <3>. QED BY <2>1, <2>3, <3>1
  <2>. QED BY <2>2, <2>3
<1>3. SumFunctionOnSet(q, Delegator) + t.slashed + SumFunctionOnSet(t.stake, Validator)
         <= SumFunctionOnSet(dep, Delegator) + m
  <2>1. SumFunctionOnSet(q, Delegator) + o[d] = SumFunctionOnSet(o, Delegator) + q[d]
    <3>1. IsFiniteSet(Delegator) /\ o \in [Delegator -> Nat] /\ q \in [Delegator -> Nat]
      BY StakesConstants DEF Outside
    <3>. QED BY <3>1, OneChange
  <2>2. SumFunctionOnSet(t.stake, Validator) + s.stake[v] = SumFunctionOnSet(s.stake, Validator) + t.stake[v]
    <3>1. IsFiniteSet(Validator) /\ s.stake \in [Validator -> Nat] /\ t.stake \in [Validator -> Nat]
      BY StakesConstants DEF Blob
    <3>. QED BY <3>1, OneChange
  <2>3. SumFunctionOnSet(o, Delegator) + s.slashed + SumFunctionOnSet(s.stake, Validator)
         <= SumFunctionOnSet(dep, Delegator) + m
    BY DEF Books
  <2>4. PICK so \in Nat, sq \in Nat, sd \in Nat, ss \in Nat, st \in Nat, c \in Nat :
            /\ so = SumFunctionOnSet(o, Delegator) /\ sq = SumFunctionOnSet(q, Delegator)
            /\ sd = SumFunctionOnSet(dep, Delegator)
            /\ ss = SumFunctionOnSet(s.stake, Validator) /\ st = SumFunctionOnSet(t.stake, Validator)
            /\ c = s.slashed /\ c = t.slashed
    BY StakeNat
  <2>5. PICK a \in Nat, b \in Nat, i \in Nat, j \in Nat :
            a = s.stake[v] /\ b = t.stake[v] /\ i = o[d] /\ j = q[d]
    BY <1>1
  <2>6. sq + i = so + j /\ st + a = ss + b /\ so + c + ss <= sd + m /\ b + j <= a + i
    BY <2>1, <2>2, <2>3, <2>4, <2>5
  <2>7. sq + c + st <= sd + m
    BY <2>6
  <2>. QED BY <2>4, <2>7
<1>. QED BY <1>2, <1>3 DEF Books

\* Shares are given up for what they are worth.
LEMMA WithdrawOK ==
  ASSUME NEW s, BlobOK(s), NEW o \in Outside, NEW dep \in Outside, NEW m \in Nat, Books(s, o, dep, m),
         NEW d \in Delegator, NEW v \in Validator, NEW n \in 1 .. s.held[<<d, v>>],
         NEW a, a = Stakes!SharesToAmount(s, v, n),
         NEW t, t = Stakes!Withdraw(s, d, v, n)
  PROVE  /\ a \in Nat /\ BlobOK(t) /\ Books(t, Plus(o, d, a), dep, m)
         /\ t.queue = s.queue /\ t.locked = s.locked /\ t.jailed = s.jailed /\ t.epoch = s.epoch
         /\ t.operator = s.operator
<1>1. s \in Blob
  BY DEF BlobOK
<1>2. /\ s.shares[v] \in Nat /\ s.stake[v] \in Nat /\ s.held[<<d, v>>] \in Nat
      /\ s.stake[v] <= s.shares[v] /\ s.held[<<d, v>>] <= s.shares[v]
  BY <1>1, HeldNat2 DEF BlobOK, Blob
<1>3. n \in Nat /\ n > 0 /\ n <= s.held[<<d, v>>] /\ n <= s.shares[v] /\ s.shares[v] # 0
  BY <1>2
<1>4. a = (n * s.stake[v]) \div s.shares[v]
  BY <1>3 DEF Stakes!SharesToAmount, Stakes!MulDiv
<1>5. /\ a \in Nat /\ a <= n /\ a <= s.stake[v] /\ s.stake[v] - a <= s.shares[v] - n
      /\ (s.stake[v] = s.shares[v] => a = n)
  <2>1. PICK k \in Nat, x \in Nat, y \in Nat : k = n /\ x = s.stake[v] /\ y = s.shares[v]
    BY <1>2, <1>3
  <2>2. a = (k * x) \div y /\ k > 0 /\ k <= y /\ x <= y
    BY <1>2, <1>3, <1>4, <2>1
  <2>3. a \in Nat /\ a <= k /\ a <= x /\ x - a <= y - k /\ (x = y => a = k)
    BY <2>2, FloorShare
  <2>. QED BY <2>1, <2>3
<1>6. t = [s EXCEPT !.stake[v] = @ - a, !.shares[v] = @ - n, !.held[<<d, v>>] = @ - n]
  BY DEF Stakes!Withdraw
<1>8. s.stake[v] - a \in Nat /\ s.shares[v] - n \in Nat /\ s.held[<<d, v>>] - n \in Nat
  BY <1>2, <1>3, <1>5
<1> DEFINE f == [s.stake EXCEPT ![v] = @ - a]
           g == [s.shares EXCEPT ![v] = @ - n]
           k == [s.held EXCEPT ![<<d, v>>] = @ - n]
<1>7. /\ t \in Blob /\ t.stake = f /\ t.shares = g /\ t.held = k
      /\ t.queue = s.queue /\ t.locked = s.locked /\ t.jailed = s.jailed /\ t.epoch = s.epoch
      /\ t.operator = s.operator /\ t.slashed = s.slashed
  <2>1. f \in [Validator -> Nat] /\ g \in [Validator -> Nat] /\ k \in [Delegator \X Validator -> Nat]
    BY <1>1, <1>8 DEF Blob
  <2>2. t = [s EXCEPT !.stake = f, !.shares = g, !.held = k]
    BY <1>1, <1>6 DEF Blob
  <2> HIDE DEF f, g, k
  <2>. QED BY <1>1, <2>1, <2>2 DEF Blob
<1>9. t \in Blob
  BY <1>7
<1>10. /\ t.stake[v] = s.stake[v] - a /\ t.shares[v] = s.shares[v] - n
       /\ t.held[<<d, v>>] = s.held[<<d, v>>] - n
       /\ \A w \in Validator \ {v} : t.stake[w] = s.stake[w] /\ t.shares[w] = s.shares[w]
       /\ \A x \in (Delegator \X Validator) \ {<<d, v>>} : t.held[x] = s.held[x]
  BY <1>1, <1>7 DEF Blob
<1>11. BlobOK(t)
  <2> SUFFICES ASSUME NEW w \in Validator
               PROVE  /\ t.shares[w] = HeldOf(t, w) /\ t.stake[w] <= t.shares[w]
                      /\ w \notin t.jailed => t.stake[w] = t.shares[w]
                      /\ t.operator[w] = <<>> => t.shares[w] = 0
    BY <1>9 DEF BlobOK
  <2>0. /\ s.shares[w] = HeldOf(s, w) /\ s.stake[w] <= s.shares[w]
        /\ w \notin s.jailed => s.stake[w] = s.shares[w]
        /\ s.operator[w] = <<>> => s.shares[w] = 0
    BY DEF BlobOK
  <2>1. CASE w = v
    <3>1. HeldOf(t, v) + s.held[<<d, v>>] = HeldOf(s, v) + t.held[<<d, v>>]
      BY <1>1, <1>9, <1>10, HoldingChange
    <3>2. HeldOf(t, v) \in Nat /\ HeldOf(s, v) \in Nat
      BY <1>1, <1>9, HeldNat2
    <3>3. t.shares[v] = HeldOf(t, v)
      <4>1. s.shares[v] = HeldOf(s, v)
        BY <2>0, <2>1
      <4>2. PICK x \in Nat, h \in Nat, j \in Nat :
                x = s.held[<<d, v>>] /\ h = HeldOf(s, v) /\ j = HeldOf(t, v) /\ n <= x
        BY <1>2, <1>3, <3>2
      <4>3. j + x = h + (x - n)
        BY <1>10, <3>1, <4>2
      <4>4. j = h - n
        BY <1>3, <4>2, <4>3
      <4>. QED BY <1>10, <4>1, <4>2, <4>4
    <3>4. t.stake[v] <= t.shares[v] /\ (s.stake[v] = s.shares[v] => t.stake[v] = t.shares[v])
      BY <1>2, <1>3, <1>5, <1>10
    <3>. QED BY <1>3, <1>7, <2>0, <2>1, <3>3, <3>4
  <2>2. CASE w # v
    <3>1. HeldOf(t, w) = HeldOf(s, w)
      BY <1>1, <1>9, <1>10, <2>2, HoldingChange
    <3>. QED BY <1>7, <1>10, <2>0, <2>2, <3>1
  <2>. QED BY <2>1, <2>2
<1>12. Books(t, Plus(o, d, a), dep, m)
  <2>1. PICK q : q = Plus(o, d, a)
    OBVIOUS
  <2>2. q \in Outside /\ q[d] = o[d] + a /\ o[d] \in Nat /\ \A e \in Delegator \ {d} : q[e] = o[e]
    BY <1>5, <2>1 DEF Outside, Plus
  <2>3. t.held[<<d, v>>] + q[d] <= s.held[<<d, v>>] + o[d] /\ t.stake[v] + q[d] <= s.stake[v] + o[d]
    BY <1>2, <1>3, <1>5, <1>10, <2>2
  <2>4. Books(t, q, dep, m)
    <3>1. /\ s \in Blob /\ t \in Blob /\ q \in Outside /\ t.slashed = s.slashed
          /\ \A x \in (Delegator \X Validator) \ {<<d, v>>} : t.held[x] = s.held[x]
          /\ \A w \in Validator \ {v} : t.stake[w] = s.stake[w]
          /\ \A e \in Delegator \ {d} : q[e] = o[e]
      BY <1>1, <1>7, <1>9, <1>10, <2>2
    <3>. QED BY <2>3, <3>1, BooksChange
  <2>. QED BY <2>1, <2>4
<1>. QED BY <1>5, <1>7, <1>11, <1>12

\* What is staked with a validator that was never slashed gives as many shares.
LEMMA DepositOK ==
  ASSUME NEW s, BlobOK(s), NEW o \in Outside, NEW dep \in Outside, NEW m \in Nat, Books(s, o, dep, m),
         NEW d \in Delegator, NEW v \in Validator, NEW n \in Nat, n <= o[d],
         v \notin s.jailed \/ s.shares[v] = 0, s.operator[v] # <<>> \/ n = 0,
         NEW t, t = Stakes!Deposit(s, d, v, n)
  PROVE  /\ BlobOK(t) /\ Books(t, Minus(o, d, n), dep, m)
         /\ t.queue = s.queue /\ t.locked = s.locked /\ t.jailed = s.jailed /\ t.epoch = s.epoch
         /\ t.operator = s.operator
<1>1. s \in Blob
  BY DEF BlobOK
<1>2. /\ s.shares[v] \in Nat /\ s.stake[v] \in Nat /\ s.held[<<d, v>>] \in Nat
      /\ s.stake[v] = s.shares[v]
  BY <1>1, HeldNat2 DEF BlobOK, Blob
<1>3. Stakes!AmountToShares(s, v, n) = n
  <2>1. \A k \in Nat : k # 0 => (n * k) \div k = n
    OBVIOUS
  <2>. QED BY <1>2, <2>1 DEF Stakes!AmountToShares, Stakes!MulDiv
<1>4. t = [s EXCEPT !.stake[v] = @ + n, !.shares[v] = @ + n, !.held[<<d, v>>] = @ + n]
  BY <1>3 DEF Stakes!Deposit
<1> DEFINE f == [s.stake EXCEPT ![v] = @ + n]
           g == [s.shares EXCEPT ![v] = @ + n]
           k == [s.held EXCEPT ![<<d, v>>] = @ + n]
<1>5. /\ t \in Blob /\ t.stake = f /\ t.shares = g /\ t.held = k
      /\ t.queue = s.queue /\ t.locked = s.locked /\ t.jailed = s.jailed /\ t.epoch = s.epoch
      /\ t.operator = s.operator /\ t.slashed = s.slashed
  <2>0. s.stake[v] + n \in Nat /\ s.shares[v] + n \in Nat /\ s.held[<<d, v>>] + n \in Nat
    BY <1>2
  <2>1. f \in [Validator -> Nat] /\ g \in [Validator -> Nat] /\ k \in [Delegator \X Validator -> Nat]
    BY <1>1, <2>0 DEF Blob
  <2>2. t = [s EXCEPT !.stake = f, !.shares = g, !.held = k]
    BY <1>1, <1>4 DEF Blob
  <2> HIDE DEF f, g, k
  <2>. QED BY <1>1, <2>1, <2>2 DEF Blob
<1>6. t \in Blob
  BY <1>5
<1>7. /\ t.stake[v] = s.stake[v] + n /\ t.shares[v] = s.shares[v] + n
      /\ t.held[<<d, v>>] = s.held[<<d, v>>] + n
      /\ \A w \in Validator \ {v} : t.stake[w] = s.stake[w] /\ t.shares[w] = s.shares[w]
      /\ \A x \in (Delegator \X Validator) \ {<<d, v>>} : t.held[x] = s.held[x]
  BY <1>1, <1>5 DEF Blob
<1>8. BlobOK(t)
  <2> SUFFICES ASSUME NEW w \in Validator
               PROVE  /\ t.shares[w] = HeldOf(t, w) /\ t.stake[w] <= t.shares[w]
                      /\ w \notin t.jailed => t.stake[w] = t.shares[w]
                      /\ t.operator[w] = <<>> => t.shares[w] = 0
    BY <1>6 DEF BlobOK
  <2>0. /\ s.shares[w] = HeldOf(s, w) /\ s.stake[w] <= s.shares[w]
        /\ w \notin s.jailed => s.stake[w] = s.shares[w]
        /\ s.operator[w] = <<>> => s.shares[w] = 0
    BY DEF BlobOK
  <2>1. CASE w = v
    <3>1. HeldOf(t, v) + s.held[<<d, v>>] = HeldOf(s, v) + t.held[<<d, v>>]
      BY <1>1, <1>6, <1>7, HoldingChange
    <3>2. HeldOf(t, v) \in Nat /\ HeldOf(s, v) \in Nat
      BY <1>1, <1>6, HeldNat2
    <3>3. t.shares[v] = HeldOf(t, v)
      <4>1. s.shares[v] = HeldOf(s, v)
        BY <2>0, <2>1
      <4>2. PICK x \in Nat, h \in Nat, j \in Nat :
                x = s.held[<<d, v>>] /\ h = HeldOf(s, v) /\ j = HeldOf(t, v)
        BY <1>2, <3>2
      <4>3. j + x = h + (x + n)
        BY <1>7, <3>1, <4>2
      <4>4. j = h + n
        BY <4>3
      <4>. QED BY <1>7, <4>1, <4>2, <4>4
    <3>4. t.stake[v] = t.shares[v] /\ t.shares[v] \in Nat
      BY <1>2, <1>7
    <3>5. t.operator[v] = <<>> => t.shares[v] = 0
      BY <1>2, <1>5, <1>7, <2>0, <2>1
    <3>. QED BY <2>1, <3>3, <3>4, <3>5
  <2>2. CASE w # v
    <3>1. HeldOf(t, w) = HeldOf(s, w)
      BY <1>1, <1>6, <1>7, <2>2, HoldingChange
    <3>. QED BY <1>5, <1>7, <2>0, <2>2, <3>1
  <2>. QED BY <2>1, <2>2
<1>9. Books(t, Minus(o, d, n), dep, m)
  <2>1. PICK q : q = Minus(o, d, n)
    OBVIOUS
  <2>2. q \in Outside /\ q[d] = o[d] - n /\ o[d] \in Nat /\ \A e \in Delegator \ {d} : q[e] = o[e]
    BY <2>1 DEF Outside, Minus
  <2>3. t.held[<<d, v>>] + q[d] <= s.held[<<d, v>>] + o[d] /\ t.stake[v] + q[d] <= s.stake[v] + o[d]
    <3>1. PICK x \in Nat, y \in Nat, z \in Nat : x = s.held[<<d, v>>] /\ y = s.stake[v] /\ z = o[d]
      BY <1>2, <2>2
    <3>2. x + n + (z - n) <= x + z /\ y + n + (z - n) <= y + z
      OBVIOUS
    <3>. QED BY <1>7, <2>2, <3>1, <3>2
  <2>4. Books(t, q, dep, m)
    <3>1. /\ s \in Blob /\ t \in Blob /\ q \in Outside /\ t.slashed = s.slashed
          /\ \A x \in (Delegator \X Validator) \ {<<d, v>>} : t.held[x] = s.held[x]
          /\ \A w \in Validator \ {v} : t.stake[w] = s.stake[w]
          /\ \A e \in Delegator \ {d} : q[e] = o[e]
      BY <1>1, <1>5, <1>6, <1>7, <2>2
    <3>. QED BY <2>3, <3>1, BooksChange
  <2>. QED BY <2>1, <2>4
<1>. QED BY <1>5, <1>8, <1>9

\* What a queue owes to a delegator.
Owed(q, d) ==
    SumFunctionOnSet([i \in DOMAIN q |-> q[i].amount], {i \in DOMAIN q : q[i].to = d})

Own(s, p) == [d \in Delegator |-> p[d] + s.locked[d] + Owed(s.queue, d)]

LEMMA QueueFacts ==
  ASSUME NEW q \in Seq(Unbonding)
  PROVE  /\ DOMAIN q = 1 .. Len(q) /\ Len(q) \in Nat /\ IsFiniteSet(DOMAIN q)
         /\ \A i \in DOMAIN q : /\ q[i].amount \in Nat /\ q[i].to \in Delegator
                                /\ q[i].validator \in Validator /\ q[i].matures \in Nat
<1>1. DOMAIN q = 1 .. Len(q) /\ Len(q) \in Nat /\ \A i \in DOMAIN q : q[i] \in Unbonding
  OBVIOUS
<1>2. IsFiniteSet(1 .. Len(q))
  BY <1>1, FS_Interval
<1>. QED BY <1>1, <1>2 DEF Unbonding

LEMMA OwedNat ==
  ASSUME NEW q \in Seq(Unbonding), NEW d
  PROVE  Owed(q, d) \in Nat
<1> DEFINE F == [i \in DOMAIN q |-> q[i].amount]
           S == {i \in DOMAIN q : q[i].to = d}
<1>1. IsFiniteSet(S) /\ \A i \in S : F[i] \in Nat
  BY QueueFacts, FS_Subset
<1> HIDE DEF F, S
<1>2. SumFunctionOnSet(F, S) \in Nat
  BY <1>1, SumNat
<1>. QED BY <1>2 DEF Owed, F, S

LEMMA OwnType ==
  ASSUME NEW s \in Blob, NEW p \in Outside
  PROVE  Own(s, p) \in Outside
<1>1. s.queue \in Seq(Unbonding) /\ s.locked \in [Delegator -> Nat] /\ p \in [Delegator -> Nat]
  BY DEF Blob, Outside
<1>2. \A d \in Delegator : Owed(s.queue, d) \in Nat /\ s.locked[d] \in Nat /\ p[d] \in Nat
  BY <1>1, OwedNat
<1>. QED BY <1>2 DEF Own, Outside

\* What all are owed is what the queue holds.
LEMMA OwedSum ==
  ASSUME NEW q \in Seq(Unbonding), NEW G, \A d \in Delegator : G[d] = Owed(q, d)
  PROVE  SumFunctionOnSet(G, Delegator) = SumFunctionOnSet([i \in DOMAIN q |-> q[i].amount], DOMAIN q)
<1> DEFINE F == [i \in DOMAIN q |-> q[i].amount]
           g == [i \in DOMAIN q |-> q[i].to]
           P == [d \in Delegator |-> {i \in DOMAIN q : q[i].to = d}]
<1>1. IsFiniteSet(DOMAIN q) /\ IsFiniteSet(Delegator)
  BY QueueFacts, StakesConstants
<1>2. \A i \in DOMAIN q : F[i] \in Nat /\ g[i] \in Delegator /\ g[i] = q[i].to
  BY QueueFacts
<1>3. /\ \A d \in Delegator : \A i : i \in P[d] <=> i \in DOMAIN q /\ g[i] = d
      /\ \A d \in Delegator : G[d] = SumFunctionOnSet(F, P[d])
  BY <1>2 DEF Owed
<1> HIDE DEF F, g, P
<1>4. Grouped(F, DOMAIN q, Delegator, g, P, G)
  BY <1>1, <1>2, <1>3 DEF Grouped
<1>5. SumFunctionOnSet(G, Delegator) = SumFunctionOnSet(F, DOMAIN q)
  BY <1>4, SumGroups
<1>. QED BY <1>5 DEF F

\* A new entry.
LEMMA OwedAppend ==
  ASSUME NEW q \in Seq(Unbonding), NEW e \in Unbonding
  PROVE  /\ Owed(Append(q, e), e.to) = Owed(q, e.to) + e.amount
         /\ \A d \in Delegator \ {e.to} : Owed(Append(q, e), d) = Owed(q, d)
<1> DEFINE r == Append(q, e)
           n == Len(q) + 1
           F == [i \in DOMAIN q |-> q[i].amount]
           G == [i \in DOMAIN r |-> r[i].amount]
           S(d) == {i \in DOMAIN q : q[i].to = d}
           T(d) == {i \in DOMAIN r : r[i].to = d}
<1>1. /\ r \in Seq(Unbonding) /\ DOMAIN q = 1 .. Len(q) /\ Len(q) \in Nat
      /\ DOMAIN r = 1 .. n /\ \A i \in 1 .. Len(q) : r[i] = q[i]
      /\ r[n] = e
  OBVIOUS
<1>2. e.to \in Delegator /\ e.amount \in Nat
  BY DEF Unbonding
<1>3. \A d : IsFiniteSet(S(d)) /\ IsFiniteSet(T(d))
  <2>1. IsFiniteSet(DOMAIN q) /\ IsFiniteSet(DOMAIN r)
    BY <1>1, QueueFacts
  <2>2. \A d : S(d) \in SUBSET (DOMAIN q) /\ T(d) \in SUBSET (DOMAIN r)
    OBVIOUS
  <2>. QED BY <2>1, <2>2, FS_Subset
<1>4. \A i \in DOMAIN q : F[i] = G[i] /\ F[i] \in Nat
  BY <1>1, QueueFacts
<1>5. n \notin DOMAIN q /\ G[n] = e.amount /\ DOMAIN r = DOMAIN q \cup {n}
  BY <1>1
<1>6. /\ T(e.to) = S(e.to) \cup {n}
      /\ \A d : d # e.to => T(d) = S(d)
  BY <1>1, <1>5
<1>7. \A d : SumFunctionOnSet(G, S(d)) = SumFunctionOnSet(F, S(d))
  <2> SUFFICES ASSUME NEW d PROVE SumFunctionOnSet(G, S(d)) = SumFunctionOnSet(F, S(d))
    OBVIOUS
  <2>1. IsFiniteSet(S(d)) /\ \A i \in S(d) : G[i] = F[i]
    BY <1>3, <1>4
  <2> HIDE DEF F, G, S
  <2>. QED BY <2>1, SumSame
<1>8. SumFunctionOnSet(G, T(e.to)) = SumFunctionOnSet(G, S(e.to)) + G[n]
  <2>1. /\ IsFiniteSet(S(e.to)) /\ n \notin S(e.to)
        /\ \A i \in S(e.to) \cup {n} : G[i] \in Nat
    BY <1>2, <1>3, <1>4, <1>5
  <2>2. SumFunctionOnSet(G, S(e.to) \cup {n}) = SumFunctionOnSet(G, S(e.to)) + G[n]
    <3> HIDE DEF G, S, n
    <3>. QED BY <2>1, SumAdd
  <2>. QED BY <1>6, <2>2
<1>9. \A d : Owed(q, d) = SumFunctionOnSet(F, S(d)) /\ Owed(r, d) = SumFunctionOnSet(G, T(d))
  BY DEF Owed
<1> HIDE DEF F, G, S, T, n, r
<1>10. Owed(r, e.to) = Owed(q, e.to) + e.amount
  BY <1>5, <1>7, <1>8, <1>9
<1>11. \A d : d # e.to => Owed(r, d) = Owed(q, d)
  BY <1>6, <1>7, <1>9
<1>. QED BY <1>10, <1>11 DEF r

\* The entries that have matured are the first of the queue.
LEMMA MaturedFirst ==
  ASSUME NEW s \in Blob
  PROVE  LET k == Cardinality(Stakes!Matured(s))
         IN  k \in 0 .. Len(s.queue) /\ Stakes!Matured(s) = 1 .. k
<1> DEFINE q == s.queue
           M == Stakes!Matured(s)
           Late == {i \in 1 .. Len(q) : i \notin M}
<1>1. q \in Seq(Unbonding) /\ DOMAIN q = 1 .. Len(q) /\ Len(q) \in Nat /\ s.epoch \in Nat
  BY QueueFacts DEF Blob
<1>2. M = {i \in 1 .. Len(q) : \A j \in 1 .. i : q[j].matures <= s.epoch + 1}
  BY <1>1 DEF Stakes!Matured
<1>3. \A n \in Nat : M = 1 .. n => Cardinality(M) = n
  BY FS_Interval
<1>4. CASE Late = {}
  <2>1. M = 1 .. Len(q)
    BY <1>2, <1>4
  <2>. QED BY <1>1, <1>3, <2>1
<1>5. CASE Late # {}
  <2>1. Late \in SUBSET Nat
    BY <1>1
  <2> HIDE DEF Late
  <2>2. PICK m \in Late : \A n \in Late : m <= n
    BY <1>5, <2>1, LeastNumber
  <2>3. m \in 1 .. Len(q) /\ m \notin M
    BY <2>2 DEF Late
  <2>4. \A i \in 1 .. Len(q) : i < m => i \in M
    <3> SUFFICES ASSUME NEW i \in 1 .. Len(q), i < m, i \notin M PROVE FALSE
      OBVIOUS
    <3>1. i \in Late
      BY DEF Late
    <3>. QED BY <1>1, <2>2, <2>3, <3>1
  <2>5. \A i \in M : i < m
    <3> SUFFICES ASSUME NEW i \in M, m <= i PROVE FALSE
      BY <1>2, <2>3
    <3>1. i \in 1 .. Len(q) /\ \A j \in 1 .. i : q[j].matures <= s.epoch + 1
      BY <1>2
    <3>2. \A j \in 1 .. m : j \in 1 .. i
      BY <1>1, <2>3, <3>1
    <3>3. m \in M
      BY <1>2, <2>3, <3>1, <3>2
    <3>. QED BY <2>3, <3>3
  <2>6. PICK n \in Nat : n = m - 1 /\ n <= Len(q)
    BY <1>1, <2>3
  <2>7. M = 1 .. n
    <3>1. \A i \in M : i \in 1 .. n
      BY <1>1, <1>2, <2>3, <2>5, <2>6
    <3>2. \A i \in 1 .. n : i \in M
      BY <1>1, <2>3, <2>4, <2>6
    <3>. QED BY <3>1, <3>2
  <2>. QED BY <1>1, <1>3, <2>6, <2>7
<1>. QED BY <1>4, <1>5

\* What has matured leaves the queue.
LEMMA OwedDrop ==
  ASSUME NEW q \in Seq(Unbonding), NEW k \in 0 .. Len(q), NEW d
  PROVE  LET r == SubSeq(q, k + 1, Len(q))
             F == [i \in DOMAIN q |-> q[i].amount]
         IN  /\ r \in Seq(Unbonding)
             /\ Owed(q, d) = SumFunctionOnSet(F, {i \in 1 .. k : q[i].to = d}) + Owed(r, d)
             /\ SumFunctionOnSet(F, {i \in 1 .. k : q[i].to = d}) \in Nat
<1> DEFINE r == SubSeq(q, k + 1, Len(q))
           m == Len(q) - k
           F == [i \in DOMAIN q |-> q[i].amount]
           G == [i \in DOMAIN r |-> r[i].amount]
           S == {i \in DOMAIN q : q[i].to = d}
           A == {i \in 1 .. k : q[i].to = d}
           T == {i \in DOMAIN r : r[i].to = d}
           h == [i \in T |-> i + k]
<1>1. k \in Nat /\ Len(q) \in Nat /\ k <= Len(q) /\ DOMAIN q = 1 .. Len(q) /\ m \in Nat
  BY QueueFacts
<1>2. /\ r \in Seq(Unbonding) /\ DOMAIN r = 1 .. m
      /\ \A i \in 1 .. m : i + k \in 1 .. Len(q) /\ r[i] = q[i + k]
  <2>1. r \in Seq(Unbonding) /\ Len(r) = m
    <3>1. PICK l \in Nat : l = Len(q) /\ k <= l
      BY <1>1
    <3>2. k + 1 \in Int /\ l \in Int /\ m = l - k /\ \A i \in k + 1 .. l : q[i] \in Unbonding
      BY <1>1, <3>1
    <3>3. l - (k + 1) + 1 = l - k /\ (~(k + 1 <= l) => l - k = 0)
      <4>1. \A a, b \in Nat : b <= a => a - (b + 1) + 1 = a - b /\ (~(b + 1 <= a) => a - b = 0)
        OBVIOUS
      <4>. QED BY <1>1, <3>1, <4>1
    <3>4. r = SubSeq(q, k + 1, l)
      BY <3>1
    <3> HIDE DEF m, r
    <3>5. r \in Seq(Unbonding) /\ Len(r) = IF k + 1 <= l THEN l - (k + 1) + 1 ELSE 0
      BY <3>2, <3>4, SubSeqProperties
    <3>. QED BY <3>2, <3>3, <3>5
  <2>2. \A i \in 1 .. m : i + k \in 1 .. Len(q) /\ r[i] = q[i + k]
    BY <1>1
  <2>. QED BY <2>1, <2>2, QueueFacts
<1>3. \A i \in DOMAIN q : F[i] \in Nat
  BY QueueFacts
<1>4. \A i \in T : i \in 1 .. m /\ h[i] = i + k /\ F[h[i]] \in Nat /\ G[i] = F[h[i]] /\ q[h[i]].to = d
  BY <1>1, <1>2, <1>3
<1>5. \A i, j \in T : h[i] = h[j] => i = j
  BY <1>1, <1>4
<1>6. {h[i] : i \in T} = S \ A
  <2>1. \A i \in T : h[i] \in S /\ h[i] \notin A
    BY <1>1, <1>2, <1>4
  <2>2. ASSUME NEW j \in S, j \notin A PROVE \E i \in T : h[i] = j
    <3>1. j \in 1 .. Len(q) /\ ~(j <= k) /\ q[j].to = d
      BY <1>1, <2>2
    <3>2. PICK i \in 1 .. m : j = i + k
      BY <1>1, <3>1
    <3>3. i \in T
      BY <1>2, <3>1, <3>2
    <3>. QED BY <3>2, <3>3
  <2> HIDE DEF h, S, A, T
  <2>. QED BY <2>1, <2>2
<1>7. IsFiniteSet(T) /\ IsFiniteSet(S) /\ A \in SUBSET S /\ \A i \in S : F[i] \in Nat
  <2>1. IsFiniteSet(DOMAIN q) /\ IsFiniteSet(DOMAIN r)
    BY <1>2, QueueFacts
  <2>2. S \in SUBSET (DOMAIN q) /\ T \in SUBSET (DOMAIN r) /\ A \in SUBSET S
    BY <1>1
  <2>. QED BY <1>3, <2>1, <2>2, FS_Subset
<1>8. Owed(q, d) = SumFunctionOnSet(F, S) /\ Owed(r, d) = SumFunctionOnSet(G, T)
  BY DEF Owed
<1> HIDE DEF F, G, S, A, T, h, r, m
<1>9. SumFunctionOnSet(G, T) = SumFunctionOnSet(F, S \ A)
  <2>1. \A i \in T : F[h[i]] \in Nat /\ G[i] = F[h[i]]
    BY <1>4
  <2>. QED BY <1>5, <1>6, <1>7, <2>1, SumMap
<1>10. /\ SumFunctionOnSet(F, S) = SumFunctionOnSet(F, A) + SumFunctionOnSet(F, S \ A)
       /\ SumFunctionOnSet(F, A) \in Nat
  <2>1. IsFiniteSet(S) /\ A \in SUBSET S /\ \A i \in S : F[i] \in Nat
    BY <1>7
  <2>. QED BY <2>1, SumPart
<1>. QED BY <1>2, <1>8, <1>9, <1>10 DEF r, F, A

\* A share of a number, rounded down, is at most that number.
LEMMA ShareAtMost ==
  ASSUME NEW n \in Nat, NEW b \in Nat, NEW c \in Nat, c > 0, b <= c
  PROVE  (n * b) \div c \in Nat /\ (n * b) \div c <= n
<1>1. PICK p \in Nat : p = n * b
  OBVIOUS
<1>2. p <= c * n
  BY <1>1
<1>3. PICK q \in Nat : q = p \div c /\ c * q <= p
  OBVIOUS
<1>4. q <= n
  <2>1. SUFFICES ASSUME n + 1 <= q PROVE FALSE
    BY <1>3
  <2>2. c * (n + 1) <= c * q
    BY <2>1
  <2>3. c * (n + 1) = c * n + c
    OBVIOUS
  <2>. QED BY <1>2, <1>3, <2>2, <2>3
<1>. QED BY <1>1, <1>3, <1>4

LEMMA CutIs ==
  ASSUME NEW n \in Nat
  PROVE  Stakes!Cut(n) \in Nat /\ Stakes!Cut(n) <= n
<1>1. SlashBps \in Nat /\ BpsDen \in Nat /\ BpsDen > 0 /\ SlashBps <= BpsDen
  BY StakesConstants
<1>2. Stakes!Cut(n) = (n * SlashBps) \div BpsDen
  BY <1>1 DEF Stakes!Cut, Stakes!MulDiv
<1>. QED BY <1>1, <1>2, ShareAtMost

\* What is outside the validators, in all.
LEMMA OwnSum ==
  ASSUME NEW s \in Blob, NEW p \in Outside
  PROVE  LET F == [i \in DOMAIN s.queue |-> s.queue[i].amount]
         IN  /\ SumFunctionOnSet(Own(s, p), Delegator)
                  = SumFunctionOnSet(p, Delegator) + SumFunctionOnSet(s.locked, Delegator)
                      + SumFunctionOnSet(F, DOMAIN s.queue)
             /\ SumFunctionOnSet(p, Delegator) \in Nat /\ SumFunctionOnSet(s.locked, Delegator) \in Nat
             /\ SumFunctionOnSet(F, DOMAIN s.queue) \in Nat
<1> DEFINE q == s.queue
           F == [i \in DOMAIN q |-> q[i].amount]
           G == [d \in Delegator |-> Owed(q, d)]
           H == [d \in Delegator |-> p[d] + s.locked[d]]
<1>1. /\ q \in Seq(Unbonding) /\ IsFiniteSet(Delegator)
      /\ \A d \in Delegator : p[d] \in Nat /\ s.locked[d] \in Nat /\ Owed(q, d) \in Nat
  BY StakesConstants, OwedNat DEF Blob, Outside
<1>2. /\ \A d \in Delegator : p[d] \in Nat /\ s.locked[d] \in Nat /\ H[d] = p[d] + s.locked[d]
      /\ \A d \in Delegator : H[d] \in Nat /\ G[d] \in Nat /\ Own(s, p)[d] = H[d] + G[d]
  BY <1>1 DEF Own
<1>3. SumFunctionOnSet(G, Delegator) = SumFunctionOnSet(F, DOMAIN q)
  BY <1>1, OwedSum
<1> HIDE DEF F, G, H, q
<1>4. SumFunctionOnSet(H, Delegator) = SumFunctionOnSet(p, Delegator) + SumFunctionOnSet(s.locked, Delegator)
  BY <1>1, <1>2, SumPlus
<1>5. SumFunctionOnSet(Own(s, p), Delegator) = SumFunctionOnSet(H, Delegator) + SumFunctionOnSet(G, Delegator)
  BY <1>1, <1>2, SumPlus
<1>6. SumFunctionOnSet(p, Delegator) \in Nat /\ SumFunctionOnSet(s.locked, Delegator) \in Nat
      /\ SumFunctionOnSet(G, Delegator) \in Nat
  BY <1>1, <1>2, SumNat
<1>. QED BY <1>3, <1>4, <1>5, <1>6 DEF F, q

\* What comes in is outside the validators first.
LEMMA BooksIn ==
  ASSUME NEW s \in Blob, NEW o \in Outside, NEW dep \in Outside, NEW m \in Nat, Books(s, o, dep, m),
         NEW d \in Delegator, NEW n \in Nat
  PROVE  Books(s, Plus(o, d, n), Plus(dep, d, n), m)
<1>1. PICK q, e : q = Plus(o, d, n) /\ e = Plus(dep, d, n)
  OBVIOUS
<1>2. /\ q \in Outside /\ e \in Outside /\ q[d] = o[d] + n /\ e[d] = dep[d] + n
      /\ \A x \in Delegator : o[x] \in Nat /\ dep[x] \in Nat /\ HeldBy(s, x) \in Nat
      /\ \A x \in Delegator \ {d} : q[x] = o[x] /\ e[x] = dep[x]
  BY <1>1, HeldNat2 DEF Outside, Plus
<1>3. ASSUME NEW x \in Delegator PROVE HeldBy(s, x) + q[x] <= e[x] + m
  <2>1. HeldBy(s, x) + o[x] <= dep[x] + m
    BY DEF Books
  <2>2. PICK h \in Nat, i \in Nat, j \in Nat : h = HeldBy(s, x) /\ i = o[x] /\ j = dep[x]
    BY <1>2
  <2>3. h + (i + n) <= (j + n) + m
    BY <2>1, <2>2
  <2>. QED BY <1>2, <2>1, <2>2, <2>3
<1>4. SumFunctionOnSet(q, Delegator) + s.slashed + SumFunctionOnSet(s.stake, Validator)
         <= SumFunctionOnSet(e, Delegator) + m
  <2>1. IsFiniteSet(Delegator) /\ \A f \in Outside : f \in [Delegator -> Nat]
    BY StakesConstants DEF Outside
  <2>2. /\ SumFunctionOnSet(q, Delegator) + o[d] = SumFunctionOnSet(o, Delegator) + q[d]
        /\ SumFunctionOnSet(e, Delegator) + dep[d] = SumFunctionOnSet(dep, Delegator) + e[d]
    BY <1>2, <2>1, OneChange
  <2>3. SumFunctionOnSet(o, Delegator) + s.slashed + SumFunctionOnSet(s.stake, Validator)
         <= SumFunctionOnSet(dep, Delegator) + m
    BY DEF Books
  <2>4. PICK so \in Nat, sq \in Nat, sd \in Nat, se \in Nat, ss \in Nat, c \in Nat, i \in Nat, j \in Nat :
            /\ so = SumFunctionOnSet(o, Delegator) /\ sq = SumFunctionOnSet(q, Delegator)
            /\ sd = SumFunctionOnSet(dep, Delegator) /\ se = SumFunctionOnSet(e, Delegator)
            /\ ss = SumFunctionOnSet(s.stake, Validator) /\ c = s.slashed /\ i = o[d] /\ j = dep[d]
    BY <1>2, StakeNat
  <2>5. sq + i = so + (i + n) /\ se + j = sd + (j + n) /\ so + c + ss <= sd + m
    BY <1>2, <2>2, <2>3, <2>4
  <2>6. sq + c + ss <= se + m
    BY <2>5
  <2>. QED BY <2>4, <2>6
<1>. QED BY <1>1, <1>3, <1>4 DEF Books

AmountIn(q) == [i \in DOMAIN q |-> q[i].amount]

\* What the queue is after a slash of v.
LEMMA SlashedQueue ==
  ASSUME NEW q \in Seq(Unbonding), NEW v \in Validator,
         NEW r, r = Stakes!WithCuts(q, v), NEW F, F = AmountIn(q), NEW G, G = AmountIn(r),
         NEW C, C = Stakes!Cuts(q), NEW V, V = Stakes!From(q, v)
  PROVE  /\ r \in Seq(Unbonding) /\ \A d : Owed(r, d) <= Owed(q, d)
         /\ SumFunctionOnSet(G, DOMAIN r) + SumFunctionOnSet(C, V) = SumFunctionOnSet(F, DOMAIN q)
         /\ SumFunctionOnSet(G, DOMAIN r) \in Nat /\ SumFunctionOnSet(C, V) \in Nat
<1> USE DEF AmountIn, Stakes!WithCuts, Stakes!Cuts, Stakes!From
<1>1. /\ DOMAIN q = 1 .. Len(q) /\ Len(q) \in Nat /\ IsFiniteSet(DOMAIN q) /\ DOMAIN r = DOMAIN q
      /\ \A i \in DOMAIN q : q[i] \in Unbonding /\ q[i].amount \in Nat
  BY QueueFacts
<1>2. \A i \in DOMAIN q : C[i] \in Nat /\ C[i] <= F[i] /\ F[i] \in Nat /\ F[i] = q[i].amount
  BY <1>1, CutIs
<1>3. ASSUME NEW i \in DOMAIN q
      PROVE  /\ r[i] \in Unbonding /\ r[i].to = q[i].to /\ G[i] \in Nat /\ G[i] <= F[i]
             /\ G[i] = F[i] - IF i \in V THEN C[i] ELSE 0
  <2>1. q[i] \in Unbonding /\ q[i].amount \in Nat /\ G[i] = r[i].amount
    BY <1>1
  <2>2. CASE i \in V
    <3>1. r[i] = [q[i] EXCEPT !.amount = @ - C[i]]
      BY <2>2
    <3>2. F[i] - C[i] \in Nat /\ F[i] - C[i] <= F[i]
      BY <1>2
    <3>3. r[i].amount = F[i] - C[i] /\ r[i].to = q[i].to /\ r[i] \in Unbonding
      BY <1>2, <2>1, <3>1, <3>2 DEF Unbonding
    <3>. QED BY <2>1, <2>2, <3>2, <3>3
  <2>3. CASE i \notin V
    <3>1. r[i] = q[i]
      BY <2>3
    <3>. QED BY <1>2, <2>1, <2>3, <3>1
  <2>. QED BY <2>2, <2>3
<1>4. r \in Seq(Unbonding)
  <2>1. r \in [1 .. Len(q) -> Unbonding]
    BY <1>1, <1>3
  <2>. QED BY <1>1, <2>1
<1>5. ASSUME NEW d PROVE Owed(r, d) <= Owed(q, d)
  <2> DEFINE S == {i \in DOMAIN q : q[i].to = d}
             T == {i \in DOMAIN r : r[i].to = d}
  <2>1. S = T /\ IsFiniteSet(S) /\ \A i \in S : G[i] \in Nat /\ F[i] \in Nat /\ G[i] <= F[i]
    <3>1. S \in SUBSET (DOMAIN q)
      OBVIOUS
    <3>. QED BY <1>1, <1>2, <1>3, <3>1, FS_Subset
  <2>2. Owed(q, d) = SumFunctionOnSet(F, S) /\ Owed(r, d) = SumFunctionOnSet(G, T)
    BY DEF Owed
  <2> HIDE DEF S, T
  <2>3. SumFunctionOnSet(G, S) <= SumFunctionOnSet(F, S)
    BY <2>1, SumAtMost
  <2>. QED BY <2>1, <2>2, <2>3
<1>6. /\ SumFunctionOnSet(G, DOMAIN r) + SumFunctionOnSet(C, V) = SumFunctionOnSet(F, DOMAIN q)
      /\ SumFunctionOnSet(G, DOMAIN r) \in Nat /\ SumFunctionOnSet(C, V) \in Nat
  <2> DEFINE D == DOMAIN q
  <2>1. IsFiniteSet(D) /\ V \in SUBSET D
    BY <1>1
  <2>3. \A i \in D : G[i] \in Nat /\ C[i] \in Nat /\ F[i] \in Nat
    BY <1>2, <1>3
  <2>4. \A i \in V : G[i] + C[i] = F[i]
    BY <1>2, <1>3
  <2>5. \A i \in D \ V : G[i] = F[i]
    BY <1>2, <1>3
  <2>6. Taken(F, G, C, D, V)
    BY <2>1, <2>3, <2>4, <2>5 DEF Taken
  <2> HIDE DEF D
  <2>2. /\ SumFunctionOnSet(G, D) + SumFunctionOnSet(C, V) = SumFunctionOnSet(F, D)
        /\ SumFunctionOnSet(G, D) \in Nat /\ SumFunctionOnSet(C, V) \in Nat
    BY <2>6, SumCut
  <2>. QED BY <1>1, <2>2 DEF D
<1>. QED BY <1>4, <1>5, <1>6

\* A slash takes from the stake and from the queue what it counts as slashed.
LEMMA SlashOK ==
  ASSUME NEW s, BlobOK(s), NEW p \in Outside, NEW dep \in Outside, NEW m \in Nat,
         NEW v \in Validator, NEW t, t = Stakes!Slash(s, v)
  PROVE  /\ BlobOK(t)
         /\ Books(s, Own(s, p), dep, m) => Books(t, Own(t, p), dep, m)
<1> DEFINE q == s.queue
           r == Stakes!WithCuts(q, v)
           C == Stakes!Cuts(q)
           V == Stakes!From(q, v)
           F == AmountIn(q)
           G == AmountIn(r)
           cut == Stakes!Cut(s.stake[v])
           f == [s.stake EXCEPT ![v] = @ - cut]
           c == s.slashed + cut + SumFunctionOnSet(C, V)
<1>1. s \in Blob
  BY DEF BlobOK
<1>2. q \in Seq(Unbonding) /\ s.stake[v] \in Nat /\ s.slashed \in Nat /\ s.stake[v] <= s.shares[v]
      /\ s.shares[v] \in Nat
  BY <1>1 DEF Blob, BlobOK
<1>3. cut \in Nat /\ cut <= s.stake[v]
  BY <1>2, CutIs
<1>4. /\ r \in Seq(Unbonding) /\ \A d : Owed(r, d) <= Owed(q, d)
      /\ SumFunctionOnSet(G, DOMAIN r) + SumFunctionOnSet(C, V) = SumFunctionOnSet(F, DOMAIN q)
      /\ SumFunctionOnSet(G, DOMAIN r) \in Nat /\ SumFunctionOnSet(C, V) \in Nat
  <2>1. r = Stakes!WithCuts(q, v) /\ C = Stakes!Cuts(q) /\ V = Stakes!From(q, v)
        /\ F = AmountIn(q) /\ G = AmountIn(r)
    OBVIOUS
  <2> HIDE DEF q, r, F, G, C, V
  <2>. QED BY <1>2, <2>1, SlashedQueue
<1>5. t = [s EXCEPT !.stake = f, !.queue = r, !.slashed = c, !.jailed = s.jailed \cup {v}]
  <2>1. Stakes!SumFunctionOnSet(C, V) = SumFunctionOnSet(C, V)
    BY StakesSum
  <2>2. t = [s EXCEPT !.stake[v] = s.stake[v] - cut, !.queue = r,
               !.slashed = s.slashed + cut + Stakes!SumFunctionOnSet(C, V), !.jailed = s.jailed \cup {v}]
    BY DEF Stakes!Slash
  <2> HIDE DEF cut, r, C, V
  <2>3. [s EXCEPT !.stake[v] = s.stake[v] - cut] = [s EXCEPT !.stake = f]
    BY <1>1 DEF Blob
  <2>. QED BY <1>1, <2>1, <2>2, <2>3 DEF Blob
<1>6. f \in [Validator -> Nat] /\ c \in Nat /\ f[v] = s.stake[v] - cut /\ \A w \in Validator \ {v} : f[w] = s.stake[w]
  <2>1. s.stake[v] - cut \in Nat /\ s.stake \in [Validator -> Nat]
    BY <1>1, <1>2, <1>3 DEF Blob
  <2>2. c \in Nat
    BY <1>2, <1>3, <1>4
  <2> HIDE DEF cut, c
  <2>. QED BY <2>1, <2>2
<1>7. F = [i \in DOMAIN s.queue |-> s.queue[i].amount] /\ G = [i \in DOMAIN r |-> r[i].amount]
  BY DEF AmountIn
<1>8. c = s.slashed + cut + SumFunctionOnSet(C, V)
  OBVIOUS
<1>20. Owed(s.queue, v) = Owed(q, v) /\ s.queue = q
  OBVIOUS
<1> HIDE DEF cut, c, f, r, F, G, C, V, q
<1>9. /\ t \in Blob /\ t.stake = f /\ t.queue = r /\ t.slashed = c /\ t.jailed = s.jailed \cup {v}
      /\ t.shares = s.shares /\ t.operator = s.operator /\ t.held = s.held /\ t.locked = s.locked
  <2>1. PICK j \in SUBSET Validator : j = s.jailed \cup {v}
    BY <1>1 DEF Blob
  <2>2. t = [s EXCEPT !.stake = f, !.queue = r, !.slashed = c, !.jailed = j]
    BY <1>5, <2>1
  <2>3. f \in [Validator -> Nat] /\ r \in Seq(Unbonding) /\ c \in Nat
    BY <1>4, <1>6
  <2>4. /\ t \in Blob /\ t.stake = f /\ t.queue = r /\ t.slashed = c /\ t.jailed = j
        /\ t.shares = s.shares /\ t.operator = s.operator /\ t.held = s.held /\ t.locked = s.locked
    BY <1>1, <2>2, <2>3 DEF Blob
  <2>. QED BY <2>1, <2>4
<1>10. BlobOK(t)
  <2> SUFFICES ASSUME NEW w \in Validator
               PROVE  /\ t.shares[w] = HeldOf(t, w) /\ t.stake[w] <= t.shares[w]
                      /\ w \notin t.jailed => t.stake[w] = t.shares[w]
                      /\ t.operator[w] = <<>> => t.shares[w] = 0
    BY <1>9 DEF BlobOK
  <2>1. /\ s.shares[w] = HeldOf(s, w) /\ s.stake[w] <= s.shares[w]
        /\ w \notin s.jailed => s.stake[w] = s.shares[w]
        /\ s.operator[w] = <<>> => s.shares[w] = 0
    BY DEF BlobOK
  <2>2. HeldOf(t, w) = HeldOf(s, w)
    BY <1>9 DEF HeldOf
  <2>3. CASE w = v
    <3>1. f[v] <= s.shares[v]
      BY <1>2, <1>3, <1>6
    <3>. QED BY <1>9, <2>1, <2>2, <2>3, <3>1
  <2>4. CASE w # v
    BY <1>6, <1>9, <2>1, <2>2, <2>4
  <2>. QED BY <2>3, <2>4
<1>11. ASSUME Books(s, Own(s, p), dep, m) PROVE Books(t, Own(t, p), dep, m)
  <2>1. ASSUME NEW d \in Delegator PROVE HeldBy(t, d) + Own(t, p)[d] <= dep[d] + m
    <3>1. HeldBy(s, d) + Own(s, p)[d] <= dep[d] + m
      BY <1>11 DEF Books
    <3>2. HeldBy(t, d) = HeldBy(s, d) /\ HeldBy(s, d) \in Nat /\ dep[d] \in Nat
      BY <1>1, <1>9, HeldNat2 DEF HeldBy, Outside
    <3>3. Own(t, p)[d] = p[d] + s.locked[d] + Owed(r, d) /\ Own(s, p)[d] = p[d] + s.locked[d] + Owed(q, d)
      BY <1>9, <1>20 DEF Own
    <3>4. p[d] \in Nat /\ s.locked[d] \in Nat /\ Owed(r, d) \in Nat /\ Owed(q, d) \in Nat
          /\ Owed(r, d) <= Owed(q, d)
      BY <1>1, <1>2, <1>4, OwedNat DEF Outside, Blob
    <3>5. PICK a \in Nat, b \in Nat, x \in Nat, y \in Nat, h \in Nat, l \in Nat :
              /\ a = p[d] /\ b = s.locked[d] /\ x = Owed(r, d) /\ y = Owed(q, d) /\ h = HeldBy(s, d)
              /\ l = dep[d]
      BY <3>2, <3>4
    <3>6. h + (a + b + x) <= l + m
      BY <3>1, <3>3, <3>4, <3>5
    <3>. QED BY <3>2, <3>3, <3>5, <3>6
  <2>2. SumFunctionOnSet(Own(t, p), Delegator) + t.slashed + SumFunctionOnSet(t.stake, Validator)
         <= SumFunctionOnSet(dep, Delegator) + m
    <3>1. /\ SumFunctionOnSet(Own(s, p), Delegator)
               = SumFunctionOnSet(p, Delegator) + SumFunctionOnSet(s.locked, Delegator)
                      + SumFunctionOnSet(F, DOMAIN q)
          /\ SumFunctionOnSet(p, Delegator) \in Nat /\ SumFunctionOnSet(s.locked, Delegator) \in Nat
          /\ SumFunctionOnSet(F, DOMAIN q) \in Nat
      BY <1>1, <1>7, <1>20, OwnSum
    <3>2. SumFunctionOnSet(Own(t, p), Delegator)
               = SumFunctionOnSet(p, Delegator) + SumFunctionOnSet(s.locked, Delegator)
                      + SumFunctionOnSet(G, DOMAIN r)
      BY <1>7, <1>9, OwnSum
    <3>3. SumFunctionOnSet(t.stake, Validator) + s.stake[v] = SumFunctionOnSet(s.stake, Validator) + t.stake[v]
      <4>1. IsFiniteSet(Validator) /\ s.stake \in [Validator -> Nat] /\ t.stake \in [Validator -> Nat]
            /\ \A w \in Validator \ {v} : t.stake[w] = s.stake[w]
        BY <1>1, <1>6, <1>9, StakesConstants DEF Blob
      <4>. QED BY <4>1, OneChange
    <3>4. /\ SumFunctionOnSet(dep, Delegator) \in Nat /\ SumFunctionOnSet(s.stake, Validator) \in Nat
          /\ SumFunctionOnSet(t.stake, Validator) \in Nat
      BY <1>1, <1>9, StakeNat
    <3>5. SumFunctionOnSet(Own(s, p), Delegator) + s.slashed + SumFunctionOnSet(s.stake, Validator)
         <= SumFunctionOnSet(dep, Delegator) + m
      BY <1>11 DEF Books
    <3>6. PICK P \in Nat, L \in Nat, FQ \in Nat, GQ \in Nat, CV \in Nat, D \in Nat, ss \in Nat, st \in Nat,
               x \in Nat, y \in Nat, z \in Nat :
            /\ P = SumFunctionOnSet(p, Delegator) /\ L = SumFunctionOnSet(s.locked, Delegator)
            /\ FQ = SumFunctionOnSet(F, DOMAIN q) /\ GQ = SumFunctionOnSet(G, DOMAIN r)
            /\ CV = SumFunctionOnSet(C, V) /\ D = SumFunctionOnSet(dep, Delegator)
            /\ ss = SumFunctionOnSet(s.stake, Validator) /\ st = SumFunctionOnSet(t.stake, Validator)
            /\ x = s.slashed /\ y = cut /\ z = s.stake[v]
      BY <1>2, <1>3, <1>4, <3>1, <3>4
    <3>7. GQ + CV = FQ
      BY <1>4, <3>6
    <3>8. st + z = ss + (z - y)
      BY <1>6, <1>9, <3>3, <3>6
    <3>9. P + L + FQ + x + ss <= D + m
      BY <3>1, <3>5, <3>6
    <3>10. P + L + GQ + (x + y + CV) + st <= D + m
      BY <3>7, <3>8, <3>9
    <3>. QED BY <1>8, <1>9, <3>2, <3>6, <3>10
  <2>. QED BY <2>1, <2>2 DEF Books
<1>. QED BY <1>10, <1>11

\* What one validator's delegators are given is at most what is left of its share.
LEMMA CutsOK ==
  ASSUME NEW s \in Blob, NEW v \in Validator, NEW n \in Nat,
         n = Stakes!ShareOf(s, v) - Stakes!CommissionOf(s, v),
         NEW G, \A d \in Delegator : G[d] = Stakes!CutOf(s, d, v)
  PROVE  /\ \A d \in Delegator : G[d] \in Nat
         /\ SumFunctionOnSet(G, Delegator) <= n
<1> DEFINE F == [d \in Delegator |-> s.held[<<d, v>>]]
<1>1. \A d \in Delegator : F[d] \in Nat /\ F[d] = s.held[<<d, v>>]
  BY DEF Blob
<1>2. IsFiniteSet(Delegator)
  BY StakesConstants
<1>3. Stakes!SharesOf(s, v) = SumFunctionOnSet(F, Delegator)
  BY StakesSum DEF Stakes!SharesOf
<1> HIDE DEF F
<1>4. PICK t \in Nat : t = SumFunctionOnSet(F, Delegator)
  BY <1>1, <1>2, SumNat
<1>5. \A d \in Delegator : G[d] = IF t = 0 THEN 0 ELSE (n * F[d]) \div t
  BY <1>1, <1>3, <1>4 DEF Stakes!CutOf, Stakes!MulDiv
<1>6. CASE t = 0
  <2>1. \A d \in Delegator : G[d] = 0
    BY <1>5, <1>6
  <2>2. SumFunctionOnSet(G, Delegator) = 0
    BY <1>2, <2>1, SumZero
  <2>. QED BY <2>1, <2>2
<1>7. CASE t # 0
  <2>1. SumFunctionOnSet(F, Delegator) > 0
    BY <1>4, <1>7
  <2>2. \A d \in Delegator : G[d] = (n * F[d]) \div SumFunctionOnSet(F, Delegator)
    BY <1>4, <1>5, <1>7
  <2>3. \A d \in Delegator : F[d] \in Nat
    BY <1>1
  <2>. QED BY <1>2, <2>1, <2>2, <2>3, SumFloors
<1>. QED BY <1>6, <1>7

\* The shares of the active validators in the pool are at most the pool.
LEMMA SharesOK ==
  ASSUME NEW s \in Blob, \E v \in Stakes!Active(s) : s.stake[v] > 0,
         NEW G, \A v \in Validator : G[v] = Stakes!ShareOf(s, v)
  PROVE  /\ \A v \in Stakes!Active(s) :
              G[v] \in Nat /\ Stakes!CommissionOf(s, v) \in Nat /\ Stakes!CommissionOf(s, v) <= G[v]
         /\ SumFunctionOnSet(G, Stakes!Active(s)) <= Reward
<1> DEFINE A == Stakes!Active(s)
           F == s.stake
<1>1. IsFiniteSet(A) /\ A \subseteq Validator /\ \A v \in A : F[v] \in Nat
  <2>1. A \in SUBSET Validator
    BY DEF Stakes!Active
  <2>. QED BY <2>1, StakesConstants, FS_Subset DEF Blob
<1>2. PICK w \in A : F[w] > 0
  OBVIOUS
<1>3. \A v \in A : G[v] = Stakes!MulDiv(Reward, F[v], SumFunctionOnSet(F, A))
  BY <1>1, StakesSum DEF Stakes!ShareOf
<1> HIDE DEF A, F
<1>4. F[w] <= SumFunctionOnSet(F, A) /\ SumFunctionOnSet(F, A) \in Nat
  BY <1>1, <1>2, SumMember, SumNat
<1>5. SumFunctionOnSet(F, A) > 0 /\ Reward \in Nat
  BY <1>1, <1>2, <1>4, StakesConstants
<1>6. \A v \in A : G[v] = (Reward * F[v]) \div SumFunctionOnSet(F, A)
  BY <1>3, <1>4, <1>5 DEF Stakes!MulDiv
<1>7. \A v \in A : F[v] \in Nat
  BY <1>1
<1>8. (\A v \in A : G[v] \in Nat) /\ SumFunctionOnSet(G, A) <= Reward
  BY <1>1, <1>5, <1>6, <1>7, SumFloors
<1>9. ASSUME NEW v \in A PROVE Stakes!CommissionOf(s, v) \in Nat /\ Stakes!CommissionOf(s, v) <= G[v]
  <2>1. CommissionBps \in Nat /\ BpsDen \in Nat /\ BpsDen > 0 /\ CommissionBps <= BpsDen
    BY StakesConstants
  <2>2. PICK n \in Nat : n = G[v]
    BY <1>8
  <2>3. Stakes!CommissionOf(s, v) = (n * CommissionBps) \div BpsDen
    BY <1>1, <2>1, <2>2 DEF Stakes!CommissionOf, Stakes!MulDiv
  <2>. QED BY <2>1, <2>2, <2>3, ShareAtMost
<1>. QED BY <1>8, <1>9 DEF A

\* What is shared out is at most the pool.
LEMMA RewardsOK ==
  ASSUME NEW s \in Blob, \E v \in Stakes!Active(s) : s.stake[v] > 0,
         NEW R, \A d \in Delegator : R[d] = Stakes!RewardOf(s, d)
  PROVE  /\ \A d \in Delegator : R[d] \in Nat
         /\ Stakes!Commissions(s) \in Nat
         /\ SumFunctionOnSet(R, Delegator) + Stakes!Commissions(s) <= Reward
<1> DEFINE A == Stakes!Active(s)
           G == [v \in Validator |-> Stakes!ShareOf(s, v)]
           K == [v \in Validator |-> Stakes!CommissionOf(s, v)]
           M == [d \in Delegator |-> [v \in Validator |-> Stakes!CutOf(s, d, v)]]
           Column(v) == [d \in Delegator |-> M[d][v]]
           C == [v \in A |-> SumFunctionOnSet(Column(v), Delegator)]
           H == [v \in A |-> C[v] + K[v]]
<1>1. IsFiniteSet(A) /\ A \subseteq Validator /\ IsFiniteSet(Delegator) /\ Reward \in Nat
  <2>1. A \in SUBSET Validator
    BY DEF Stakes!Active
  <2>. QED BY <2>1, StakesConstants, FS_Subset
<1>2. /\ \A v \in A : G[v] \in Nat /\ K[v] \in Nat /\ K[v] <= G[v]
      /\ SumFunctionOnSet(G, A) <= Reward
  <2>1. \A v \in Validator : G[v] = Stakes!ShareOf(s, v) /\ K[v] = Stakes!CommissionOf(s, v)
    OBVIOUS
  <2> HIDE DEF G, K
  <2>. QED BY <1>1, <2>1, SharesOK
<1>3. ASSUME NEW v \in A
      PROVE  /\ \A d \in Delegator : M[d][v] \in Nat
             /\ C[v] \in Nat /\ C[v] <= G[v] - K[v]
  <2>1. PICK n \in Nat : n = G[v] - K[v] /\ n = Stakes!ShareOf(s, v) - Stakes!CommissionOf(s, v)
    <3>1. G[v] = Stakes!ShareOf(s, v) /\ K[v] = Stakes!CommissionOf(s, v)
      BY <1>1
    <3> HIDE DEF G, K
    <3>. QED BY <1>2, <3>1
  <2>2. \A d \in Delegator : Column(v)[d] = Stakes!CutOf(s, d, v) /\ M[d][v] = Stakes!CutOf(s, d, v)
    BY <1>1
  <2>3. C[v] = SumFunctionOnSet(Column(v), Delegator)
    OBVIOUS
  <2> HIDE DEF G, K, M, C, Column, A
  <2>4. /\ \A d \in Delegator : Column(v)[d] \in Nat
        /\ SumFunctionOnSet(Column(v), Delegator) <= n
    BY <1>1, <2>1, <2>2, CutsOK
  <2>5. SumFunctionOnSet(Column(v), Delegator) \in Nat
    BY <1>1, <2>4, SumNat
  <2>. QED BY <2>1, <2>2, <2>3, <2>4, <2>5
<1>4. /\ \A d \in Delegator : R[d] = SumFunctionOnSet(M[d], A)
      /\ Stakes!Commissions(s) = SumFunctionOnSet(K, A)
  BY StakesSum DEF Stakes!RewardOf, Stakes!Commissions
<1>5. /\ \A v \in A : C[v] = SumFunctionOnSet([d \in Delegator |-> M[d][v]], Delegator)
      /\ \A v \in A : H[v] = C[v] + K[v]
  OBVIOUS
<1> HIDE DEF A, G, K, M, Column, C, H
<1>6. SumFunctionOnSet(R, Delegator) = SumFunctionOnSet(C, A)
  <2>1. Tabled(Delegator, A, M, R, C)
    BY <1>1, <1>3, <1>4, <1>5 DEF Tabled
  <2>. QED BY <2>1, SumSwap
<1>7. \A v \in A : C[v] \in Nat /\ K[v] \in Nat /\ H[v] = C[v] + K[v]
  BY <1>2, <1>3, <1>5
<1>8. SumFunctionOnSet(H, A) = SumFunctionOnSet(C, A) + SumFunctionOnSet(K, A)
  BY <1>1, <1>7, SumPlus
<1>9. \A v \in A : H[v] \in Nat /\ G[v] \in Nat /\ H[v] <= G[v]
  <2> SUFFICES ASSUME NEW v \in A PROVE H[v] \in Nat /\ G[v] \in Nat /\ H[v] <= G[v]
    OBVIOUS
  <2>1. PICK a \in Nat, b \in Nat, c \in Nat : a = C[v] /\ b = K[v] /\ c = G[v] /\ b <= c /\ a <= c - b
    BY <1>2, <1>3
  <2>. QED BY <1>7, <2>1
<1>10. SumFunctionOnSet(H, A) <= SumFunctionOnSet(G, A)
  BY <1>1, <1>9, SumAtMost
<1>11. \A d \in Delegator : R[d] \in Nat
  <2> SUFFICES ASSUME NEW d \in Delegator PROVE R[d] \in Nat
    OBVIOUS
  <2>1. \A v \in A : M[d][v] \in Nat
    BY <1>3
  <2>2. SumFunctionOnSet(M[d], A) \in Nat
    BY <1>1, <2>1, SumNat
  <2>. QED BY <1>4, <2>2
<1>12. \A v \in A : K[v] \in Nat
  BY <1>2
<1>13. \A v \in A : H[v] \in Nat
  BY <1>9
<1>14. \A v \in A : G[v] \in Nat
  BY <1>9
<1>15. SumFunctionOnSet(K, A) \in Nat
  BY <1>1, <1>12, SumNat
<1>16. SumFunctionOnSet(H, A) \in Nat
  BY <1>1, <1>13, SumNat
<1>17. SumFunctionOnSet(G, A) \in Nat
  BY <1>1, <1>14, SumNat
<1>18. SumFunctionOnSet(R, Delegator) \in Nat
  BY <1>1, <1>11, SumNat
<1>. QED BY <1>1, <1>2, <1>4, <1>6, <1>8, <1>10, <1>11, <1>15, <1>16, <1>17, <1>18

\* The books look at these fields alone.
LEMMA SameBooks ==
  ASSUME NEW s, BlobOK(s), NEW t \in Blob, t.stake = s.stake, t.shares = s.shares, t.held = s.held,
         t.slashed = s.slashed, t.jailed = s.jailed,
         \A v \in Validator : t.operator[v] = <<>> => s.operator[v] = <<>>
  PROVE  BlobOK(t) /\ \A o, dep, m : Books(s, o, dep, m) <=> Books(t, o, dep, m)
<1>1. /\ \A v \in Validator : HeldOf(t, v) = HeldOf(s, v)
      /\ \A d \in Delegator : HeldBy(t, d) = HeldBy(s, d)
  BY DEF HeldOf, HeldBy
<1>. QED BY <1>1 DEF BlobOK, Books

\* Any blob is in balance with enough rewards.
LEMMA SomeBooks ==
  ASSUME NEW s, BlobOK(s), NEW o \in Outside, NEW dep \in Outside
  PROVE  \E m \in Nat : Books(s, o, dep, m)
<1> DEFINE F == [d \in Delegator |-> HeldBy(s, d) + o[d]]
<1>1. s \in Blob /\ IsFiniteSet(Delegator)
  BY StakesConstants DEF BlobOK
<1>2. \A d \in Delegator : F[d] \in Nat /\ F[d] = HeldBy(s, d) + o[d] /\ dep[d] \in Nat
  BY <1>1, HeldNat2 DEF Outside
<1> HIDE DEF F
<1>3. PICK a \in Nat, b \in Nat, c \in Nat, e \in Nat, n \in Nat :
          /\ a = SumFunctionOnSet(F, Delegator) /\ b = SumFunctionOnSet(o, Delegator)
          /\ c = SumFunctionOnSet(s.stake, Validator) /\ e = s.slashed
          /\ n = SumFunctionOnSet(dep, Delegator)
  BY <1>1, <1>2, SumNat, StakeNat
<1>4. \A d \in Delegator : F[d] <= a
  BY <1>1, <1>2, <1>3, SumMember
<1> DEFINE m == a + b + c + e
<1>5. ASSUME NEW d \in Delegator PROVE HeldBy(s, d) + o[d] <= dep[d] + m
  <2>1. PICK x \in Nat, y \in Nat : x = F[d] /\ y = dep[d]
    BY <1>2
  <2>2. x <= y + m
    BY <1>4, <2>1
  <2>. QED BY <1>2, <2>1, <2>2
<1>6. b + e + c <= n + m
  OBVIOUS
<1>7. m \in Nat
  OBVIOUS
<1> HIDE DEF m
<1>8. Books(s, o, dep, m)
  BY <1>3, <1>5, <1>6 DEF Books
<1>. QED BY <1>7, <1>8

LEMMA InOut ==
  ASSUME NEW o \in Outside, NEW d \in Delegator, NEW n \in Nat
  PROVE  /\ Plus(o, d, n) \in Outside /\ n <= Plus(o, d, n)[d]
         /\ Plus(o, d, n)[d] = o[d] + n /\ \A x \in Delegator \ {d} : Plus(o, d, n)[x] = o[x]
         /\ Minus(Plus(o, d, n), d, n) = o
<1>1. o[d] \in Nat /\ o[d] + n \in Nat /\ n <= o[d] + n /\ o[d] + n - n = o[d]
  BY DEF Outside
<1>2. PICK i : i = Plus(o, d, n)
  OBVIOUS
<1>3. i \in Outside /\ i[d] = o[d] + n /\ \A x \in Delegator \ {d} : i[x] = o[x]
  BY <1>1, <1>2 DEF Outside, Plus
<1>4. PICK j : j = Minus(i, d, n)
  OBVIOUS
<1>5. j \in Outside /\ \A x \in Delegator : j[x] = o[x]
  BY <1>1, <1>3, <1>4 DEF Outside, Minus
<1>6. j = o
  BY <1>5 DEF Outside
<1>. QED BY <1>1, <1>2, <1>3, <1>4, <1>6

\* A deposit from outside.
LEMMA StakeOK ==
  ASSUME NEW s, BlobOK(s), NEW p \in Outside, NEW dep \in Outside, NEW m \in Nat,
         Books(s, Own(s, p), dep, m),
         NEW d \in Delegator, NEW v \in Validator, NEW n \in Nat,
         v \notin s.jailed \/ s.shares[v] = 0, s.operator[v] # <<>>,
         NEW t, t = Stakes!Deposit(s, d, v, n)
  PROVE  BlobOK(t) /\ Books(t, Own(t, p), Plus(dep, d, n), m)
<1>1. PICK o, i, e : /\ o = Own(s, p) /\ i = Plus(o, d, n) /\ e = Plus(dep, d, n)
  OBVIOUS
<1>2. s \in Blob
  BY DEF BlobOK
<1>3. o \in Outside
  BY <1>1, <1>2, OwnType
<1>4. i \in Outside /\ n <= i[d] /\ Minus(i, d, n) = o /\ e \in Outside
  BY <1>1, <1>3, InOut
<1>5. Books(s, i, e, m)
  BY <1>1, <1>2, <1>3, BooksIn
<1>6. BlobOK(t) /\ Books(t, Minus(i, d, n), e, m) /\ t.queue = s.queue /\ t.locked = s.locked
  BY <1>4, <1>5, DepositOK
<1>7. Own(t, p) = o
  BY <1>1, <1>6 DEF Own
<1>. QED BY <1>1, <1>4, <1>6, <1>7

Created(s, d, v, n) ==
    [s EXCEPT !.operator[v] = <<d>>, !.stake[v] = n, !.shares[v] = n, !.held[<<d, v>>] = n]

LEMMA CreateOK ==
  ASSUME NEW s, BlobOK(s), NEW p \in Outside, NEW dep \in Outside, NEW m \in Nat,
         Books(s, Own(s, p), dep, m),
         NEW d \in Delegator, NEW v \in Validator, NEW n \in Nat, s.operator[v] = <<>>,
         NEW t, t = Created(s, d, v, n)
  PROVE  BlobOK(t) /\ Books(t, Own(t, p), Plus(dep, d, n), m)
<1>1. s \in Blob
  BY DEF BlobOK
<1>2. s.shares[v] = 0 /\ s.stake[v] = 0 /\ s.held[<<d, v>>] = 0
  <2>1. s.shares[v] = 0 /\ s.stake[v] <= s.shares[v] /\ s.shares[v] = HeldOf(s, v) /\ s.stake[v] \in Nat
    BY <1>1 DEF BlobOK, Blob
  <2>2. s.held[<<d, v>>] <= HeldOf(s, v) /\ s.held[<<d, v>>] \in Nat
    BY <1>1, HeldNat2
  <2>. QED BY <2>1, <2>2
<1>3. PICK f : f = [s.operator EXCEPT ![v] = <<d>>]
  OBVIOUS
<1>4. f \in [Validator -> Seq(Delegator)] /\ f[v] # <<>> /\ \A w \in Validator \ {v} : f[w] = s.operator[w]
  BY <1>1, <1>3 DEF Blob
<1>5. PICK u : u = [s EXCEPT !.operator = f]
  OBVIOUS
<1>6. /\ u \in Blob /\ u.stake = s.stake /\ u.shares = s.shares /\ u.held = s.held
      /\ u.slashed = s.slashed /\ u.jailed = s.jailed /\ u.operator = f
      /\ u.queue = s.queue /\ u.locked = s.locked
  BY <1>1, <1>4, <1>5 DEF Blob
<1>7. BlobOK(u) /\ Books(u, Own(u, p), dep, m)
  <2>1. Own(u, p) = Own(s, p)
    BY <1>6 DEF Own
  <2>2. \A w \in Validator : u.operator[w] = <<>> => s.operator[w] = <<>>
    BY <1>4, <1>6
  <2>. QED BY <1>6, <2>1, <2>2, SameBooks
<1>8. t = Stakes!Deposit(u, d, v, n)
  <2>1. Stakes!Deposit(u, d, v, n) = [u EXCEPT !.stake[v] = n, !.shares[v] = n, !.held[<<d, v>>] = n]
    <3>1. Stakes!AmountToShares(u, v, n) = n
      BY <1>2, <1>6 DEF Stakes!AmountToShares
    <3>2. u.stake[v] + n = n /\ u.shares[v] + n = n /\ u.held[<<d, v>>] + n = n
      BY <1>2, <1>6
    <3>. QED BY <3>1, <3>2 DEF Stakes!Deposit
  <2>. QED BY <1>1, <1>3, <1>5, <2>1 DEF Blob, Created
<1>9. u.shares[v] = 0 /\ u.operator[v] # <<>>
  BY <1>2, <1>4, <1>6
<1>. QED BY <1>7, <1>8, <1>9, StakeOK

LEMMA UnstakeOK ==
  ASSUME NEW s, BlobOK(s), NEW p \in Outside, NEW dep \in Outside, NEW m \in Nat,
         Books(s, Own(s, p), dep, m),
         NEW d \in Delegator, NEW v \in Validator, NEW n \in 1 .. s.held[<<d, v>>],
         NEW t, t = Stakes!Unbond(s, d, v, n)
  PROVE  BlobOK(t) /\ Books(t, Own(t, p), dep, m)
<1>1. PICK a, w, o, i : /\ a = Stakes!SharesToAmount(s, v, n) /\ w = Stakes!Withdraw(s, d, v, n)
                        /\ o = Own(s, p) /\ i = Plus(o, d, a)
  OBVIOUS
<1>2. s \in Blob /\ s.epoch \in Nat /\ s.queue \in Seq(Unbonding)
  BY DEF BlobOK, Blob
<1>3. o \in Outside
  BY <1>1, <1>2, OwnType
<1>4. /\ a \in Nat /\ BlobOK(w) /\ Books(w, i, dep, m)
      /\ w.queue = s.queue /\ w.locked = s.locked
  BY <1>1, <1>3, WithdrawOK
<1>5. PICK e : e = [to |-> d, validator |-> v, amount |-> a, matures |-> s.epoch + UnbondingEpochs]
  OBVIOUS
<1>6. e \in Unbonding /\ e.to = d /\ e.amount = a
  BY <1>2, <1>4, <1>5, StakesConstants DEF Unbonding
<1>7. PICK r : r = Append(s.queue, e) /\ r \in Seq(Unbonding)
  <2>1. PICK q \in Seq(Unbonding) : q = s.queue
    BY <1>2
  <2>2. Append(q, e) \in Seq(Unbonding)
    BY <1>6
  <2>. QED BY <2>1, <2>2
<1>8. w \in Blob
  BY <1>4 DEF BlobOK
<1>9. t = [w EXCEPT !.queue = r]
  <2>1. t = [w EXCEPT !.queue = Append(w.queue, e)]
    BY <1>1, <1>5 DEF Stakes!Unbond
  <2>. QED BY <1>4, <1>7, <2>1
<1>10. /\ t \in Blob /\ t.stake = w.stake /\ t.shares = w.shares /\ t.held = w.held
       /\ t.slashed = w.slashed /\ t.jailed = w.jailed /\ t.operator = w.operator
       /\ t.queue = r /\ t.locked = w.locked
  BY <1>7, <1>8, <1>9 DEF Blob
<1>11. BlobOK(t) /\ Books(t, i, dep, m)
  BY <1>4, <1>10, SameBooks
<1>12. Own(t, p) = i
  <2>1. Owed(r, d) = Owed(s.queue, d) + a /\ \A x \in Delegator \ {d} : Owed(r, x) = Owed(s.queue, x)
    BY <1>2, <1>6, <1>7, OwedAppend
  <2>2. \A x \in Delegator : p[x] \in Nat /\ s.locked[x] \in Nat /\ Owed(s.queue, x) \in Nat
    BY <1>2, OwedNat DEF Outside, Blob
  <2>3. \A x \in Delegator : Own(t, p)[x] = p[x] + s.locked[x] + Owed(r, x)
    BY <1>4, <1>10 DEF Own
  <2>4. \A x \in Delegator : o[x] = p[x] + s.locked[x] + Owed(s.queue, x)
    BY <1>1 DEF Own
  <2>5. i \in Outside /\ i[d] = o[d] + a /\ \A x \in Delegator \ {d} : i[x] = o[x]
    BY <1>1, <1>3, <1>4, InOut
  <2>6. Own(t, p)[d] = i[d]
    BY <1>4, <2>1, <2>2, <2>3, <2>4, <2>5
  <2>7. \A x \in Delegator : Own(t, p)[x] = i[x]
    BY <2>1, <2>3, <2>4, <2>5, <2>6
  <2>. QED BY <1>10, <2>5, <2>7, OwnType DEF Outside
<1>. QED BY <1>11, <1>12

LEMMA RedelegateOK ==
  ASSUME NEW s, BlobOK(s), NEW p \in Outside, NEW dep \in Outside, NEW m \in Nat,
         Books(s, Own(s, p), dep, m),
         NEW d \in Delegator, NEW v \in Validator, NEW y \in Validator, NEW n \in 1 .. s.held[<<d, v>>],
         s.operator[y] # <<>>, y \notin s.jailed,
         NEW t, t = Stakes!Move(s, d, v, y, n)
  PROVE  BlobOK(t) /\ Books(t, Own(t, p), dep, m)
<1>1. PICK a, w, o, i : /\ a = Stakes!SharesToAmount(s, v, n) /\ w = Stakes!Withdraw(s, d, v, n)
                        /\ o = Own(s, p) /\ i = Plus(o, d, a)
  OBVIOUS
<1>2. s \in Blob
  BY DEF BlobOK
<1>3. o \in Outside
  BY <1>1, <1>2, OwnType
<1>4. /\ a \in Nat /\ BlobOK(w) /\ Books(w, i, dep, m)
      /\ w.queue = s.queue /\ w.locked = s.locked /\ w.jailed = s.jailed /\ w.operator = s.operator
  BY <1>1, <1>3, WithdrawOK
<1>5. i \in Outside /\ a <= i[d] /\ Minus(i, d, a) = o
  BY <1>1, <1>3, <1>4, InOut
<1>6. t = Stakes!Deposit(w, d, y, a)
  BY <1>1 DEF Stakes!Move
<1>7. y \notin w.jailed /\ w.operator[y] # <<>>
  BY <1>4
<1>8. BlobOK(t) /\ Books(t, o, dep, m) /\ t.queue = w.queue /\ t.locked = w.locked
  BY <1>4, <1>5, <1>6, <1>7, DepositOK
<1>9. Own(t, p) = o
  BY <1>1, <1>4, <1>8 DEF Own
<1>. QED BY <1>8, <1>9

Claimed(s, d, n) == [s EXCEPT !.locked[d] = @ - n]

LEMMA ClaimOK ==
  ASSUME NEW s, BlobOK(s), NEW p \in Outside, NEW dep \in Outside, NEW m \in Nat,
         Books(s, Own(s, p), dep, m),
         NEW d \in Delegator, NEW n \in 1 .. s.locked[d],
         NEW t, t = Claimed(s, d, n), NEW z, z = Plus(p, d, n)
  PROVE  z \in Outside /\ BlobOK(t) /\ Books(t, Own(t, z), dep, m)
<1>1. s \in Blob /\ s.locked[d] \in Nat /\ s.locked \in [Delegator -> Nat] /\ p[d] \in Nat
  BY DEF BlobOK, Blob, Outside
<1>2. n \in Nat /\ s.locked[d] - n \in Nat
  BY <1>1
<1>3. PICK l : l = [s.locked EXCEPT ![d] = @ - n]
  OBVIOUS
<1>4. l \in [Delegator -> Nat] /\ l[d] = s.locked[d] - n /\ \A x \in Delegator \ {d} : l[x] = s.locked[x]
  BY <1>1, <1>2, <1>3
<1>5. z \in Outside /\ z[d] = p[d] + n /\ \A x \in Delegator \ {d} : z[x] = p[x]
  BY <1>1, <1>2 DEF Outside, Plus
<1>6. /\ t \in Blob /\ t.stake = s.stake /\ t.shares = s.shares /\ t.held = s.held
      /\ t.slashed = s.slashed /\ t.jailed = s.jailed /\ t.operator = s.operator
      /\ t.queue = s.queue /\ t.locked = l
  <2>1. t = [s EXCEPT !.locked = l]
    BY <1>1, <1>3 DEF Blob, Claimed
  <2>. QED BY <1>1, <1>4, <2>1 DEF Blob
<1>7. BlobOK(t) /\ Books(t, Own(s, p), dep, m)
  <2>1. PICK u : u = t
    OBVIOUS
  <2>2. /\ u \in Blob /\ u.stake = s.stake /\ u.shares = s.shares /\ u.held = s.held
        /\ u.slashed = s.slashed /\ u.jailed = s.jailed
        /\ \A v \in Validator : u.operator[v] = <<>> => s.operator[v] = <<>>
    BY <1>6, <2>1
  <2>3. BlobOK(u) /\ Books(u, Own(s, p), dep, m)
    BY <2>2, SameBooks
  <2>. QED BY <2>1, <2>3
<1>8. Own(t, z) = Own(s, p)
  <2>1. l[d] \in Nat /\ z[d] + l[d] = p[d] + s.locked[d]
    BY <1>1, <1>2, <1>4, <1>5
  <2>2. \A x \in Delegator : z[x] + l[x] + Owed(s.queue, x) = p[x] + s.locked[x] + Owed(s.queue, x)
    BY <1>4, <1>5, <2>1
  <2>. QED BY <1>6, <2>2 DEF Own
<1>. QED BY <1>5, <1>7, <1>8

\* The pool is shared out: the founder's part and the commissions are paid at once.
LEMMA DistributeOK ==
  ASSUME NEW s, BlobOK(s), NEW p \in Outside, NEW dep \in Outside, NEW m \in Nat,
         Books(s, Own(s, p), dep, m), \E v \in Stakes!Active(s) : s.stake[v] > 0,
         NEW l, l = [d \in Delegator |-> IF d = Founder THEN s.locked[d]
                                         ELSE s.locked[d] + Stakes!RewardOf(s, d)],
         NEW t, t = [s EXCEPT !.locked = l],
         NEW z, z = [p EXCEPT ![Founder] = @ + Stakes!RewardOf(s, Founder) + Stakes!Commissions(s)]
  PROVE  z \in Outside /\ BlobOK(t) /\ Books(t, Own(t, z), dep, m + Reward)
<1> DEFINE R == [d \in Delegator |-> Stakes!RewardOf(s, d)]
           K == [d \in Delegator |-> IF d = Founder THEN R[d] + Stakes!Commissions(s) ELSE R[d]]
           o == Own(s, p)
           q == Own(t, z)
<1>1. s \in Blob /\ IsFiniteSet(Delegator) /\ Founder \in Delegator /\ Reward \in Nat
  BY StakesConstants DEF BlobOK
<1>2. \A d \in Delegator : R[d] = Stakes!RewardOf(s, d)
  OBVIOUS
<1>3. PICK c : c = Stakes!Commissions(s)
  OBVIOUS
<1>4. \A d \in Delegator : K[d] = IF d = Founder THEN R[d] + c ELSE R[d]
  BY <1>3
<1> HIDE DEF R, K
<1>5. c \in Nat /\ (\A d \in Delegator : R[d] \in Nat) /\ SumFunctionOnSet(R, Delegator) + c <= Reward
  BY <1>1, <1>2, <1>3, RewardsOK
<1>6. /\ \A d \in Delegator : s.locked[d] \in Nat /\ p[d] \in Nat /\ Owed(s.queue, d) \in Nat
                              /\ dep[d] \in Nat /\ HeldBy(s, d) \in Nat
  BY <1>1, OwedNat, HeldNat2 DEF Blob, Outside
<1>7. /\ l \in [Delegator -> Nat]
      /\ \A d \in Delegator : l[d] = IF d = Founder THEN s.locked[d] ELSE s.locked[d] + R[d]
  <2>1. \A d \in Delegator : l[d] = IF d = Founder THEN s.locked[d] ELSE s.locked[d] + R[d]
    BY <1>2
  <2>2. \A d \in Delegator : l[d] \in Nat
    BY <1>5, <1>6, <2>1
  <2>. QED BY <2>1, <2>2
<1>8. /\ z \in Outside
      /\ \A d \in Delegator : z[d] = IF d = Founder THEN p[d] + R[d] + c ELSE p[d]
  <2>1. z = [p EXCEPT ![Founder] = @ + R[Founder] + c]
    BY <1>1, <1>2, <1>3
  <2>2. p[Founder] + R[Founder] + c \in Nat
    BY <1>1, <1>5, <1>6
  <2>. QED BY <1>1, <2>1, <2>2 DEF Outside
<1>9. PICK u : /\ u = t /\ u \in Blob /\ u.stake = s.stake /\ u.shares = s.shares /\ u.held = s.held
               /\ u.slashed = s.slashed /\ u.jailed = s.jailed /\ u.operator = s.operator
               /\ u.queue = s.queue /\ u.locked = l
  <2>1. PICK f, u : f = l /\ u = t
    OBVIOUS
  <2>2. f \in [Delegator -> Nat] /\ u = [s EXCEPT !.locked = f]
    BY <1>7, <2>1
  <2>3. /\ u \in Blob /\ u.stake = s.stake /\ u.shares = s.shares /\ u.held = s.held
        /\ u.slashed = s.slashed /\ u.jailed = s.jailed /\ u.operator = s.operator
        /\ u.queue = s.queue /\ u.locked = f
    BY <1>1, <2>2 DEF Blob
  <2>. QED BY <2>1, <2>3
<1>10. BlobOK(u)
  <2>1. \A v \in Validator : u.operator[v] = <<>> => s.operator[v] = <<>>
    BY <1>9
  <2>. QED BY <1>9, <2>1, SameBooks
<1>11. \A d \in Delegator : /\ o[d] \in Nat /\ q[d] \in Nat /\ K[d] \in Nat /\ q[d] = o[d] + K[d]
  <2> SUFFICES ASSUME NEW d \in Delegator
               PROVE  o[d] \in Nat /\ q[d] \in Nat /\ K[d] \in Nat /\ q[d] = o[d] + K[d]
    OBVIOUS
  <2>1. o[d] = p[d] + s.locked[d] + Owed(s.queue, d)
    BY DEF Own
  <2>2. q[d] = z[d] + l[d] + Owed(s.queue, d)
    BY <1>9 DEF Own
  <2>3. PICK x \in Nat, y \in Nat, w \in Nat, r \in Nat :
            x = p[d] /\ y = s.locked[d] /\ w = Owed(s.queue, d) /\ r = R[d]
    BY <1>5, <1>6
  <2> HIDE DEF o, q
  <2>4. CASE d = Founder
    <3>1. z[d] = x + r + c /\ l[d] = y /\ K[d] = r + c
      BY <1>4, <1>7, <1>8, <2>3, <2>4
    <3>2. o[d] = x + y + w /\ q[d] = (x + r + c) + y + w
      BY <2>1, <2>2, <2>3, <3>1
    <3>. QED BY <1>5, <3>1, <3>2
  <2>5. CASE d # Founder
    <3>1. z[d] = x /\ l[d] = y + r /\ K[d] = r
      BY <1>4, <1>7, <1>8, <2>3, <2>5
    <3>2. o[d] = x + y + w /\ q[d] = x + (y + r) + w
      BY <2>1, <2>2, <2>3, <3>1
    <3>. QED BY <3>1, <3>2
  <2>. QED BY <2>4, <2>5
<1>12. /\ \A d \in Delegator : HeldBy(s, d) + o[d] <= dep[d] + m
       /\ SumFunctionOnSet(o, Delegator) + s.slashed + SumFunctionOnSet(s.stake, Validator)
            <= SumFunctionOnSet(dep, Delegator) + m
  BY DEF Books
<1>13. SumFunctionOnSet(dep, Delegator) \in Nat /\ SumFunctionOnSet(s.stake, Validator) \in Nat
       /\ s.slashed \in Nat
  BY <1>1, StakeNat
<1> HIDE DEF o, q
<1>14. ASSUME NEW d \in Delegator PROVE HeldBy(u, d) + q[d] <= dep[d] + (m + Reward)
  <2>1. R[d] <= SumFunctionOnSet(R, Delegator) /\ SumFunctionOnSet(R, Delegator) \in Nat
    BY <1>1, <1>5, SumMember, SumNat
  <2>2. K[d] <= Reward
    BY <1>1, <1>4, <1>5, <2>1
  <2>3. HeldBy(u, d) = HeldBy(s, d)
    BY <1>9 DEF HeldBy
  <2>4. PICK h \in Nat, x \in Nat, y \in Nat, k \in Nat :
            h = HeldBy(s, d) /\ x = o[d] /\ y = dep[d] /\ k = K[d]
    BY <1>6, <1>11
  <2>5. h + x <= y + m /\ k <= Reward
    BY <1>12, <2>2, <2>4
  <2>6. h + (x + k) <= y + (m + Reward)
    BY <1>1, <2>5
  <2>. QED BY <1>11, <2>3, <2>4, <2>6
<1>15. SumFunctionOnSet(q, Delegator) + u.slashed + SumFunctionOnSet(u.stake, Validator)
         <= SumFunctionOnSet(dep, Delegator) + (m + Reward)
  <2>1. \A d \in Delegator : o[d] \in Nat /\ K[d] \in Nat /\ q[d] = o[d] + K[d]
    BY <1>11
  <2>2. SumFunctionOnSet(q, Delegator) = SumFunctionOnSet(o, Delegator) + SumFunctionOnSet(K, Delegator)
    BY <1>1, <2>1, SumPlus
  <2>3. SumFunctionOnSet(K, Delegator) + R[Founder] = SumFunctionOnSet(R, Delegator) + K[Founder]
    <3>1. \A d \in Delegator : R[d] \in Nat /\ K[d] \in Nat
      BY <1>5, <1>11
    <3>2. \A d \in Delegator \ {Founder} : K[d] = R[d]
      BY <1>4
    <3>. QED BY <1>1, <3>1, <3>2, SumChange
  <2>4. K[Founder] = R[Founder] + c
    BY <1>1, <1>4
  <2>5. \A d \in Delegator : o[d] \in Nat
    BY <1>11
  <2>6. \A d \in Delegator : K[d] \in Nat
    BY <1>11
  <2>7. \A d \in Delegator : R[d] \in Nat
    BY <1>5
  <2>8. SumFunctionOnSet(o, Delegator) \in Nat
    BY <1>1, <2>5, SumNat
  <2>9. SumFunctionOnSet(K, Delegator) \in Nat
    BY <1>1, <2>6, SumNat
  <2>10. SumFunctionOnSet(R, Delegator) \in Nat /\ R[Founder] \in Nat
    BY <1>1, <2>7, SumNat
  <2>11. PICK so \in Nat, sk \in Nat, sr \in Nat, r \in Nat, sd \in Nat, ss \in Nat, x \in Nat :
            /\ so = SumFunctionOnSet(o, Delegator) /\ sk = SumFunctionOnSet(K, Delegator)
            /\ sr = SumFunctionOnSet(R, Delegator) /\ r = R[Founder]
            /\ sd = SumFunctionOnSet(dep, Delegator) /\ ss = SumFunctionOnSet(s.stake, Validator)
            /\ x = s.slashed
    BY <1>13, <2>8, <2>9, <2>10
  <2>12. sk + r = sr + (r + c) /\ sr + c <= Reward /\ so + x + ss <= sd + m
    BY <1>5, <1>12, <2>3, <2>4, <2>11
  <2>13. (so + sk) + x + ss <= sd + (m + Reward)
    BY <1>1, <1>5, <2>12
  <2>. QED BY <1>9, <2>2, <2>11, <2>13
<1>16. Books(u, q, dep, m + Reward)
  BY <1>14, <1>15 DEF Books
<1>. QED BY <1>8, <1>9, <1>10, <1>16 DEF q

EpochEnded(s) ==
    [s EXCEPT !.epoch = @ + 1,
              !.queue = SubSeq(@, Cardinality(Stakes!Matured(s)) + 1, Len(@))]
MaturedPaid(s, p) == [d \in Delegator |-> p[d] + Stakes!MaturedOf(s, d)]

\* An epoch ends: what has matured is paid.
LEMMA EpochOK ==
  ASSUME NEW s, BlobOK(s), NEW p \in Outside, NEW dep \in Outside, NEW m \in Nat,
         Books(s, Own(s, p), dep, m),
         NEW t, t = EpochEnded(s), NEW z, z = MaturedPaid(s, p)
  PROVE  z \in Outside /\ BlobOK(t) /\ Books(t, Own(t, z), dep, m)
<1> DEFINE q == s.queue
           F == [i \in DOMAIN q |-> q[i].amount]
           Out(d) == SumFunctionOnSet(F, {i \in 1 .. Cardinality(Stakes!Matured(s)) : q[i].to = d})
<1>1. s \in Blob /\ q \in Seq(Unbonding) /\ s.epoch \in Nat /\ s.epoch + 1 \in Nat
  BY DEF BlobOK, Blob
<1>2. PICK k \in 0 .. Len(q) : k = Cardinality(Stakes!Matured(s)) /\ Stakes!Matured(s) = 1 .. k
  BY <1>1, MaturedFirst
<1>3. PICK r : r = SubSeq(q, k + 1, Len(q))
  OBVIOUS
<1>4. \A d : /\ r \in Seq(Unbonding) /\ Owed(q, d) = Out(d) + Owed(r, d) /\ Out(d) \in Nat
  BY <1>1, <1>2, <1>3, OwedDrop
<1>5. \A d : Stakes!MaturedOf(s, d) = Out(d)
  BY <1>2, StakesSum DEF Stakes!MaturedOf, Stakes!Amount
<1> HIDE DEF Out
<1>6. PICK u : /\ u = t /\ u \in Blob /\ u.stake = s.stake /\ u.shares = s.shares /\ u.held = s.held
               /\ u.slashed = s.slashed /\ u.jailed = s.jailed /\ u.operator = s.operator
               /\ u.queue = r /\ u.locked = s.locked
  <2>1. PICK e \in Nat : e = s.epoch + 1
    BY <1>1
  <2>2. t = [s EXCEPT !.epoch = e, !.queue = r]
    BY <1>2, <1>3, <2>1 DEF EpochEnded
  <2>3. r \in Seq(Unbonding)
    BY <1>4
  <2>4. PICK u : u = t
    OBVIOUS
  <2>5. u = [s EXCEPT !.epoch = e, !.queue = r]
    BY <2>2, <2>4
  <2> HIDE DEF q
  <2>6. /\ u \in Blob /\ u.stake = s.stake /\ u.shares = s.shares /\ u.held = s.held
        /\ u.slashed = s.slashed /\ u.jailed = s.jailed /\ u.operator = s.operator
        /\ u.queue = r /\ u.locked = s.locked
    BY <1>1, <2>3, <2>5 DEF Blob
  <2>. QED BY <2>4, <2>6
<1>7. BlobOK(u) /\ Books(u, Own(s, p), dep, m)
  <2>1. \A v \in Validator : u.operator[v] = <<>> => s.operator[v] = <<>>
    BY <1>6
  <2>2. u \in Blob /\ u.stake = s.stake /\ u.shares = s.shares /\ u.held = s.held
        /\ u.slashed = s.slashed /\ u.jailed = s.jailed
    BY <1>6
  <2> HIDE DEF q, F
  <2>. QED BY <2>1, <2>2, SameBooks
<1>8. \A d \in Delegator : p[d] \in Nat /\ s.locked[d] \in Nat /\ Owed(r, d) \in Nat /\ Out(d) \in Nat
  BY <1>1, <1>4, OwedNat DEF Outside, Blob
<1>9. z \in Outside /\ \A d \in Delegator : z[d] = p[d] + Out(d)
  BY <1>5, <1>8 DEF Outside, MaturedPaid
<1>10. Own(u, z) = Own(s, p)
  <2>1. \A d \in Delegator : z[d] + s.locked[d] + Owed(r, d) = p[d] + s.locked[d] + Owed(q, d)
    <3> SUFFICES ASSUME NEW d \in Delegator
                 PROVE  z[d] + s.locked[d] + Owed(r, d) = p[d] + s.locked[d] + Owed(q, d)
      OBVIOUS
    <3>1. PICK x \in Nat, y \in Nat, w \in Nat, v \in Nat :
              x = p[d] /\ y = s.locked[d] /\ w = Owed(r, d) /\ v = Out(d)
      BY <1>8
    <3>2. (x + v) + y + w = x + y + (v + w)
      OBVIOUS
    <3>. QED BY <1>4, <1>9, <3>1, <3>2
  <2>. QED BY <1>6, <2>1 DEF Own
<1>. QED BY <1>6, <1>7, <1>9, <1>10

ReadingOK(r) == r # <<>> => BlobOK(r[1].blob) /\ r[1].validator \in Validator

StakesInv ==
    /\ BlobOK(k_blob) /\ ReadingOK(k_reading)
    /\ k_paid \in Outside /\ k_deposited \in Outside /\ k_minted \in Nat
    /\ k_lost \in BOOLEAN /\ k_steps \in 0 .. StakeSteps
    /\ ~k_lost => Books(k_blob, Own(k_blob, k_paid), k_deposited, k_minted)

LEMMA StakesInit == Stakes!Init => StakesInv
<1> SUFFICES ASSUME Stakes!Init PROVE StakesInv
  OBVIOUS
<1>1. IsFiniteSet(Delegator) /\ IsFiniteSet(Validator) /\ StakeSteps \in Nat
  BY StakesConstants
<1>2. PICK s, p, q : s = k_blob /\ p = k_paid /\ q = k_deposited
  OBVIOUS
<1>3. /\ p \in Outside /\ q \in Outside /\ \A d \in Delegator : p[d] = 0 /\ q[d] = 0
      /\ k_minted = 0 /\ k_reading = <<>> /\ k_lost = FALSE /\ k_steps = 0
  BY <1>2 DEF Stakes!Init, Stakes!Nothing, Outside
<1>4. /\ s.stake = [v \in Validator |-> 0] /\ s.shares = [v \in Validator |-> 0]
      /\ s.operator = [v \in Validator |-> <<>>]
      /\ s.jailed = {} /\ s.held = [x \in Delegator \X Validator |-> 0]
      /\ s.queue = <<>> /\ s.slashed = 0 /\ s.locked = [d \in Delegator |-> 0]
  BY <1>2 DEF Stakes!Init, Stakes!Nothing
<1>5. s \in Blob
  BY <1>2 DEF Stakes!Init, Stakes!Nothing, Blob
<1>6. ASSUME NEW v \in Validator PROVE HeldOf(s, v) = 0
  <2> DEFINE F == [d \in Delegator |-> s.held[<<d, v>>]]
  <2>1. \A d \in Delegator : F[d] = 0
    BY <1>4
  <2> HIDE DEF F
  <2>2. SumFunctionOnSet(F, Delegator) = 0
    BY <1>1, <2>1, SumZero
  <2>. QED BY <2>2 DEF HeldOf, F
<1>7. ASSUME NEW d \in Delegator PROVE HeldBy(s, d) = 0
  <2> DEFINE F == [v \in Validator |-> s.held[<<d, v>>]]
  <2>1. \A v \in Validator : F[v] = 0
    BY <1>4
  <2> HIDE DEF F
  <2>2. SumFunctionOnSet(F, Validator) = 0
    BY <1>1, <2>1, SumZero
  <2>. QED BY <2>2 DEF HeldBy, F
<1>8. BlobOK(s)
  BY <1>4, <1>5, <1>6 DEF BlobOK
<1>9. ASSUME NEW d \in Delegator PROVE Owed(s.queue, d) = 0
  <2>1. {i \in DOMAIN s.queue : s.queue[i].to = d} = {}
    BY <1>4
  <2>. QED BY <2>1, SumEmpty DEF Owed
<1>10. PICK o : o = Own(s, p)
  OBVIOUS
<1>11. \A d \in Delegator : o[d] = 0
  BY <1>3, <1>4, <1>9, <1>10 DEF Own
<1>12. /\ SumFunctionOnSet(o, Delegator) = 0 /\ SumFunctionOnSet(q, Delegator) = 0
  BY <1>1, <1>3, <1>11, SumZero
<1>13. SumFunctionOnSet(s.stake, Validator) = 0
  <2>1. \A v \in Validator : s.stake[v] = 0
    BY <1>4
  <2>. QED BY <1>1, <2>1, SumZero
<1>14. Books(s, o, q, 0)
  BY <1>3, <1>4, <1>7, <1>11, <1>12, <1>13 DEF Books
<1>15. Books(k_blob, Own(k_blob, k_paid), k_deposited, k_minted)
  BY <1>2, <1>3, <1>10, <1>14
<1>16. BlobOK(k_blob) /\ k_paid \in Outside /\ k_deposited \in Outside
  BY <1>2, <1>3, <1>8
<1>17. k_minted \in Nat /\ k_lost \in BOOLEAN /\ k_steps \in 0 .. StakeSteps /\ ReadingOK(k_reading)
  <2>1. ReadingOK(k_reading)
    BY <1>3 DEF ReadingOK
  <2>2. k_lost \in BOOLEAN
    BY <1>3
  <2>3. k_minted \in Nat /\ k_steps \in 0 .. StakeSteps
    BY <1>1, <1>3
  <2>. QED BY <2>1, <2>2, <2>3
<1>. QED BY <1>15, <1>16, <1>17 DEF StakesInv

\* What an operation leaves of the invariant to show.
LEMMA StakesKept ==
  ASSUME StakesInv, Stakes!Bounded, k_reading' = k_reading, k_lost' = k_lost,
         NEW t, t = k_blob', NEW z \in Outside, z = k_paid', NEW e \in Outside, e = k_deposited',
         NEW g \in Nat, k_minted' = k_minted + g,
         \A m \in Nat : Books(k_blob, Own(k_blob, k_paid), k_deposited, m)
            => BlobOK(t) /\ Books(t, Own(t, z), e, m + g)
  PROVE  StakesInv'
<1>1. k_steps' \in 0 .. StakeSteps
  BY StakesConstants DEF StakesInv, Stakes!Bounded
<1>2. BlobOK(t)
  <2>1. PICK s, p : s = k_blob /\ p = k_paid
    OBVIOUS
  <2>2. BlobOK(s) /\ p \in Outside /\ k_deposited \in Outside
    BY <2>1 DEF StakesInv
  <2>3. Own(s, p) \in Outside
    BY <2>2, OwnType DEF BlobOK
  <2>4. \E m \in Nat : Books(s, Own(s, p), k_deposited, m)
    BY <2>2, <2>3, SomeBooks
  <2>. QED BY <2>1, <2>4
<1>3. ~k_lost => Books(t, Own(t, z), e, k_minted + g)
  BY DEF StakesInv
<1>4. k_minted + g \in Nat /\ ReadingOK(k_reading) /\ k_lost \in BOOLEAN
  BY DEF StakesInv
<1>5. PICK n \in Nat : n = k_minted + g
  BY <1>4
<1>6. /\ BlobOK(k_blob') /\ ReadingOK(k_reading') /\ k_paid' \in Outside /\ k_deposited' \in Outside
      /\ k_minted' \in Nat /\ k_lost' \in BOOLEAN
  BY <1>2, <1>4
<1>7. ~k_lost' => Books(k_blob', Own(k_blob', k_paid'), k_deposited', k_minted')
  BY <1>3
<1>. QED BY <1>1, <1>6, <1>7 DEF StakesInv

LEMMA StakesFacts ==
  ASSUME StakesInv
  PROVE  /\ BlobOK(k_blob) /\ k_paid \in Outside /\ k_deposited \in Outside /\ k_minted \in Nat
         /\ k_blob.held \in [Delegator \X Validator -> Nat] /\ k_blob.locked \in [Delegator -> Nat]
         /\ \A n \in Nat, d \in Delegator : Plus(k_deposited, d, n) \in Outside
         /\ StakeAmounts \subseteq Nat
<1>1. BlobOK(k_blob) /\ k_paid \in Outside /\ k_deposited \in Outside /\ k_minted \in Nat
  BY DEF StakesInv
<1>2. k_blob.held \in [Delegator \X Validator -> Nat] /\ k_blob.locked \in [Delegator -> Nat]
  BY <1>1 DEF BlobOK, Blob
<1>. QED BY <1>1, <1>2, InOut, StakesConstants

LEMMA OperateStep ==
  ASSUME StakesInv, NEW d \in Delegator, Stakes!Operate(d) PROVE StakesInv'
<1>1. PICK s, p, dep : s = k_blob /\ p = k_paid /\ dep = k_deposited
  OBVIOUS
<1>2. PICK t, z, e : t = k_blob' /\ z = k_paid' /\ e = k_deposited'
  OBVIOUS
<1>3. /\ BlobOK(s) /\ p \in Outside /\ dep \in Outside /\ k_minted \in Nat
      /\ \A n \in Nat : Plus(dep, d, n) \in Outside
  BY <1>1, StakesFacts
<1>4. ASSUME NEW v \in Validator, NEW n \in StakeAmounts, Stakes!CreateValidator(d, v, n) PROVE StakesInv'
  <2>1. /\ s.operator[v] = <<>> /\ n \in Nat
        /\ t = Created(s, d, v, n)
        /\ e = Plus(dep, d, n) /\ z = p
    BY <1>1, <1>2, <1>4, StakesConstants
       DEF Stakes!CreateValidator, Stakes!Registered, Stakes!Nothing, Stakes!Write, Created, Plus
  <2>2. Stakes!Bounded /\ k_reading' = k_reading /\ k_lost' = k_lost /\ k_minted' = k_minted + 0
    BY <1>3, <1>4 DEF Stakes!CreateValidator, Stakes!Write
  <2>3. \A m \in Nat : Books(s, Own(s, p), dep, m) => BlobOK(t) /\ Books(t, Own(t, z), e, m)
    BY <1>3, <2>1, CreateOK
  <2>4. \A m \in Nat : Books(k_blob, Own(k_blob, k_paid), k_deposited, m)
            => BlobOK(t) /\ Books(t, Own(t, z), e, m + 0)
    BY <1>1, <2>3
  <2>5. z \in Outside /\ e \in Outside /\ 0 \in Nat
    BY <1>3, <2>1
  <2>. QED BY <1>2, <2>2, <2>4, <2>5, StakesKept
<1>5. ASSUME NEW v \in Validator, NEW n \in StakeAmounts, Stakes!Stake(d, v, n) PROVE StakesInv'
  <2>1. /\ s.operator[v] # <<>> /\ v \notin s.jailed /\ n \in Nat /\ t = Stakes!Deposit(s, d, v, n)
        /\ e = Plus(dep, d, n) /\ z = p
    BY <1>1, <1>2, <1>5, StakesConstants
       DEF Stakes!Stake, Stakes!Registered, Stakes!Nothing, Stakes!Write, Plus
  <2>2. Stakes!Bounded /\ k_reading' = k_reading /\ k_lost' = k_lost /\ k_minted' = k_minted + 0
    BY <1>3, <1>5 DEF Stakes!Stake, Stakes!Write
  <2>3. \A m \in Nat : Books(s, Own(s, p), dep, m) => BlobOK(t) /\ Books(t, Own(t, z), e, m)
    BY <1>3, <2>1, StakeOK
  <2>4. \A m \in Nat : Books(k_blob, Own(k_blob, k_paid), k_deposited, m)
            => BlobOK(t) /\ Books(t, Own(t, z), e, m + 0)
    BY <1>1, <2>3
  <2>5. z \in Outside /\ e \in Outside /\ 0 \in Nat
    BY <1>3, <2>1
  <2>. QED BY <1>2, <2>2, <2>4, <2>5, StakesKept
<1>6. ASSUME NEW v \in Validator, NEW n \in 1 .. k_blob.held[<<d, v>>], Stakes!Unstake(d, v, n)
      PROVE  StakesInv'
  <2>1. n \in 1 .. s.held[<<d, v>>] /\ t = Stakes!Unbond(s, d, v, n) /\ e = dep /\ z = p
    BY <1>1, <1>2, <1>6 DEF Stakes!Unstake, Stakes!Write
  <2>2. Stakes!Bounded /\ k_reading' = k_reading /\ k_lost' = k_lost /\ k_minted' = k_minted + 0
    BY <1>3, <1>6 DEF Stakes!Unstake, Stakes!Write
  <2>3. \A m \in Nat : Books(s, Own(s, p), dep, m) => BlobOK(t) /\ Books(t, Own(t, z), e, m)
    BY <1>3, <2>1, UnstakeOK
  <2>4. \A m \in Nat : Books(k_blob, Own(k_blob, k_paid), k_deposited, m)
            => BlobOK(t) /\ Books(t, Own(t, z), e, m + 0)
    BY <1>1, <2>3
  <2>5. z \in Outside /\ e \in Outside /\ 0 \in Nat
    BY <1>3, <2>1
  <2>. QED BY <1>2, <2>2, <2>4, <2>5, StakesKept
<1>7. ASSUME NEW v \in Validator, NEW n \in 1 .. k_blob.held[<<d, v>>], NEW w \in Validator,
             Stakes!Redelegate(d, v, w, n)
      PROVE  StakesInv'
  <2>1. /\ n \in 1 .. s.held[<<d, v>>] /\ t = Stakes!Move(s, d, v, w, n) /\ e = dep /\ z = p
        /\ s.operator[w] # <<>> /\ w \notin s.jailed
    BY <1>1, <1>2, <1>7 DEF Stakes!Redelegate, Stakes!Write, Stakes!Registered, Stakes!Nothing
  <2>2. Stakes!Bounded /\ k_reading' = k_reading /\ k_lost' = k_lost /\ k_minted' = k_minted + 0
    BY <1>3, <1>7 DEF Stakes!Redelegate, Stakes!Write
  <2>3. \A m \in Nat : Books(s, Own(s, p), dep, m) => BlobOK(t) /\ Books(t, Own(t, z), e, m)
    BY <1>3, <2>1, RedelegateOK
  <2>4. \A m \in Nat : Books(k_blob, Own(k_blob, k_paid), k_deposited, m)
            => BlobOK(t) /\ Books(t, Own(t, z), e, m + 0)
    BY <1>1, <2>3
  <2>5. z \in Outside /\ e \in Outside /\ 0 \in Nat
    BY <1>3, <2>1
  <2>. QED BY <1>2, <2>2, <2>4, <2>5, StakesKept
<1>8. ASSUME NEW n \in 1 .. k_blob.locked[d], Stakes!ClaimRewards(d, n) PROVE StakesInv'
  <2>1. /\ n \in 1 .. s.locked[d] /\ t = Claimed(s, d, n) /\ z = Plus(p, d, n)
        /\ e = dep
    BY <1>1, <1>2, <1>8 DEF Stakes!ClaimRewards, Stakes!Write, Claimed, Plus
  <2>2. Stakes!Bounded /\ k_reading' = k_reading /\ k_lost' = k_lost /\ k_minted' = k_minted + 0
    BY <1>3, <1>8 DEF Stakes!ClaimRewards, Stakes!Write
  <2>3. \A m \in Nat : Books(s, Own(s, p), dep, m)
            => z \in Outside /\ BlobOK(t) /\ Books(t, Own(t, z), e, m)
    BY <1>3, <2>1, ClaimOK
  <2>4. \A m \in Nat : Books(k_blob, Own(k_blob, k_paid), k_deposited, m)
            => BlobOK(t) /\ Books(t, Own(t, z), e, m + 0)
    BY <1>1, <2>3
  <2>5. z \in Outside /\ e \in Outside /\ 0 \in Nat
    <3>1. Own(s, p) \in Outside
      BY <1>3, OwnType DEF BlobOK
    <3>2. \E m \in Nat : Books(s, Own(s, p), dep, m)
      BY <1>3, <3>1, SomeBooks
    <3>. QED BY <1>3, <2>1, <2>3, <3>2
  <2>. QED BY <1>2, <2>2, <2>4, <2>5, StakesKept
<1>. QED BY <1>4, <1>5, <1>6, <1>7, <1>8 DEF Stakes!Operate

LEMMA RewardStep ==
  ASSUME StakesInv, Stakes!DistributePoolRewards PROVE StakesInv'
<1>1. PICK s, p, dep : s = k_blob /\ p = k_paid /\ dep = k_deposited
  OBVIOUS
<1>2. PICK t, z : t = k_blob' /\ z = k_paid'
  OBVIOUS
<1>3. BlobOK(s) /\ p \in Outside /\ dep \in Outside
  BY <1>1, StakesFacts
<1>4. PICK l : l = [d \in Delegator |-> IF d = Founder THEN s.locked[d]
                                        ELSE s.locked[d] + Stakes!RewardOf(s, d)]
  OBVIOUS
<1>5. /\ \E v \in Stakes!Active(s) : s.stake[v] > 0
      /\ t = [s EXCEPT !.locked = l]
      /\ z = [p EXCEPT ![Founder] = @ + Stakes!RewardOf(s, Founder) + Stakes!Commissions(s)]
      /\ dep = k_deposited'
  BY <1>1, <1>2, <1>4 DEF Stakes!DistributePoolRewards, Stakes!Write
<1>6. Stakes!Bounded /\ k_reading' = k_reading /\ k_lost' = k_lost /\ k_minted' = k_minted + Reward
  BY DEF Stakes!DistributePoolRewards, Stakes!Write
<1>7. \A m \in Nat : Books(s, Own(s, p), dep, m)
          => z \in Outside /\ BlobOK(t) /\ Books(t, Own(t, z), dep, m + Reward)
  BY <1>3, <1>4, <1>5, DistributeOK
<1>8. z \in Outside /\ Reward \in Nat
  <2>1. Own(s, p) \in Outside
    BY <1>3, OwnType DEF BlobOK
  <2>2. \E m \in Nat : Books(s, Own(s, p), dep, m)
    BY <1>3, <2>1, SomeBooks
  <2>. QED BY <1>7, <2>2, StakesConstants
<1>9. \A m \in Nat : Books(k_blob, Own(k_blob, k_paid), k_deposited, m)
          => BlobOK(t) /\ Books(t, Own(t, z), dep, m + Reward)
  BY <1>1, <1>7
<1>. QED BY <1>2, <1>3, <1>5, <1>6, <1>8, <1>9, StakesKept

LEMMA EpochStep ==
  ASSUME StakesInv, Stakes!EndEpoch PROVE StakesInv'
<1>1. PICK s, p, dep : s = k_blob /\ p = k_paid /\ dep = k_deposited
  OBVIOUS
<1>2. PICK t, z : t = k_blob' /\ z = k_paid'
  OBVIOUS
<1>3. BlobOK(s) /\ p \in Outside /\ dep \in Outside /\ k_minted \in Nat
  BY <1>1, StakesFacts
<1>5. t = EpochEnded(s) /\ z = MaturedPaid(s, p) /\ dep = k_deposited'
  <2>1. k_blob' = EpochEnded(k_blob)
    <3>1. Stakes!Cardinality(Stakes!Matured(k_blob)) = Cardinality(Stakes!Matured(k_blob))
      BY DEF Stakes!Cardinality, Cardinality
    <3>. QED BY <3>1 DEF Stakes!EndEpoch, Stakes!Write, EpochEnded
  <2>2. k_paid' = MaturedPaid(k_blob, k_paid)
    BY DEF Stakes!EndEpoch, MaturedPaid
  <2>3. k_deposited' = k_deposited
    BY DEF Stakes!EndEpoch
  <2>. QED BY <1>1, <1>2, <2>1, <2>2, <2>3
<1>6. Stakes!Bounded /\ k_reading' = k_reading /\ k_lost' = k_lost /\ k_minted' = k_minted + 0
  BY <1>3 DEF Stakes!EndEpoch, Stakes!Write
<1>7. \A m \in Nat : Books(s, Own(s, p), dep, m)
          => z \in Outside /\ BlobOK(t) /\ Books(t, Own(t, z), dep, m)
  BY <1>3, <1>5, EpochOK
<1>8. z \in Outside
  <2>1. Own(s, p) \in Outside
    BY <1>3, OwnType DEF BlobOK
  <2>2. \E m \in Nat : Books(s, Own(s, p), dep, m)
    BY <1>3, <2>1, SomeBooks
  <2>. QED BY <1>7, <2>2
<1>9. \A m \in Nat : Books(k_blob, Own(k_blob, k_paid), k_deposited, m)
          => BlobOK(t) /\ Books(t, Own(t, z), dep, m + 0)
  BY <1>1, <1>7
<1>. QED BY <1>2, <1>3, <1>5, <1>6, <1>8, <1>9, StakesKept

\* The slash writes back what it has read: the blob is sound, and in balance unless
\* something was written in between.
LEMMA SlashStep ==
  ASSUME StakesInv, Stakes!SlashWrite \/ \E v \in Validator : Stakes!SlashRead(v) PROVE StakesInv'
<1>1. CASE Stakes!SlashWrite
  <2>1. PICK s, t, v, p, dep, m : /\ s = k_reading[1].blob /\ v = k_reading[1].validator /\ t = Stakes!Slash(s, v)
                                  /\ p = k_paid /\ dep = k_deposited /\ m = k_minted
    OBVIOUS
  <2>2. /\ k_reading # <<>> /\ k_reading' = <<>> /\ k_blob' = t
        /\ k_lost' = (k_lost \/ k_blob # s)
        /\ k_paid' = p /\ k_deposited' = dep /\ k_minted' = m /\ k_steps' = k_steps
    BY <1>1, <2>1 DEF Stakes!SlashWrite, Stakes!Nothing
  <2>3. /\ BlobOK(s) /\ v \in Validator /\ p \in Outside /\ dep \in Outside /\ m \in Nat
        /\ k_lost \in BOOLEAN /\ k_steps \in 0 .. StakeSteps
    BY <2>1, <2>2 DEF StakesInv, ReadingOK
  <2>4. BlobOK(t) /\ (Books(s, Own(s, p), dep, m) => Books(t, Own(t, p), dep, m))
    BY <2>1, <2>3, SlashOK
  <2>5. ASSUME ~k_lost' PROVE Books(t, Own(t, p), dep, m)
    <3>1. ~k_lost /\ k_blob = s
      BY <2>2, <2>5
    <3>2. Books(s, Own(s, p), dep, m)
      BY <2>1, <3>1 DEF StakesInv
    <3>. QED BY <2>4, <3>2
  <2>6. k_lost' \in BOOLEAN
    BY <2>2
  <2>7. ReadingOK(k_reading')
    BY <2>2 DEF ReadingOK
  <2>8. ~k_lost' => Books(k_blob', Own(k_blob', k_paid'), k_deposited', k_minted')
    BY <2>2, <2>5
  <2>. QED BY <2>2, <2>3, <2>4, <2>6, <2>7, <2>8 DEF StakesInv
<1>2. ASSUME NEW v \in Validator, Stakes!SlashRead(v) PROVE StakesInv'
  <2>1. /\ k_reading' = <<[blob |-> k_blob, validator |-> v]>> /\ Stakes!Bounded
        /\ UNCHANGED <<k_blob, k_paid, k_deposited, k_minted, k_lost>>
    BY <1>2 DEF Stakes!SlashRead
  <2>2. k_steps' \in 0 .. StakeSteps
    BY <2>1, StakesConstants DEF StakesInv, Stakes!Bounded
  <2>3. ReadingOK(k_reading')
    BY <2>1 DEF StakesInv, ReadingOK
  <2>. QED BY <2>1, <2>2, <2>3 DEF StakesInv
<1>. QED BY <1>1, <1>2

LEMMA StakesStep == ASSUME StakesInv, [Stakes!Next]_stakesVars PROVE StakesInv'
<1>1. CASE UNCHANGED stakesVars
  <2>1. /\ k_blob' = k_blob /\ k_reading' = k_reading /\ k_paid' = k_paid
        /\ k_deposited' = k_deposited /\ k_minted' = k_minted /\ k_lost' = k_lost /\ k_steps' = k_steps
    BY <1>1 DEF stakesVars
  <2>. QED BY <2>1 DEF StakesInv
<1>2. CASE Stakes!Next
  BY <1>2, OperateStep, RewardStep, EpochStep, SlashStep DEF Stakes!Next
<1>. QED BY <1>1, <1>2

\* What the shares of a holding are worth is at most their number.
LEMMA WorthShares ==
  ASSUME NEW s, BlobOK(s), NEW d \in Delegator, NEW v \in Validator
  PROVE  /\ Stakes!SharesToAmount(s, v, s.held[<<d, v>>]) \in Nat
         /\ Stakes!SharesToAmount(s, v, s.held[<<d, v>>]) <= s.held[<<d, v>>]
<1>1. s \in Blob
  BY DEF BlobOK
<1>2. PICK n \in Nat, x \in Nat, y \in Nat :
          /\ n = s.held[<<d, v>>] /\ x = s.stake[v] /\ y = s.shares[v] /\ x <= y /\ n <= y
  <2>1. /\ s.stake[v] \in Nat /\ s.shares[v] \in Nat /\ s.stake[v] <= s.shares[v]
        /\ s.shares[v] = HeldOf(s, v)
    BY <1>1 DEF BlobOK, Blob
  <2>2. s.held[<<d, v>>] \in Nat /\ s.held[<<d, v>>] <= HeldOf(s, v)
    BY <1>1, HeldNat2
  <2>. QED BY <2>1, <2>2
<1>3. Stakes!SharesToAmount(s, v, n) = IF y = 0 THEN 0 ELSE (n * x) \div y
  BY <1>2 DEF Stakes!SharesToAmount, Stakes!MulDiv
<1>4. CASE n = 0
  <2>1. \A a, b \in Nat : b # 0 => (0 * a) \div b = 0
    OBVIOUS
  <2>. QED BY <1>2, <1>3, <1>4, <2>1
<1>5. CASE n > 0
  <2>1. (n * x) \div y \in Nat /\ (n * x) \div y <= n
    <3>1. PICK a : a = (n * x) \div y
      OBVIOUS
    <3>2. a = (n * x) \div y /\ n > 0 /\ n <= y /\ x <= y
      BY <1>2, <1>5, <3>1
    <3>3. a \in Nat /\ a <= n
      BY <3>2, FloorShare
    <3>. QED BY <3>1, <3>3
  <2>. QED BY <1>2, <1>3, <1>5, <2>1
<1>. QED BY <1>2, <1>4, <1>5

\* In balance, no delegator has more than it has put in, and the rewards.
LEMMA GainBounded ==
  ASSUME StakesInv, ~k_lost, NEW d \in Delegator
  PROVE  Stakes!Worth(d) <= k_deposited[d] + k_minted
<1>1. PICK s, p, o : s = k_blob /\ p = k_paid /\ o = Own(s, p)
  OBVIOUS
<1>2. BlobOK(s) /\ s \in Blob /\ p \in Outside /\ k_deposited \in Outside /\ k_minted \in Nat
      /\ Books(s, o, k_deposited, k_minted)
  BY <1>1 DEF StakesInv, BlobOK
<1> DEFINE W == [v \in Validator |-> Stakes!SharesToAmount(s, v, s.held[<<d, v>>])]
           H == [v \in Validator |-> s.held[<<d, v>>]]
<1>3. \A v \in Validator : W[v] \in Nat /\ H[v] \in Nat /\ W[v] <= H[v]
  BY <1>2, WorthShares, HeldNat2
<1>4. HeldBy(s, d) = SumFunctionOnSet(H, Validator) /\ HeldBy(s, d) \in Nat
  BY <1>2, HeldNat2 DEF HeldBy
<1>5. Stakes!Worth(d) = SumFunctionOnSet(W, Validator) + Owed(s.queue, d) + s.locked[d] + p[d]
  BY <1>1, StakesSum DEF Stakes!Worth, Stakes!Amount, Owed
<1> HIDE DEF W, H
<1>6. SumFunctionOnSet(W, Validator) <= HeldBy(s, d) /\ SumFunctionOnSet(W, Validator) \in Nat
  <2>1. \A v \in Validator : W[v] \in Nat
    BY <1>3
  <2>2. IsFiniteSet(Validator)
    BY StakesConstants
  <2>. QED BY <1>3, <1>4, <2>1, <2>2, SumAtMost, SumNat
<1>7. HeldBy(s, d) + o[d] <= k_deposited[d] + k_minted /\ o[d] = p[d] + s.locked[d] + Owed(s.queue, d)
  BY <1>1, <1>2 DEF Books, Own
<1>8. p[d] \in Nat /\ s.locked[d] \in Nat /\ Owed(s.queue, d) \in Nat /\ k_deposited[d] \in Nat
  BY <1>2, OwedNat DEF Blob, Outside
<1>. QED BY <1>2, <1>4, <1>5, <1>6, <1>7, <1>8

\* Whatever the order of stakes, exits, moves, epochs and slashes, shares have owners;
\* and while no slash undoes a write, staking owes and pays no more than it was given,
\* and no delegator more than its own (StakingModule, staking.rs).
THEOREM StakesBooks == PartsSpec => []StakesSound
<1>1. PartsInit => StakesInv
  BY StakesInit DEF PartsInit
<1>2. StakesInv /\ [PartsNext]_allVars => StakesInv'
  BY PartsSteps, StakesStep
<1>3. StakesInv => StakesSound
  <2> SUFFICES ASSUME StakesInv PROVE StakesSound
    OBVIOUS
  <2>1. k_blob \in Blob /\ BlobOK(k_blob) /\ k_paid \in Outside /\ k_deposited \in Outside
        /\ k_minted \in Nat /\ k_lost \in BOOLEAN /\ k_steps \in 0 .. StakeSteps
    BY DEF StakesInv, BlobOK
  <2>2. Stakes!TypeOK
    <3>1. \A i \in DOMAIN k_blob.queue : k_blob.queue[i].to \in Delegator /\ k_blob.queue[i].amount \in Nat
      <4>1. k_blob.queue \in Seq(Unbonding)
        BY <2>1 DEF Blob
      <4>. QED BY <4>1, QueueFacts
    <3>2. /\ k_blob.stake \in [Validator -> Nat] /\ k_blob.shares \in [Validator -> Nat]
          /\ k_blob.held \in [Delegator \X Validator -> Nat] /\ k_blob.locked \in [Delegator -> Nat]
          /\ k_blob.jailed \subseteq Validator /\ k_blob.epoch \in Nat /\ k_blob.slashed \in Nat
      BY <2>1 DEF Blob
    <3>. QED BY <2>1, <3>1, <3>2 DEF Stakes!TypeOK, Outside
  <2>3. Stakes!SharesHeld
    BY <2>1, StakesSum DEF Stakes!SharesHeld, Stakes!SharesOf, BlobOK, HeldOf
  <2>4. Stakes!Solvent
    <3> SUFFICES ASSUME ~k_lost
                 PROVE  Stakes!SumFunction(k_paid) + k_blob.slashed + Stakes!SumFunction(k_blob.stake)
                          + Stakes!SumFunction(k_blob.locked) + Stakes!SumFunction(Stakes!Amount(k_blob))
                        <= Stakes!SumFunction(k_deposited) + k_minted
      BY DEF Stakes!Solvent
    <3>1. PICK s, p, F : s = k_blob /\ p = k_paid /\ F = [i \in DOMAIN s.queue |-> s.queue[i].amount]
      OBVIOUS
    <3>2. /\ DOMAIN p = Delegator /\ DOMAIN k_deposited = Delegator /\ DOMAIN s.stake = Validator
          /\ DOMAIN s.locked = Delegator /\ DOMAIN F = DOMAIN s.queue
      BY <2>1, <3>1 DEF Outside, Blob
    <3>3. Stakes!Amount(s) = F
      BY <3>1 DEF Stakes!Amount
    <3>4. /\ Stakes!SumFunction(k_paid) = SumFunctionOnSet(p, Delegator)
          /\ Stakes!SumFunction(k_blob.stake) = SumFunctionOnSet(s.stake, Validator)
          /\ Stakes!SumFunction(k_blob.locked) = SumFunctionOnSet(s.locked, Delegator)
          /\ Stakes!SumFunction(Stakes!Amount(k_blob)) = SumFunctionOnSet(F, DOMAIN s.queue)
          /\ Stakes!SumFunction(k_deposited) = SumFunctionOnSet(k_deposited, Delegator)
      BY <3>1, <3>2, <3>3, StakesSum
    <3>5. /\ SumFunctionOnSet(Own(s, p), Delegator)
               = SumFunctionOnSet(p, Delegator) + SumFunctionOnSet(s.locked, Delegator)
                   + SumFunctionOnSet(F, DOMAIN s.queue)
          /\ SumFunctionOnSet(p, Delegator) \in Nat /\ SumFunctionOnSet(s.locked, Delegator) \in Nat
          /\ SumFunctionOnSet(F, DOMAIN s.queue) \in Nat
      BY <2>1, <3>1, OwnSum
    <3>6. SumFunctionOnSet(Own(s, p), Delegator) + s.slashed + SumFunctionOnSet(s.stake, Validator)
            <= SumFunctionOnSet(k_deposited, Delegator) + k_minted
      BY <3>1 DEF StakesInv, Books
    <3>7. SumFunctionOnSet(s.stake, Validator) \in Nat /\ s.slashed \in Nat
          /\ SumFunctionOnSet(k_deposited, Delegator) \in Nat
      BY <2>1, <3>1, StakeNat
    <3>8. PICK a \in Nat, b \in Nat, c \in Nat, e \in Nat, f \in Nat, g \in Nat :
              /\ a = SumFunctionOnSet(p, Delegator) /\ b = SumFunctionOnSet(s.locked, Delegator)
              /\ c = SumFunctionOnSet(F, DOMAIN s.queue) /\ e = s.slashed
              /\ f = SumFunctionOnSet(s.stake, Validator) /\ g = SumFunctionOnSet(k_deposited, Delegator)
      BY <3>5, <3>7
    <3>9. a + e + f + b + c <= g + k_minted
      BY <2>1, <3>5, <3>6, <3>8
    <3>. QED BY <3>1, <3>4, <3>8, <3>9
  <2>5. Stakes!NoGain
    BY GainBounded DEF Stakes!NoGain
  <2>. QED BY <2>2, <2>3, <2>4, <2>5 DEF StakesSound
<1>. QED BY <1>1, <1>2, <1>3, PTL DEF PartsSpec
=============================================================================
