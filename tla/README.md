# zebvix-chain in TLA+

Specifications, model checks and proofs for the node of `zebvix-chain`
(`src/zebvix-chain/src`, Rust), for the bridge to BSC that runs beside it
(`src/lib`, TypeScript and Solidity), and for the stateful parts of the API
server and the browser wallet (`src/artifacts`, TypeScript): how validators agree
on blocks, how a node applies a block without tearing its database, what the
kinds of transactions promise, how a transfer crosses the bridge once, and what
concurrent requests, sockets and tabs may do to tables and keys.

1. Inventory of the system
2. Modules, and how they correspond to the code
3. Runs: what TLC checks
4. Proofs: what TLAPS proves
5. Disagreements between code and documentation
6. Not modelled

## 1. Inventory

A node is one process with several tokio tasks over one shared `State`
(RocksDB plus a cached tip), one `VotePool` and one `Mempool`, both in memory:

* the **producer** (`consensus.rs`) builds, applies and gossips a block when
  `who_proposes` elects this validator;
* the **vote loop** (`main.rs`) signs a prevote and a precommit for each new
  tip, adds them to the pool and gossips them;
* the **inbound consumer** (`main.rs`) applies blocks and adds votes that come
  from the **p2p task** (`p2p.rs`), by gossip or by block sync;
* the **FSM runtime** (`fsm_runtime.rs`) would drive the Tendermint-style state
  machine of `fsm.rs`, first as an observer of the same pool and chain;
* RPC and metrics read the state and feed the mempool.

Tasks share no transaction. Votes and blocks are messages that may be lost,
delayed, repeated or reordered. A crash loses everything in memory; the blocks
and the table of commits are on disk.

| Component | State | Operations | Hard behaviour | Correct means |
|---|---|---|---|---|
| Consensus FSM, `fsm.rs` | height, round, step, locked and valid block, block being committed | six events: tick, proposal, prevote / precommit quorum, higher round, block applied | quorums and timeouts in any order, over several rounds; saturating round | one vote per slot, lock rule, agreement, no step back, no round without end |
| FSM runtime, `fsm_runtime.rs` | the FSM behind a mutex, proposal cache, ledger of quorums fed, time of the last commit | tick, poll of quorums, drain of events, CommitBlock, cache insertion | the chain, the pool and the cache change between poll and drain; rate limit; failed commits | never ahead of the chain, no quorum lost, bounded queue, commits are released |
| Quorum rule, `vote.rs` | powers | sum, threshold `total * 2 / 3 + 1` | integer division, unequal powers | two quorums share an honest validator |
| Vote pool, `vote.rs` | votes by height, round, type and validator | `add`, tallies, `collect_precommits_for`, `gc_below`, commit verification | duplicates, double signs, votes ahead of a validator-set change | a commit stands for 2/3 of the power |
| Producer, `consensus.rs` | current height and round, produced flag | round bump, fallback proposer, build, apply, gossip | two proposers of different rounds; block applied before any vote | no fork outlives its first block behind the gate |
| Node tasks, `main.rs` | height of the last vote | vote, inbound block, inbound vote, startup check | restart with an empty pool | no honest double sign, the chain grows again |
| Block application, `state.rs` | rows of accounts, pools, staking...; bodies; tip; apply-marker | `apply_block`, startup check, recovery | crash between any two writes; failure in the middle; two callers | a database without marker holds whole blocks |
| Commit gate, `state.rs` | side table `bft/c/<hash>` | check of the parent's commit from a height on | node without the votes; concurrent persist | a block with a child is final |
| Mempool, `mempool.rs` | transactions by hash, nonces by sender | `add` with replacement and eviction, `take` | nonce gaps, eviction in the middle of a run, transactions lost with a refused block | what is taken can be applied; the chain is never stopped by what is in it |
| Ledger and transaction kinds, `transaction.rs`, `types.rs`, `state.rs` | balances, nonces, supply | `apply_tx` for each kind, fees, rewards | partial failure, rows read early and written late | conservation, nonces used once |
| Staking, `staking.rs` | validators, shares, unbonding queue, locked rewards, slash records | create, stake, unstake, redelegate, claim, slash, jail, epochs | long sequences, rounding, two writers of one blob | shares and stake stay consistent, nobody gains by rounding |
| Evidence, `evidence.rs` | none | verification of two votes | slashing outside a block | honest validators are never slashed |
| Multisig, `multisig.rs` | wallets, proposals, approvals | propose, approve, revoke, execute | expiry, owner's changed mind, executor's own row | executed once, with the threshold; money arrives |
| Governance, `proposal.rs` | proposals, votes, effects | submit, vote, tick | phases by height, several effects in a tick, failing writes | decided by the votes of its phase, carried out once |
| Token pools, `token_pool.rs` | reserves, shares; their mirror in the ledger | open, add, remove, swap | integer division | no share is diluted, nobody trades for free |
| Main pool, `pool.rs` | reserves, fees, loan | swap, settle | integer division | as above |
| Bridge module, `bridge.rs`, `state.rs` | locked supply, ring of events, claims | BridgeOut, BridgeIn | eviction from the ring, replays | a release is covered and happens once |
| Bridge relayer and signers, `lib/bridge-relayer`, `lib/bridge-signer` | rows and cursors on disk; the tick in memory | poll, backfill, sign, submit, confirm, retry, in both directions | crash between sending and recording, lost and late transactions, reorganisations | each transfer arrives at most once, and in the end |
| Contracts on BSC, `lib/bsc-contracts` | consumed set, wrapped supply | `mintFromZebvix`, `burnToZebvix` | anyone may submit | a mint takes a quorum of signatures on a lock |
| API server: settings, `admin-settings.ts` | table, snapshot in memory | load, upsert, delete, invalidate | a load in flight while a write ends | answers are whole and recent |
| API server: navigation, `admin.ts` | table of items | seed, create, update, delete, reset | statements of two requests interleave; kills | built-in items all or none; custom items stay |
| API server: WalletConnect relay, `wc-relay.ts` | session, two slots, sockets | connect, hang up, close event, expiry | close events come late | one socket per role, session as long as needed |
| Browser wallet, `wallet-vault.ts`, `web-wallet.ts` | plain list, vault, each tab's list and key | set up, unlock, re-key, opt out, add, remove | asynchronous derivation and saves, several tabs, reloads | wallets stay in localStorage |
| ZVM, `zvm*.rs` | accounts, storage, journal | interpreter | nested reverts | journal restores |
| P2P, `p2p.rs` | peers | gossip, block sync | see the node tasks | |
| RPC, metrics, CLI, crypto, block_stm, dashboards, SDK | none of the protocol's | | | |

How they meet: transactions go from RPC or gossip through the mempool into the
producer's block; `apply_block` runs every kind of transaction, then rewards,
staking epochs and the tick of proposals; the vote loop makes a commit of what
was applied, and the gate asks for it. The relayer reads the chain's ring of
events and writes BridgeIn transactions; the signers read the same ring on their
own. The web parts share nothing with each other but a process or a browser.

The hazards of the code, each at its line with the properties that cover it or
the reason none does, are listed in `PROJECT.json` under `hazards`.

## 2. Modules and code

```
VotingPower --- Fsm --- FsmNet ------ FsmNetProofs         Ledger --- ApplyBlock --- ApplyViews --- ApplyBlockProofs
     |           |                                                                       |
     |           +----- FsmRuntime -- FsmRuntimeProofs     FinalChain                  TxPool
     |                                                         |
     +----------------------------------------------------- ChainNode --- ChainNodeProofs

Transfers ---- BridgeMint --- BridgeMintProofs
          `--- BridgeRelease --- BridgeReleaseProofs
TokenPool   Staking   Multisig   Governance          \
SettingsCache   NavAdmin   WcRelay   Vault            >--- Parts --- PartsProofs
SumProofs (sums and quorums) --- every other proof module about sums
```

`Parts` puts eight instances side by side (TokenPool, Staking, Multisig,
Governance, SettingsCache, NavAdmin, Vault, WcRelay), `MCProgress` four (FsmNet,
ChainNode, TxPool, Governance) and `ApplyViews` three (ApplyBlock on a follower, where
one task calls `apply_block`, and on a validator, where several do, and TxPool).
Nothing is shared between the instances and a behaviour is that of one of them, so
that each property means what it would mean in a run of its own. `Parts` and `ApplyViews` keep the
constants of the instances open, so that the theorems are about every value of them.

`MC*` modules give the constants of a component the values of a run.

**VotingPower** (`vote.rs` 141-224, 329-393). Power of a set of validators as the
sum of theirs, the threshold in integer arithmetic, and the sets that are quorums.
The sums in the code are `u64`; the model's are unbounded, which is the same below
2^63 of total power.

**Fsm** (`fsm.rs`). `FsmState::step` as an operator: `Step(s, ev)` returns the
next state and the *set of actions* the runtime has to carry out, one operator
per handler (`OnTick`, `OnProposal`, `OnPrevoteQuorum`, `OnPrecommitQuorum`,
`OnBlockApplied`, `OnHigherRound`), with the same early returns. Time is
reduced to a boolean of the tick, `expired`. Blocks are model values. The round
saturates at `RoundMax` as the `u32` does. There is no recursion, so the module
can be proved about.

**FsmNet** composes one FSM per honest validator over a network of votes. `votes`
holds every vote an honest validator has signed; a validator may at any moment
be told of any quorum that those votes, with the faulty validators free to add
theirs, amount to, again and again and of any round: delay, loss, reordering
and duplication in one. The blocks that may be proposed in a round are a
parameter. `ProposalSeen` and `HigherRoundSeen` are modelled as `fsm.rs` and
`power_above_round` (more than a third of the power) document them; the runtime
does not emit either yet.

**FsmRuntime** (`fsm_runtime.rs`) models the loop of `FsmRuntime::run` step by
step: tick, poll, drain of each event (last first, as `pop` does), end of turn
with its cap, and `handle_action` with every way a commit can end: chain
already there, rate-limited, not cached, other hash, refused, applied. Between
any two of them the legacy path may apply a block, votes may reach a quorum,
and the cache may change. `main.rs` does not start the runtime yet: the module
is what it would meet.

**Ledger** is the promise of `apply_block`: the chain grows by whole blocks that
extend it, a crash in the middle of one makes the node halt for an operator,
and the operator brings back a prefix.

**ApplyBlock** (`state.rs` 2778-3251, `main.rs` 1122-1150) breaks `apply_block`
at every database access. The rows that `apply_tx`, the rewards, the fees and
the staking code put one by one are `Parts` rows without content: enough to
tell a whole block from a torn one or one applied twice. A crash keeps the disk
and loses the rest; a restart is the startup check of the marker. `Writers` are
the tasks that call `apply_block`, which takes no lock: one on a follower, two
on a validator. The recovery of the operator is external. `Init` is a fresh
database or one with a first block, its marker cleared or stale.

**FinalChain** is the promise of the gate: one sequence of blocks that only grows.

**ChainNode** (`consensus.rs` 37-252, `main.rs` 1026-1440, `state.rs` 2811-2870)
is the consensus that runs today, on every node of a network. `Produce` is
the build-apply-gossip of a producer, in its turn or after the timeout;
`EmitVote` is an iteration of the vote loop; `ReceiveBlock`, `ReceiveVote` are
the arms of the inbound consumer, with sync folded into the former (a block
applied anywhere may reach anyone at any time); `Add` is `VotePool::add`
together with `try_persist_bft_commit_for`; `GateOpen` is the gate. Faulty
validators vote as they please, differently to different nodes, and, since
nobody checks the proposer on receipt, build blocks. A vote is sent once, to
the nodes that are up. Crashes empty the pool and the local variables.
Prevotes are left out because nothing reads them on this path. All honest
votes are cast in round 0 (`main.rs` passes it literally).

**TxPool** (`mempool.rs`, `consensus.rs` 76-140, `state.rs` 2497-2640, 2878-2996)
follows a transaction through a node. `Check` and `Insert` are the two halves of
`Mempool::add`, between which blocks may be applied; a full pool evicts its
cheapest. `BuildBlock` takes by fee and then nonce, as `take` does, and leaves
the pool without what it took; `ApplyOwn` and `ApplyForeign` are `apply_block`:
the simulation of all senders first (`Simulate`), then the transactions one by
one, where a swap moves the price that the fees are checked against and may
fail, which leaves the node stuck behind its marker.

**Staking** (`staking.rs`; the calls in `state.rs`) keeps the module as the one
blob it is. A transaction or an epoch is one step; a slash reads the blob in one
step and writes it in another, because `slash_and_record_evidence` runs in the
inbound consumer while the producer's task applies blocks. `lost` remembers that a
write of the chain was undone that way.

**Multisig**, **Governance**, **TokenPool** (`state.rs` and the file of the name)
have one action per operation. `Multisig!Execute` writes the executor's row last,
as read before the operation. `Governance!Tick` goes through the proposals by
id and may fail at the effect or at the status. `TokenPool` has the arithmetic of the
code and the mirror of the reserves in the ledger.

**Transfers** is the promise of a direction of the bridge: what was sent may
arrive, as it was sent, once.

**BridgeMint** (`state.rs` 804-831, 1639-1717; `zebvix-watcher.ts`; `db.ts`;
`signer-client.ts`; `bsc-client.ts`; `verifier.ts`; `ZebvixBridge.sol`) and
**BridgeRelease** (`bsc-watcher.ts`, `state.rs` 1718-1790) break a tick of
their watcher at every await: poll, each event, backfill, list, check,
each signer's answer, submission, receipt; read of the head, each chunk, each row
of the two passes. The database survives a crash, everything else is lost.
Signers are honest or sign anything; anyone may send what has enough signatures;
transactions wait in a pool, get lost, and are mined after the relayer has
stopped waiting; BSC reorganises blocks less deep than the confirmations. A burn
names its recipient, and of each account the coins it got by the bridge are kept
(`balance`): `BridgeIn` writes the recipient's row and then, last, that of the admin
as it was read before (`Release`).

**SettingsCache**, **NavAdmin**, **WcRelay**, **Vault** model the handlers of
the web side between their awaits: a query of a load and what the cache is when
it returns; each SQL statement of the navigation; connection, hang-up and close
event of a socket as three steps; derivation of a key and encryption as a task
that has captured its list, and ends, fails or dies with its tab. A change of
password holds the tab's array itself: what `addWallet` pushes to it is written too,
while `removeWallet` leaves the array for a new one (`Pushed`, `Parted`). The
encryption that follows a derivation is one step with the write at its end, so an
addition in that instant counts as written. Keys are not told apart; a tab has one
or not.

## 3. Runs

Nine runs pass and three expect a violation. Each states its question in
`PROJECT.json`; each property of the former is paired there with a mutant of
the code (operators marked "Mutant" or "Mutation" in the modules) under which
the run does find it violated.

| Run | Instance | Checks |
|---|---|---|
| FsmNet | validators of power 4, 2, 2, the last faulty; 2 blocks, both possible in each of 2 rounds; 1 height | `TypeOK`, `OneVotePerSlot`, `PrevotesRespectLock`, `Agreement`, `Forward` |
| FsmRuntime | 2 blocks, 2 rounds of a height, cache of one proposal | `TypeOK`, `NoQuorumLost`, `NeverAhead`, `CommitReleases` |
| ApplyBlock | a follower with one caller: 5 blocks over 3 heights with a fork and a block that skips a height, 2 rows each; a validator with two callers and 4 of the blocks; any number of crashes; 5 transactions of 2 accounts through a mempool of 2 into blocks of 2 | `UnmarkedIsClean`, `StoredChain`, `ImplementsLedger` of the follower, `TipStoredInRace` of the validator, `LedgerRight` of the accounts |
| ChainNode | powers 4, 2, 2, the last faulty; two branches of 2 blocks; gate on | `CommitsBacked`, `Finality` |
| ChainNodeCrash | 2 correct validators, both branches, 2 crashes | `NoFalseSlash`, `ImplementsFinalChain` |
| Bridge | 2 signers, one faulty, threshold 2; 3 locks of ours or of another asset in a ring of 2, polls of 1; a crash and a fault | `RowsTrue`, `GapsClosed`, `ImplementsTransfers`, `Delivered` |
| BridgeRelease | 2 burns, to a user and to the admin, in 3 blocks, 1 confirmation, chunks of 1; a reorganisation, a crash and a fault | `CursorTrue`, `Solvent`, `ConfirmedPays`, `ReleasesTransfers`, `Settled` |
| Progress | a validator whose own votes are quorums (3 rounds, 2 heights); a sole validator with a follower, 3 blocks, 2 crashes; the transactions and the mempool of ApplyBlock; 2 proposals for a flag, 2 voters, a failing write | `RoundsEnd`, `ChainGrows`, `NodeGrows`, `Settles` |
| Modules | a token pool with 2 accounts of 6 units, fee 1/4, 4 operations; 2 delegators, 2 validators, 5 operations, a slash of 1/3; a wallet of 3 owners, threshold 2, 2 proposals; 2 settings, 2 readers, 2 writers; 2 built-in items and a custom one, 2 requests; 2 wallets, 2 tabs, 2 calls, 2 keys; 5 sockets; proposals as in Progress | `PoolSound`, `ShareKeepsValue`, `StakesSound`, `MultisigPays`, `ProposalsRight`, `SettingsFresh`, `NavKept`, `LegacyKept`, `RelayRight` |
| BridgeTwoBurns | 2 burns to two users in one BSC transaction, no fault | `ConfirmedIsPaid`: violated, see 5 |
| SelfTransfer | the mempool of ApplyBlock, with a transfer of an account to itself | `Conserved`: violated |
| VaultLost | one tab, 2 wallets | `KeptSomewhere`: violated |

Why the bounds are enough. Agreement can first break when a block is decided in
one round and another gets a prevote quorum in the next, so two rounds hold the
whole argument. The powers are the smallest for which the faulty validator
completes a quorum (with v1) and is not needed in another (v1 and v2), so that
one of the two correct validators can decide without the other; the faulty one
may propose and vote for both blocks in one round. Larger sets, such as four
equal validators, are left to the theorem of section 4, which covers them all.
In `FsmRuntime` a cache of one proposal with blocks of two heights makes the
eviction happen, two hashes let the cached block, the block the chain has and the
block committed differ, and two rounds let the FSM leave one between poll and
drain. In `ApplyBlock` two rows are the least that can be torn; three heights
give a marker left from a block below the tip. In `ChainNode` the smallest case
where the gate matters is two branches of two blocks; the faulty validator
completes two quorums there. In `Bridge` the ring is larger than a poll, so that
there are gaps to backfill, and smaller than the number of locks, so that events
are evicted; the faulty signer needs an honest one. In `BridgeRelease` a
reorganisation reaches the blocks above the confirmations, and three blocks let a
burn come back in another one. In `ApplyBlock` and `Progress` the transactions include a nonce
gap, two of one nonce, payments in a circle and two swaps of which the first
moves the price for the second. In `Modules` the fees and the slash are coarse
fractions, so that every rounding bites; the amounts are small enough that the
extremes (a reserve of one unit, a share worth less than a unit) occur.

Every bound is a named constant used in a guard or in the set an action draws
from. Deadlock is checked where a bounded system keeps going; the composed runs
and the two small violation runs stop when the operations of a component are
used up, and say `CHECK_DEADLOCK FALSE`.

`FsmNet` uses the symmetry of the two blocks, and `Modules` that of the two tabs of
`Vault`, which nothing tells apart; no liveness is checked there.

Fairness.

* `FsmNet` in `Progress`: each validator is ticked for ever (`interval(500 ms)` in
  `run`). Nothing is assumed of the delivery of quorums.
* `FsmRuntime!FairSpec`: the loop keeps turning; strong fairness of the tick
  that finds the timeout expired, because the clock does pass it although a
  step may be re-entered. The rate limiter and `apply_block` may refuse for
  ever: `CommitReleases` promises the release of a commit the chain has
  overtaken, nothing about the FSM's own.
* `ChainNode` in `Progress`: every task of a node keeps running and a crashed node
  is restarted. Messages of faulty validators and crashes are never owed.
* `TxPool` in `Progress`: the producer's ticker fires (`consensus.rs` 165); no
  submission and no foreign block is owed.
* `Governance` in `Progress`: blocks come, and their tick runs.
* `BridgeMint!FairSpec`, `BridgeRelease!FairSpec`: the poll timer restarts an idle
  tick (`setInterval`), every await of it ends, and what waits in a pool of
  transactions is mined or taken unless it is lost. Faults, crashes and
  reorganisations are bounded. A row outlives the retry window in the end
  (strong fairness of `Requeue`).

What the properties mean.

* `Agreement`, `PrevotesRespectLock`: the argument of Tendermint, checked on this
  implementation of it, in which the lock is released by a prevote quorum and
  quorums of any round may come late.
* `NoQuorumLost`: the ledger that keeps a quorum from being fed twice never
  swallows a precommit quorum for a block: as long as it is recorded there, it is in
  the queue or the FSM is committing. Prevotes and nil quorums are left out.
* `ConfirmedPays`: an account other than the admin's has the coins of the released
  burns to it, each once, and a row is confirmed only on a claim of its transaction.
* `Delivered`: a recorded lock is minted in the end, if no more goes wrong than the
  relayer tolerates: `MaxFaults` stays below `GiveUp` in `Bridge`. With more faults a
  row ends as failed and is left to the operator, which `Settled`, of the other
  direction, counts as an end.
* `UnmarkedIsClean`: a restart that finds no marker finds whole blocks, whatever
  was interrupted; `ImplementsLedger` adds that every such state is a prefix
  or an extension of the chain before.
* `CommitsBacked`: a stored commit means that validators of 2/3 of the power
  have applied the block, faulty ones included; `Finality`: behind the gate, a
  block with a child is the block of its height on every node that has gone
  past it; `ImplementsFinalChain`: these blocks form one chain that only grows.
* `TipStoredInRace`: what is left of that when two callers race: the last batch is
  whole. A second caller also fires the stale-marker branch of `apply_block`,
  which a single one cannot reach, as `cmd_start` clears such a marker first.
* `NoFalseSlash`: the votes of an honest validator over all its restarts are
  never evidence of a double sign, because it votes for what it has applied
  and never reverts.
* `LedgerRight`: blocks conserve money, and a block that was foreseen to apply is
  abandoned half-way for a swap only; `NodeGrows`: whatever the mempool holds,
  the node comes to its next block, or is stuck behind its marker.
* `ProposalsRight`: the tally is that of the ballots, the flag has the value of a
  proposal that passed, and each is carried out once, unless a status could not
  be written; `Settles`: each is decided.
* `StakesSound`: shares are owned, staking owes no more than it was given, nobody
  gains by rounding. The last two are said of behaviours in which no slash undid a
  write of the chain; the first holds even then.
* `RowsTrue`: a row that says confirmed was minted; `GapsClosed`: nothing of ours
  that could still be read lies below the cursor unrecorded, but for event 0;
  `Delivered`: a recorded lock is minted unless it first leaves the reach of the
  signers; `CursorTrue`, `Solvent`, `Settled` likewise for the other direction.
* `SettingsFresh`: an answer is the whole of what the table held at one moment of
  the last TTL plus the time of a query; `NavKept`: built-in items are all there or
  all gone and custom items go by their own deletion; `RelayRight`: one socket per
  role, unless the role was taken over while its old socket was closing;
  `LegacyKept`: wallets from before the vault are in localStorage at every moment.

## 4. Proofs

| Theorem | States |
|---|---|
| `SumProofs!QuorumIntersection` | two quorums share a validator outside any set of less than a third of the power |
| `FsmNetProofs!TypeCorrect`, `VotesUnique`, `LockRule`, `Safety`, `MovesForward` | `[]TypeOK`, `[]OneVotePerSlot`, `[]PrevotesRespectLock`, `[]Agreement`, `Forward` |
| `FsmRuntimeProofs!RuntimeTypes`, `FsmNeverAhead`, `QuorumsReachCommit` | `[]TypeOK`, `[]NeverAhead`, `[]NoQuorumLost` |
| `ApplyBlockProofs!TypesKept`, `CrashSafety`, `ChainStored`, `Refinement` | `[]TypeOK`, `[]UnmarkedIsClean`, `[]StoredChain`, `ImplementsLedger` of one caller |
| `ApplyBlockProofs!RaceKeepsTip` | `[]TipStoredInRace` of any number of callers |
| `ApplyBlockProofs!MoneyKept` | `[]LedgerRight` without transfers of an account to itself |
| `ChainNodeProofs!TypeCorrect`, `NoSlash`, `CommitsSound`, `FinalBlocks`, `Refinement` | `[]TypeOK`, `[]NoFalseSlash`, `[]CommitsBacked`, `[]Finality`, `ImplementsFinalChain` |
| `BridgeMintProofs!RowsAreTrue`, `NoGapLeft`, `MintsAreTransfers` | `[]RowsTrue`, `[]GapsClosed`, `ImplementsTransfers` |
| `BridgeReleaseProofs!CursorIsTrue`, `ReleasesAreTransfers`, `ConfirmedAndPaid`, `AlwaysSolvent` | `[]CursorTrue`, `ReleasesTransfers`, `[]ConfirmedPays`, `[]Solvent` |
| `PartsProofs!PoolTypes`, `NeverDry`, `NoDilution`, `NoLunch` | `[]TypeOK`, `[]NotDrained`, `ShareKeepsValue`, `[]PoolSound` of the token pool |
| `PartsProofs!StakesBooks`, `MultisigBooks`, `ProposalsKept` | `[]StakesSound`, `[]MultisigPays`, `[]ProposalsRight` |
| `PartsProofs!AnswersFresh`, `NavigationKept`, `SocketsKnown`, `LegacySafe` | `[]SettingsFresh`, `NavKept`, `[]RelayRight`, `[]LegacyKept` |

They hold for every validator set and distribution of power, every number of
rounds, heights, blocks, rows, crashes, reorganisations, accounts, delegators,
amounts, proposals, requests, tabs and calls, under these assumptions:

* the `ASSUME`s of the modules: faulty power is less than a third
  (`3 * PowerOf(Byz) < TotalPower`), the validator set is finite, the constants
  of a block tree are consistent; the fee of a pool is a fraction of at most
  one, and at least one share is locked at its opening (`MIN_TOKEN_POOL_LIQUIDITY`);
  a slash and a commission are fractions of at most one; the address of a multisig
  wallet is none of its owners (it is a hash of them); a proposal needs at least one
  vote; a custom item of the navigation has a slug of its own;
* `FsmNet`: `RoundCap < RoundMax`. In the largest round the saturating
  increment enters the same round again and `OneVotePerSlot` is false there;
* `ApplyBlock`: `SingleWriter`, one caller at most. With two it is false: the
  marker of one hides the half-applied block of the other;
* `MoneyKept`: `NoSelfTransfer`, no transfer of an account to itself. With one it is
  false: `SelfTransfer` is the run;
* `ChainNode!Refinement`: `GateHeight <= 2`, the gate is on from the first block
  it can apply to. `FinalBlocks` itself holds for any gate height, for the
  blocks from the gate on;
* `BridgeMint`: fewer signers are faulty than a mint takes, and the ring holds what a
  poll returns;
* `BridgeRelease`: transaction and log tell a burn, what is burnt is more than
  nothing, and the admin is an account; one transaction may burn several times and
  to anyone;
* `Vault`: the legacy wallets are wallets.

**Sums.** `SumFunctionOnSet` adds in an order that a `CHOOSE` fixes. `SumDefined`
shows that the recursion behind it has a solution, `SumRemove` that the order does not
matter; the inductions are over subsets of a finite set, by its smallest
counterexample, as the library's induction theorems are out of reach. What the
books below need follows: a sum over two disjoint sets (`SumUnion`), one that changes
at one place (`SumChange`), sums of sums (`SumGroups`, `SumSwap`), what is cut from
each member (`SumCut`), and that quotients rounded down do not exceed the whole
(`SumFloors`). **QuorumIntersection** is arithmetic on three such sums: two sets of more
than 2/3 that met only in faulty power would have more than there is.

**FsmNet.** The handlers are first reduced to seven kinds of step (`Idles`,
`Jumps`, `Prevotes`, `Learns`, `Precommits`, `Commits`, `Advances`), so that the
rest of the proof no longer looks into them. None of the safety properties is
inductive alone. The strengthening says which votes lie behind which states: a
vote of a slot not yet reached does not exist, a precommit for a block is
backed by a prevote quorum of its round, and a validator that precommitted is
locked on that block or on what a later quorum replaced it with. The heart is
`NoOvertaking`: as long as a precommit quorum for a block exists or can still
come about in a round, no later round has a prevote quorum for another. Its
step case takes a validator in the intersection of the two quorums, and asks
for the first round that could have released its lock.

**FsmRuntime.** `StepFacts` says what each event does to the height and to the block
being committed. `NeverAhead` needs that an ack in the queue is true of the chain
(`AcksTrue`); `NoQuorumLost` that what was recorded as fed is of the FSM's height,
that a slot has one quorum, and that the precommit quorum of a turn is the first
event of its drain, so that neither the cap on events nor a change of round between
poll and drain drops it (`FedFirst`).

**ApplyBlock.** `IndInv` adds to the properties where the caller is (`Progress`):
which rows of its block are on disk at each line, that marker and tip are those
it has read, and that nothing else is torn. The refinement maps the chain to the
blocks below the tip on disk, and the status to the marker and the node. With
several callers only the batch that writes block and tip together is left to argue
with: `RaceKeepsTip`.

**TxPool.** A block is simulated, and then applied, by two recursive functions of how many
of its transactions are done (`Simulated`, `Applied`). `RunExists` shows that
such a function is defined, `UpTo` is the induction over a prefix, as a smallest
counterexample again. `BlockConserves`: a transaction that applies moves what it debits
to an account, to the reserve or to the fees of the block. `Covers` relates the two
functions after the same prefix: until a swap the price is the one at the start, the
nonces agree, and no forecast balance is above the real one, since the forecast counts
what a sender pays and not what it is paid. So `ForecastHolds`: a block
without a swap that was let through applies to its end.

**ChainNode.** `IndInv` links blocks and heights (`Linked`), says that every vote
in a pool or on its way stems from a block its signer has applied
(`VotesBacked`), that commits are backed (`CommitsBacked`) and that every
block with a child has its commit on that node (`Gated`). Two commits of one
height would be two quorums, with an honest validator that had applied both:
`OneCommitPerHeight`. The refinement maps the final chain to the longest chain
without its tip; its step case needs that the longest chain grows at its end
only (`Tallest`).

**Parts.** A step of the whole is a step of one part or leaves it alone
(`PartsSteps`), so each part has an inductive invariant of its own.

**TokenPool.** Rounding down is `DivBounds`. An operation that changes the shares
leaves at least as much of each reserve behind a share (`AddKeeps`,
`RemoveKeeps`), a swap a product that is no less (`SwapKeeps`); `PairKeeps` turns
both into the property. Dividing needs reserves above zero: the invariant
`NotDrained`, which in turn needs that what shares are paid is rounded down.
`PoolSound` adds the books and the gain of one account. `Custody` is three sums that
an operation changes at one account (`CustodyStep`). That nobody gains alone is not
inductive: the invariant `Duels` says that an account that is the only one to have
acted and the pool together have what they had at the opening, and that the product
of the reserves behind a squared share has not fallen, which bounds what the account
may have taken (`NoGainAlone`).

**Staking.** Operations work on a copy of the blob, and a slash may bring an old copy
back, so soundness is said of a blob by itself (`BlobOK`): its shares have owners, and
the stake behind a share is exactly one unit until its validator is slashed and never
more after. Nothing can be staked with a slashed validator, which is why the quotient
at a deposit is exact; without the clause on jailed validators the invariant is not
inductive. `Books` relates a blob to what delegators have put in and taken out, and is
kept as long as no slash undid a write. The queue is a sequence summed over its
indices: what matures is a prefix (`MaturedFirst`), and dropping it shifts the rest
(`OwedDrop`).

**Multisig, Governance.** `MsInv` counts what went to others and what executors
overwrote; `Execute` has cases of its own for an executor who is the payee. `GovInv`
adds that what is approved had ended and passed and has a closed tally
(`ApprovedPassed`), that what was carried out stays so while no status is lost
(`DoneEnded`), and that the flag is that of the last proposal carried out.

**SettingsCache, NavAdmin, WcRelay.** What the cache and every read in flight hold was
the table at a time no longer ago than a read and the cache may take (`SettingsInv`);
an id is used once, so that a deletion under way is of an item that an admin added
(`IdsRight`); an open socket holds the slot of its role (`OpenHolds`).

**BridgeMint.** Rows, batch and pool of transactions are of locks of ours
(`Genuine`), so a quorum behind any other request would be faulty signers alone.
A receipt belongs to the row at hand (`AtWork`). The gap below the poll is filled
from both ends, newest first above and oldest first below: `Filled` says how
far, of what the ring still holds (`Got`), and the cursor takes the end only when
the two have met.

**BridgeRelease.** Blocks `Confirmations` below the highest head ever are not
reorganised (`DeepStays`), and the watcher reads no others (`Deep`). What a query
read is therefore the same when the cursor advances later (`ChunkRead`), and
rows, claims and releases are of burns that stay (`Genuine`). `Backed` says that what
is locked and what was released add up to what was locked at first, of which BSC
never burns more: the locked coins cover the rest (`AlwaysSolvent`). For
`ConfirmedAndPaid`, a release adds one burn to the sum of one account (`ReleasePays`),
and the admin's row, written last, is no other account's.

**Vault.** `LegacyKept` says nothing of the lists that tabs and calls hold, yet
these are what is written next; the invariant `ListsHold` says that each of them
has every legacy wallet that the user did not remove; a list that a change of
password shares with its tab grows and is left with it (`SharedHolds`).

Only model-checked: the liveness properties (`CommitReleases`, `Delivered`, `Settled`,
`RoundsEnd`, `ChainGrows`, `NodeGrows`, `Settles`), as fairness is beyond the prover.
The three properties that a run violates are false.

## 5. Disagreements between code and documentation

Three runs expect a violation. Each checks what a comment of the repository
says, and its trace is the disagreement; the quotations are in `PROJECT.json`
under `findings`.

* **BridgeTwoBurns.** The chain keys claims by the BSC transaction, the relayer its
  rows by transaction and log index: the second burn of a transaction is marked
  confirmed on the claim of the first and is never paid. `ConfirmedPays`, which holds
  and is proved, is what the code keeps for any burns: a confirmed row has a claim of its
  transaction behind it, and an account has what was released to it.
* **SelfTransfer.** A transfer of an account to itself reads the receiver's row
  before the sender's is written and writes it last: nothing is debited, the
  amount is credited, and the fee is shared out all the same.
* **VaultLost.** Unlocking an unlocked vault again replaces the list in memory by
  the one on disk: a wallet whose save has failed is nowhere.

Seen while modelling, and left as notes because no run above is about them:

* Blocks are applied before they are voted on: proposers of two rounds can fork a
  height with no faulty validator, and nobody reverts. The gate keeps the fork one
  block deep (`Finality`) and may leave both sides waiting.
* Votes are gossiped once and not synced, so a node that was down never stores
  the commit that the gate will ask of it.
* Two tasks may be in `apply_block` at once; `UnmarkedIsClean` is false then.
* `apply_tx` checks the fee against bounds that a swap of the same block has
  moved, and a swap may miss its `min_out`: a block that passed the
  pre-validation is then abandoned with its marker set, against
  `state.rs` 2924-2926, and the node waits for an operator.
* `Multisig`: an executor who is also the payee loses the credit
  (`state.rs` 1379-1381).
* `BridgeIn` has the same pattern: with the admin as recipient, the row written
  last (`state.rs` 1782-1783) is the one read before the credit (1758-1760, for zUSD
  1774-1776). The coins leave the lock, the claim is used, the relayer's row becomes
  confirmed, and nobody has the coins. `Release` models it, the run has such a burn, and
  `ConfirmedPays` excepts the admin's account for it.
* Staking: a slash is applied when a node sees the double sign and not in a block
  (`main.rs` 1409), so that the state of nodes may differ; a redelegation before
  it escapes it; epoch rewards without an active validator are burnt; `unjail` and
  `slash_downtime` are called by nothing.
* Governance: an effect whose status cannot be written is carried out again.
* Relayer: event 0 is never backfilled by a fresh relayer that finds more than 500
  events (`zebvix-watcher.ts` 152, against line 42), as cursor 0 means both "seen
  0" and "seen nothing"; signers look at the last 500 events only; attempts count
  every change of status; `index.ts` waits for one confirmation.
* Settings: a load in flight when a write invalidates the cache stores the older
  map again, for a TTL, against `admin-settings.ts` 128-129.
* Navigation: a kill between the two statements of a reset, or a custom item under
  a built-in slug, leaves no built-in items, and `ensureSeeded` does not restore
  them in a table that is not empty.
* WalletConnect: a socket accepted while the old one of its role is closing has its
  slot cleared by the close event of the old one (`wc-relay.ts` 150).
* Vault: two tabs overwrite each other's saves; a save begun before a change of
  password may end after it, under the old key.
* `pair.ts`: the long poll answers at once or, with nothing pending, returns at once
  without an answer; its waiting loop is not reached.
* In the FSM runtime, which `main.rs` does not start yet: `on_higher_round` and
  `on_proposal` take an FSM out of step Commit while it waits for an ack, which
  the comments on `committing` and `enter_round` rule out; the runtime polls the
  current round only, while `on_precommit_quorum` accepts a commit of any round;
  `handle_action` takes a block out of the cache before it knows that it applies;
  at the largest round the FSM enters the same round again.

## 6. Not modelled

Abstracted on purpose: signatures (cannot be forged), encodings, hashing, peer
discovery, logging and metrics, RPC.

* The validator set is fixed in `FsmNet` and `ChainNode`; commits carry votes of one
  round, since every vote is cast in round 0 today; vote pools are not pruned
  (their window of 50 heights is longer than any chain here).
* The FSM has no restart in `FsmNet`: `recover_from_state` brings back only the
  height, and what a validator may sign after a restart has to be modelled with
  the activation of the runtime.
* Of the chain: tokens, payment identifiers, the registry of validators, contract
  calls (the ZVM is an interpreter behind a feature flag), the main pool's loan
  and settlement, block rewards, the fast sync of state, pausing of the bridge,
  three of the four effects of a proposal, the creation of multisig wallets.
* Of the bridge contract: pausing and the change of validators.
* The dashboards, sites and SDK are most of the repository's lines (nine tenths
  of its TypeScript): forms, tables and formatting around the RPC, each request
  answered in one handler, without state that two actors share. That is why the
  mapped share of all lines is small although the protocols among them are
  modelled.
* `pair.ts`, the token registry and the RPC proxy of the API server answer one
  client at a time from a map in memory.
