-------------------------------- MODULE Parts --------------------------------
(* Parts whose books and tables must stay right, each on its own: they share no
   state here, and a behaviour is that of a single part.  The token pool is the module
   this one extends; the others are instances.  On the chain: staking (Stakes), a
   multisig wallet (Shared) and the proposals of the governance (Gov).  Beside it: the
   settings and the navigation of the API server, its WalletConnect relay, the browser
   wallet.  A constant has the name it has in its part, but for those of two parts. *)
EXTENDS TokenPool

CONSTANTS  \* Staking
    Delegator, Validator, Founder, StakeAmounts, MinSelfBond, MinDelegation,
    UnbondingEpochs, SlashBps, CommissionBps, BpsDen, Reward, StakeSteps
CONSTANTS  \* Multisig
    Owner, Treasury, Other, Threshold, Funds, MaxFunds, MaxProposals, MaxExpiry, MaxHeight
CONSTANTS  \* Governance
    Voter, Value, TestBlocks, VoteBlocks, MinQuorum, PassBps, PassDen, MaxActive,
    GovProposals, GovHeight, MaxFaults
CONSTANTS  \* SettingsCache
    Key, Reader, Writer, Keys, Valid, CacheTTL, Latency, MaxTime, MaxReads
CONSTANTS  \* NavAdmin
    Builtin, Custom, Request, MaxItems, MaxResets
CONSTANTS  \* Vault
    Wallet, Legacy, Tab, MaxKeys, MaxTasks, MaxExits
CONSTANTS  \* WcRelay
    Role, Socket, RoleOf

VARIABLES
    part,  \* the component this behaviour is about
    k_blob, k_reading, k_paid, k_deposited, k_minted, k_lost, k_steps,
    m_proposals, m_balance, m_height, m_funded, m_selfPaid,
    g_proposals, g_votes, g_flag, g_height, g_ticking, g_order, g_unsaved, g_faults,
    s_now, s_table, s_history, s_cache, s_reader, s_writer, s_answer, s_reads,
    n_rows, n_nextId, n_req, n_resets,
    v_plain, v_vault, v_open, v_keyed, v_tasks, v_mine, v_keys, v_exits,
    w_session, w_expired, w_slot, w_state, w_takeover

Stakes == INSTANCE Staking WITH
    Amounts <- StakeAmounts, MaxSteps <- StakeSteps,
    blob <- k_blob, reading <- k_reading, paid <- k_paid, deposited <- k_deposited,
    minted <- k_minted, lost <- k_lost, steps <- k_steps
Shared == INSTANCE Multisig WITH
    Wallet <- Treasury, proposals <- m_proposals, balance <- m_balance,
    height <- m_height, funded <- m_funded, selfPaid <- m_selfPaid
Gov == INSTANCE Governance WITH
    Wallet <- Voter, BpsDen <- PassDen, MaxProposals <- GovProposals,
    MaxHeight <- GovHeight, proposals <- g_proposals, votes <- g_votes,
    flag <- g_flag, height <- g_height, ticking <- g_ticking, order <- g_order,
    unsaved <- g_unsaved, faults <- g_faults
Settings == INSTANCE SettingsCache WITH
    now <- s_now, table <- s_table, history <- s_history, cache <- s_cache,
    reader <- s_reader, writer <- s_writer, answer <- s_answer, reads <- s_reads
Nav == INSTANCE NavAdmin WITH
    rows <- n_rows, nextId <- n_nextId, req <- n_req, resets <- n_resets
Wallets == INSTANCE Vault WITH
    plain <- v_plain, vault <- v_vault, open <- v_open, keyed <- v_keyed,
    tasks <- v_tasks, mine <- v_mine, keys <- v_keys, exits <- v_exits
Relay == INSTANCE WcRelay WITH
    session <- w_session, expired <- w_expired, slot <- w_slot, state <- w_state,
    takeover <- w_takeover

\* The address of a multisig wallet is a hash of its owners, so it is none of them; a
\* ballot asks for at least one vote; the built-in items have slugs of their own; a
\* socket is of the role it gave when it connected.
ASSUME PartsAssumption ==
    /\ {TestBlocks, VoteBlocks, MaxFaults, GovHeight} \subseteq Nat /\ MinQuorum \in Nat \ {0}
    /\ IsFiniteSet(Owner \cup Other) /\ Treasury \notin Owner
    /\ {Funds, MaxFunds, MaxExpiry, MaxHeight} \subseteq Nat
    /\ {CacheTTL, Latency, MaxTime, MaxReads} \subseteq Nat
    /\ Keys \in [Writer -> SUBSET Key]
    /\ IsFiniteSet(Builtin) /\ Builtin \cap Custom = {} /\ {MaxItems, MaxResets} \subseteq Nat
    /\ Legacy \subseteq Wallet
    /\ RoleOf \in [Socket -> Role] /\ Relay!Nobody \notin Socket

\* A slash and a commission are shares of a whole: SLASH_DOUBLE_SIGN_BPS and
\* REWARDS_COMMISSION_BPS are at most COMMISSION_BPS_DEN.
ASSUME StakesAssumption ==
    /\ IsFiniteSet(Delegator) /\ IsFiniteSet(Validator) /\ Founder \in Delegator
    /\ StakeAmounts \subseteq Nat /\ {UnbondingEpochs, Reward, StakeSteps} \subseteq Nat
    /\ BpsDen \in Nat \ {0} /\ {SlashBps, CommissionBps} \subseteq 0 .. BpsDen

stakesVars == <<k_blob, k_reading, k_paid, k_deposited, k_minted, k_lost, k_steps>>
sharedVars == <<m_proposals, m_balance, m_height, m_funded, m_selfPaid>>
govVars == <<g_proposals, g_votes, g_flag, g_height, g_ticking, g_order, g_unsaved,
    g_faults>>
settingsVars == <<s_now, s_table, s_history, s_cache, s_reader, s_writer, s_answer,
    s_reads>>
navVars == <<n_rows, n_nextId, n_req, n_resets>>
vaultVars == <<v_plain, v_vault, v_open, v_keyed, v_tasks, v_mine, v_keys, v_exits>>
relayVars == <<w_session, w_expired, w_slot, w_state, w_takeover>>
allVars == <<part, vars, stakesVars, sharedVars, govVars, settingsVars, navVars, vaultVars,
    relayVars>>

PartsInit ==
    /\ part \in {"token pool", "staking", "multisig", "governance", "settings",
                "navigation", "vault", "relay"}
    /\ Init /\ Stakes!Init /\ Shared!Init /\ Gov!Init
    /\ Settings!Init /\ Nav!Init /\ Wallets!Init /\ Relay!Init

\* One component takes its steps; the others stay as they are.
OnlyAmm ==
    /\ part = "token pool"
    /\ UNCHANGED <<part, stakesVars, sharedVars, govVars, settingsVars, navVars,
           vaultVars, relayVars>>
OnlyStakes ==
    /\ part = "staking"
    /\ UNCHANGED <<part, vars, sharedVars, govVars, settingsVars, navVars,
           vaultVars, relayVars>>
OnlyShared ==
    /\ part = "multisig"
    /\ UNCHANGED <<part, vars, stakesVars, govVars, settingsVars, navVars,
           vaultVars, relayVars>>
OnlyGov ==
    /\ part = "governance"
    /\ UNCHANGED <<part, vars, stakesVars, sharedVars, settingsVars, navVars,
           vaultVars, relayVars>>
OnlySettings ==
    /\ part = "settings"
    /\ UNCHANGED <<part, vars, stakesVars, sharedVars, govVars, navVars,
           vaultVars, relayVars>>
OnlyNav ==
    /\ part = "navigation"
    /\ UNCHANGED <<part, vars, stakesVars, sharedVars, govVars, settingsVars,
           vaultVars, relayVars>>
OnlyVault ==
    /\ part = "vault"
    /\ UNCHANGED <<part, vars, stakesVars, sharedVars, govVars, settingsVars,
           navVars, relayVars>>
OnlyRelay ==
    /\ part = "relay"
    /\ UNCHANGED <<part, vars, stakesVars, sharedVars, govVars, settingsVars,
           navVars, vaultVars>>

PartsNext ==
    \/ OnlyAmm /\ Next
    \/ OnlyStakes /\ Stakes!Next
    \/ OnlyShared /\ Shared!Next
    \/ OnlyGov /\ Gov!Next
    \/ OnlySettings /\ Settings!Next
    \/ OnlyNav /\ Nav!Next
    \/ OnlyVault /\ Wallets!Next
    \/ OnlyRelay /\ Relay!Next

PartsSpec == PartsInit /\ [][PartsNext]_allVars

-----------------------------------------------------------------------------
\* token_pool.rs: every share has an owner and the ledger its reserves, and nobody
\* alone takes more out than it put in.
PoolSound == TypeOK /\ Custody /\ NoFreeLunch

\* staking.rs: shares have owners, staking owes and pays no more than it was given,
\* and no order of operations makes a delegator richer than its rewards.
StakesSound == Stakes!TypeOK /\ Stakes!SharesHeld /\ Stakes!Solvent /\ Stakes!NoGain

\* state.rs: a proposal of a multisig wallet pays once, and what is paid arrives.
MultisigPays == Shared!TypeOK /\ Shared!PaysOnce /\ Shared!Arrives

\* state.rs: one wallet, one vote; what is carried out had passed, and is carried out once.
ProposalsRight == Gov!TypeOK /\ Gov!TallyIsBallots /\ Gov!FlagBacked /\ Gov!OnceEach

\* admin-settings.ts: an answer is the whole of a recent content of the table.
SettingsFresh == Settings!TypeOK /\ Settings!FreshAndWhole

\* admin.ts: the built-in items of the navigation are all there or all gone, and a
\* custom item goes only by its own deletion.
NavKept == [](Nav!TypeOK /\ Nav!AllOrNothing) /\ Nav!CustomKept

\* wallet-vault.ts: the wallets from before the vault stay in localStorage.
LegacyKept == Wallets!TypeOK /\ Wallets!LegacyKept

\* wc-relay.ts: one open socket for a role, and a session as long as its peers need it.
RelayRight == Relay!OnePerRole /\ Relay!ConnectedIsKnown
=============================================================================
