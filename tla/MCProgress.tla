----------------------------- MODULE MCProgress -----------------------------
(* Parts that must move on, each on its own: they share no state here, and a behaviour
   is that of a single part.  The mempool and its producer is the module this one extends;
   the others are instances: a validator whose own votes are quorums (Moves), a sole
   validator with a follower (Alone), the proposals of the governance (Gov). *)
EXTENDS MCTxPool

LineParent   == ("a1" :> "genesis") @@ ("a2" :> "a1") @@ ("a3" :> "a2")
LineHeight   == ("a1" :> 1) @@ ("a2" :> 2) @@ ("a3" :> 3)
LineProposer == [b \in {"a1", "a2", "a3"} |-> "v1"]

VARIABLES
    part,  \* the component this behaviour is about
    f_fsm, f_votes, f_decided,
    c_chain, c_commits, c_pool, c_emitted, c_prod, c_net, c_up, c_crashes,
    g_proposals, g_votes, g_flag, g_height, g_ticking, g_order, g_unsaved, g_faults

Moves == INSTANCE FsmNet WITH
    Validators <- {"v1"}, Byz <- {}, Power <- ("v1" :> 1), Hash <- {"a"},
    Nil <- "nil", Proposable <- [r \in 0 .. 2 |-> {"a"}], RoundMax <- 9,
    RoundCap <- 2, HeightCap <- 2, fsm <- f_fsm, votes <- f_votes,
    decided <- f_decided
Alone == INSTANCE ChainNode WITH
    Validators <- {"v1"}, Power <- ("v1" :> 1), Order <- <<"v1">>,
    Nodes <- {"v1", "f"}, Byz <- {}, Block <- {"a1", "a2", "a3"},
    Genesis <- "genesis", Parent <- LineParent, Height <- LineHeight,
    Proposer <- LineProposer, GateHeight <- 1, CrashCap <- 2, chain <- c_chain,
    commits <- c_commits, pool <- c_pool, emitted <- c_emitted, prod <- c_prod,
    net <- c_net, up <- c_up, crashes <- c_crashes
Gov == INSTANCE Governance WITH
    Wallet <- {"a", "b"}, Value <- {"on", "off"}, TestBlocks <- 1, VoteBlocks <- 2,
    MinQuorum <- 2, PassBps <- 9, BpsDen <- 10, MaxActive <- 1, MaxProposals <- 2,
    MaxHeight <- 4, MaxFaults <- 1, proposals <- g_proposals, votes <- g_votes,
    flag <- g_flag, height <- g_height, ticking <- g_ticking, order <- g_order,
    unsaved <- g_unsaved, faults <- g_faults

movesVars == <<f_fsm, f_votes, f_decided>>
aloneVars == <<c_chain, c_commits, c_pool, c_emitted, c_prod, c_net, c_up,
    c_crashes>>
govVars == <<g_proposals, g_votes, g_flag, g_height, g_ticking, g_order, g_unsaved,
    g_faults>>
allVars == <<part, vars, movesVars, aloneVars, govVars>>

PartsInit ==
    /\ part \in {"pool", "moves", "alone", "governance"}
    /\ Init /\ Moves!Init /\ Alone!Init /\ Gov!Init

\* One component takes its steps; the others stay as they are.
OnlyPool ==
    /\ part = "pool"
    /\ UNCHANGED <<part, movesVars, aloneVars, govVars>>
OnlyMoves ==
    /\ part = "moves"
    /\ UNCHANGED <<part, vars, aloneVars, govVars>>
OnlyAlone ==
    /\ part = "alone"
    /\ UNCHANGED <<part, vars, movesVars, govVars>>
OnlyGov ==
    /\ part = "governance"
    /\ UNCHANGED <<part, vars, movesVars, aloneVars>>

PartsNext ==
    \/ OnlyPool /\ Next
    \/ OnlyMoves /\ Moves!Next
    \/ OnlyAlone /\ Alone!Next
    \/ OnlyGov /\ Gov!Next

PartsSpec ==
    /\ PartsInit /\ [][PartsNext]_allVars
    /\ WF_allVars(OnlyMoves /\ Moves!TickStep("v1"))
    /\ \A n \in {"v1", "f"} :
          /\ WF_allVars(OnlyAlone /\ Alone!TipAdvanced(n))
          /\ WF_allVars(OnlyAlone /\ Alone!ProposeTimeout(n))
          /\ WF_allVars(OnlyAlone /\ Alone!ProposeInTurn(n))
          /\ WF_allVars(OnlyAlone /\ Alone!EmitVote(n))
          /\ WF_allVars(OnlyAlone /\ Alone!ReceiveBlock(n))
          /\ WF_allVars(OnlyAlone /\ Alone!ReceiveVote(n))
          /\ WF_allVars(OnlyAlone /\ Alone!Restart(n))
    /\ WF_allVars(OnlyPool /\ BuildBlock) /\ WF_allVars(OnlyPool /\ ApplyOwn)
    /\ WF_allVars(OnlyGov /\ Gov!NewBlock) /\ WF_allVars(OnlyGov /\ Gov!Tick)

-----------------------------------------------------------------------------
\* fsm.rs: timeouts alone take a validator out of every round.
RoundsEnd == part = "moves" => Moves!RoundsEnd

\* consensus.rs, main.rs: a sole validator grows its chain after every crash.
ChainGrows == part = "alone" => Alone!Grows

\* consensus.rs: with transactions or without, the node reaches its last height or is stuck.
NodeGrows == part = "pool" => Grows

\* state.rs: every proposal is decided.
Settles == Gov!Settles
=============================================================================
