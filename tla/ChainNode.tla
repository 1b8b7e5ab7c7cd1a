----------------------------- MODULE ChainNode ------------------------------
(***************************************************************************)
(* The consensus that runs today: the legacy producer of consensus.rs, the *)
(* vote loop and the inbound consumer that cmd_start spawns in main.rs,    *)
(* and the 2/3 commit gate of apply_block, on every node of a network.     *)
(*                                                                         *)
(* A producer applies its own block and gossips it afterwards; whoever has *)
(* the parent as tip applies it, elected proposer or not.  After the fact  *)
(* each validator signs a vote for its tip.  When a node's pool holds 2/3  *)
(* of the power for a block, the node stores the commit of that block in   *)
(* its side table, and from GateHeight on it applies no child of a block   *)
(* whose commit it does not have.                                          *)
(*                                                                         *)
(* A block is applied at once here: module ApplyBlock shows that crashes   *)
(* do not tear it.  Blocks carry only transactions that apply.  The chain  *)
(* and the side table are on disk; the pool, the producer's round and the  *)
(* height of the last vote are in memory.  The clock is reduced to the     *)
(* choice of a step: a tick finds the round expired, or not; 5 s passed    *)
(* since it started, or not.  A block that has been applied somewhere can  *)
(* reach any node at any time, by gossip or by sync.  A vote is sent once, *)
(* to the nodes that are up, and those that crash before it arrives never  *)
(* see it.  Prevotes have no effect in this path and are left out; the     *)
(* validator set is fixed; pools are not pruned (gc_below keeps 50         *)
(* heights).                                                               *)
(*                                                                         *)
(* Bounds: the blocks of Block, and CrashCap crashes in all.               *)
(***************************************************************************)
EXTENDS VotingPower, Sequences, FiniteSets

CONSTANTS
    Nodes,       \* nodes that follow the protocol, validators or followers
    Byz,         \* validators that do not
    Order,       \* the validators sorted by address
    Block,       \* block hashes
    Genesis,     \* the zero hash
    Parent,      \* header.parent_hash
    Height,      \* header.height
    Proposer,    \* header.proposer
    GateHeight,  \* BFT_COMMIT_GATE_ACTIVATION_HEIGHT
    CrashCap     \* bound on crashes

Honest == Validators \ Byz

ASSUME ChainAssumption ==
    /\ Byz \subseteq Validators /\ Honest \subseteq Nodes /\ Nodes \cap Byz = {}
    /\ Order \in Seq(Validators) /\ Order # <<>>
    /\ Genesis \notin Block
    /\ Parent \in [Block -> Block \cup {Genesis}]
    /\ Height \in [Block -> Nat \ {0}]
    /\ \A b \in Block : Height[b] = IF Parent[b] = Genesis THEN 1 ELSE Height[Parent[b]] + 1
    /\ Proposer \in [Block -> Validators]
    /\ GateHeight \in Nat /\ CrashCap \in Nat

\* Byzantine voting power is less than a third of the total.
ASSUME ByzAssumption == 3 * PowerOf(Byz) < TotalPower

VARIABLES
    chain,     \* the blocks each node has applied
    commits,   \* side table: the blocks whose commit each node has stored
    pool,      \* the precommits in each node's vote pool
    emitted,   \* last_emitted: the height of the last vote
    prod,      \* local variables of Producer::run
    net,       \* votes on their way
    up,        \* nodes that are running
    crashes    \* how many crashes there have been

vars == <<chain, commits, pool, emitted, prod, net, up, crashes>>

Vote    == [val : Validators, block : Block]
Message == [to : Nodes, vote : Vote]

\* Rounds after 0 count modulo the number of validators: they are used to
\* elect the proposer and to be told from round 0.
Round        == 0..Len(Order)
NextRound(r) == IF r = Len(Order) THEN 1 ELSE r + 1

Elected(h, r) == Order[((h + r) % Len(Order)) + 1]

HasApplied(n, b) == \E i \in 1..Len(chain[n]) : chain[n][i] = b

Tip(n) == IF chain[n] = <<>> THEN Genesis ELSE chain[n][Len(chain[n])]

-----------------------------------------------------------------------------
(* apply_block, as far as consensus goes. *)

\* Mutation: the gate looks for a commit of any block of the parent's height.
GateOfHeight(n, b) ==
    Height[b] >= GateHeight /\ Height[b] > 1 =>
        \E c \in commits[n] : Height[c] = Height[b] - 1

\* The commit of the parent is in the side table, unless it is genesis.
GateOpen(n, b) == Height[b] >= GateHeight /\ Height[b] > 1 => Parent[b] \in commits[n]

\* Mutation: a block replaces the tip of the same height.
ReplaceTip(n, b) ==
    /\ GateOpen(n, b)
    /\ \/ Parent[b] = Tip(n) /\ chain' = [chain EXCEPT ![n] = Append(@, b)]
       \/ /\ chain[n] # <<>> /\ Height[b] = Len(chain[n])
          /\ chain' = [chain EXCEPT ![n][Len(chain[n])] = b]

\* Height[b] is then one more than the height of the tip.
Apply(n, b) ==
    /\ Parent[b] = Tip(n)
    /\ GateOpen(n, b)
    /\ chain' = [chain EXCEPT ![n] = Append(@, b)]

-----------------------------------------------------------------------------
(* Producer::run.  A tick of the loop does one of three things, or none.  (A *)
(* follower is never elected: its producer only watches.)                   *)

\* build_block and apply_block.  A block the gate refuses is dropped, and this
\* round is spent all the same.
Produce(n, p) ==
    LET buildable == {b \in Block : Parent[b] = Tip(n) /\ Proposer[b] = n /\ GateOpen(n, b)}
    IN  /\ prod' = [prod EXCEPT ![n] = [p EXCEPT !.produced = TRUE]]
        /\ IF buildable = {} THEN UNCHANGED chain ELSE \E b \in buildable : Apply(n, b)

\* The tip has moved: round 0 of the next height begins.
TipAdvanced(n) ==
    /\ n \in up \cap Validators /\ prod[n].height # Len(chain[n]) + 1
    /\ prod' = [prod EXCEPT ![n] = [height |-> Len(chain[n]) + 1, round |-> 0, produced |-> FALSE]]
    /\ UNCHANGED <<chain, commits, pool, emitted, net, up, crashes>>

\* The propose timeout: the proposer of the next round produces at once.
ProposeTimeout(n) ==
    /\ n \in up \cap Validators /\ prod[n].height = Len(chain[n]) + 1
    /\ LET p == [prod[n] EXCEPT !.round = NextRound(@), !.produced = FALSE]
       IN  IF Elected(p.height, p.round) = n THEN Produce(n, p)
           ELSE prod' = [prod EXCEPT ![n] = p] /\ UNCHANGED chain
    /\ UNCHANGED <<commits, pool, emitted, net, up, crashes>>

\* The elected proposer has waited the block time.
ProposeInTurn(n) ==
    /\ n \in up /\ prod[n].height = Len(chain[n]) + 1
    /\ Elected(prod[n].height, prod[n].round) = n /\ ~prod[n].produced
    /\ Produce(n, prod[n])
    /\ UNCHANGED <<commits, pool, emitted, net, up, crashes>>

-----------------------------------------------------------------------------
(* Votes. *)

PowerFor(votes, b) == PowerOf({v \in Validators : [val |-> v, block |-> b] \in votes})

\* Mutation: the votes of a height are counted together.
AddToHeight(n, v) ==
    IF \E w \in pool[n] : w.val = v.val /\ Height[w.block] = Height[v.block]
      THEN UNCHANGED <<pool, commits>>
      ELSE /\ pool' = [pool EXCEPT ![n] = @ \cup {v}]
           /\ commits' = [commits EXCEPT ![n] =
                IF PowerOf({w.val : w \in {x \in pool'[n] : Height[x.block] = Height[v.block]}})
                     >= QuorumPower
                  THEN @ \cup {v.block} ELSE @]

\* VotePool::add, then try_persist_bft_commit_for when the block has a quorum.
\* A second vote of a validator for a height is not added.
Add(n, v) ==
    IF \E w \in pool[n] : w.val = v.val /\ Height[w.block] = Height[v.block]
      THEN UNCHANGED <<pool, commits>>
      ELSE /\ pool' = [pool EXCEPT ![n] = @ \cup {v}]
           /\ commits' = [commits EXCEPT ![n] =
                IF PowerFor(pool'[n], v.block) >= QuorumPower THEN @ \cup {v.block} ELSE @]

\* The vote loop: a validator votes for its tip, once it has moved.
EmitVote(n) ==
    /\ n \in up /\ Len(chain[n]) > emitted[n]
    /\ emitted' = [emitted EXCEPT ![n] = Len(chain[n])]
    /\ IF n \in Validators
         THEN LET v == [val |-> n, block |-> Tip(n)]
              IN  /\ Add(n, v)
                  /\ net' = net \cup [to : up \ {n}, vote : {v}]
         ELSE UNCHANGED <<pool, commits, net>>
    /\ UNCHANGED <<chain, prod, up, crashes>>

-----------------------------------------------------------------------------
(* The inbound consumer. *)

\* A block some node has applied, or that a faulty proposer has signed.
Delivered(b) ==
    \/ Proposer[b] \in Byz
    \/ \E m \in Nodes : HasApplied(m, b)

ReceiveBlock(n) ==
    /\ n \in up
    /\ \E b \in Block : Delivered(b) /\ Apply(n, b)
    /\ UNCHANGED <<commits, pool, emitted, prod, net, up, crashes>>

ReceiveVote(n) ==
    /\ n \in up
    /\ \E m \in net : m.to = n /\ Add(n, m.vote) /\ net' = net \ {m}
    /\ UNCHANGED <<chain, emitted, prod, up, crashes>>

\* Faulty validators sign anything, and not the same to everyone.
ReceiveFaultyVote(n) ==
    /\ n \in up
    /\ \E v \in [val : Byz, block : Block] : Add(n, v)
    /\ UNCHANGED <<chain, emitted, prod, net, up, crashes>>

-----------------------------------------------------------------------------
NewProducer == [height |-> 0, round |-> 0, produced |-> FALSE]

Init ==
    /\ chain = [n \in Nodes |-> <<>>]
    /\ commits = [n \in Nodes |-> {}]
    /\ pool = [n \in Nodes |-> {}]
    /\ emitted = [n \in Nodes |-> 0]
    /\ prod = [n \in Nodes |-> NewProducer]
    /\ net = {}
    /\ up = Nodes
    /\ crashes = 0

Crash(n) ==
    /\ n \in up /\ crashes < CrashCap
    /\ up' = up \ {n}
    /\ crashes' = crashes + 1
    /\ pool' = [pool EXCEPT ![n] = {}]
    /\ prod' = [prod EXCEPT ![n] = NewProducer]
    /\ net' = {m \in net : m.to # n}
    /\ UNCHANGED <<chain, commits, emitted>>

\* Mutation: the vote loop starts at the tip.
RestartAtTip(n) ==
    /\ n \notin up
    /\ up' = up \cup {n}
    /\ emitted' = [emitted EXCEPT ![n] = Len(chain[n])]
    /\ UNCHANGED <<chain, commits, pool, prod, net, crashes>>

\* The vote loop starts one below the tip, and votes for the tip again.
Restart(n) ==
    /\ n \notin up
    /\ up' = up \cup {n}
    /\ emitted' = [emitted EXCEPT ![n] = IF chain[n] = <<>> THEN 0 ELSE Len(chain[n]) - 1]
    /\ UNCHANGED <<chain, commits, pool, prod, net, crashes>>

NodeStep(n) ==
    \/ TipAdvanced(n) \/ ProposeTimeout(n) \/ ProposeInTurn(n)
    \/ EmitVote(n)
    \/ ReceiveBlock(n) \/ ReceiveVote(n) \/ ReceiveFaultyVote(n)
    \/ Crash(n) \/ Restart(n)

Next == \E n \in Nodes : NodeStep(n)

Spec == Init /\ [][Next]_vars

\* Every loop of a node keeps running, and a node that crashed is restarted.
FairSpec ==
    /\ Spec
    /\ \A n \in Nodes :
          /\ WF_vars(TipAdvanced(n)) /\ WF_vars(ProposeTimeout(n)) /\ WF_vars(ProposeInTurn(n))
          /\ WF_vars(EmitVote(n))
          /\ WF_vars(ReceiveBlock(n)) /\ WF_vars(ReceiveVote(n))
          /\ WF_vars(Restart(n))

-----------------------------------------------------------------------------
(* Properties *)

TypeOK ==
    /\ chain \in [Nodes -> Seq(Block)]
    /\ commits \in [Nodes -> SUBSET Block]
    /\ pool \in [Nodes -> SUBSET Vote]
    /\ emitted \in [Nodes -> Nat]
    /\ prod \in [Nodes -> [height : Nat, round : Round, produced : BOOLEAN]]
    /\ net \subseteq Message
    /\ up \subseteq Nodes
    /\ crashes \in 0..CrashCap

\* Every vote there is, on its way or in a pool.
AllVotes == {m.vote : m \in net} \cup UNION {pool[n] : n \in Nodes}

\* A double sign is slashed: no node ever holds, or is about to receive, two
\* votes of an honest validator for one height, restarts included.
NoFalseSlash ==
    \A v, w \in AllVotes :
        v.val \in Honest /\ v.val = w.val /\ Height[v.block] = Height[w.block] => v.block = w.block

\* The commit of a block, in any side table, carries the votes of validators
\* that have applied it, up to the faulty ones.
CommitsBacked ==
    \A n \in Nodes : \A b \in commits[n] :
        Byz \cup {v \in Honest : HasApplied(v, b)} \in Quorums

\* A block with a child, from the gate's height on, is the same on all nodes.
Finality ==
    \A n, m \in Nodes : \A h \in 1..Len(chain[n]) :
        h + 1 >= GateHeight /\ h < Len(chain[n]) /\ h < Len(chain[m]) => chain[n][h] = chain[m][h]

\* With the gate on from the first blocks, the network has one chain of final
\* blocks: the longest one without its tip.
Longest == CHOOSE n \in Nodes : \A m \in Nodes : Len(chain[m]) <= Len(chain[n])
Final   == SubSeq(chain[Longest], 1, Len(chain[Longest]) - 1)

Abstract == INSTANCE FinalChain WITH final <- Final

ImplementsFinalChain == Abstract!Spec

\* The chain of a sole validator grows for ever, whatever the crashes: its own vote
\* opens the gate.  (Up to the last height of the model.)
Grows == \A n \in Honest : []<>(\A b \in Block : Parent[b] # Tip(n))
=============================================================================
