----------------------------- MODULE Governance -----------------------------
(* Proposals of the chain: submitted and voted on by transactions, moved on by
   tick_proposals at the end of a block.  A transaction sees the height of the
   block before its own.  A tick takes the proposals by their ids; one whose
   effect cannot be written stays approved for the next block, and a status that
   cannot be written ends the tick.  A proposal sets one flag. *)
EXTENDS Naturals, Sequences, FiniteSets

CONSTANTS
    Wallet,       \* those who hold enough to propose; all may vote
    Value,        \* values of the flag
    TestBlocks,   \* TEST_PHASE_BLOCKS
    VoteBlocks,   \* VOTE_PHASE_BLOCKS
    MinQuorum,    \* MIN_QUORUM_VOTES
    PassBps, BpsDen,  \* PASS_THRESHOLD_BPS of 10,000
    MaxActive,    \* MAX_ACTIVE_PROPOSALS_PER_ADDRESS
    MaxProposals, \* bound: proposals
    MaxHeight,    \* bound: blocks
    MaxFaults     \* bound: writes that fail

VARIABLES
    proposals,    \* prop/<id>
    votes,        \* prop_vote/<id>: who voted what
    flag,         \* ff/<key>
    height,
    ticking,      \* the proposals this tick has yet to see
    order,        \* the proposals whose effect was written, in order
    unsaved,      \* a status could not be written
    faults

vars == <<proposals, votes, flag, height, ticking, order, unsaved, faults>>

Status   == {"Testing", "Voting", "Rejected", "Approved", "Activated"}
Ids      == DOMAIN proposals
Active   == {i \in Ids : proposals[i].status \in {"Testing", "Voting"}}
Unset    == "unset"
NoBallot == [w \in {} |-> TRUE]

Init ==
    /\ proposals = <<>> /\ votes = <<>> /\ flag = Unset
    /\ height = 0 /\ ticking = <<>> /\ order = <<>> /\ unsaved = FALSE /\ faults = 0

Fault == faults < MaxFaults /\ faults' = faults + 1

-----------------------------------------------------------------------------
Submit(w, v) ==
    /\ ticking = <<>> /\ Len(proposals) < MaxProposals
    /\ Cardinality({i \in Active : proposals[i].proposer = w}) < MaxActive
    /\ proposals' = Append(proposals,
           [proposer |-> w, value |-> v, status |-> "Testing",
            starts |-> height + TestBlocks, ends |-> height + TestBlocks + VoteBlocks,
            yes |-> 0, no |-> 0])
    /\ votes' = Append(votes, NoBallot)
    /\ UNCHANGED <<flag, height, ticking, order, unsaved, faults>>

Vote(w, i, yes) ==
    /\ ticking = <<>> /\ proposals[i].status = "Voting"
    /\ w \notin DOMAIN votes[i]
    /\ votes' = [votes EXCEPT ![i] = [x \in DOMAIN @ \cup {w} |-> IF x = w THEN yes ELSE @[x]]]
    /\ proposals' = [proposals EXCEPT ![i].yes = @ + (IF yes THEN 1 ELSE 0),
                                      ![i].no  = @ + (IF yes THEN 0 ELSE 1)]
    /\ UNCHANGED <<flag, height, ticking, order, unsaved, faults>>

-----------------------------------------------------------------------------
(* tick_proposals *)

NewBlock ==
    /\ ticking = <<>> /\ height < MaxHeight
    /\ height' = height + 1
    /\ ticking' = [i \in Ids |-> i]
    /\ UNCHANGED <<proposals, votes, flag, order, unsaved, faults>>

MeetsPassCriteria(p) ==
    /\ p.yes + p.no >= MinQuorum
    /\ (p.yes * BpsDen) \div (p.yes + p.no) >= PassBps

\* Where the heights and the tally take a proposal in one tick, effects apart.
Moved(p) ==
    LET open == IF p.status = "Testing" /\ height >= p.starts THEN "Voting" ELSE p.status
    IN IF open = "Voting" /\ height >= p.ends
       THEN IF MeetsPassCriteria(p) THEN "Approved" ELSE "Rejected"
       ELSE open

Skip == ticking' = Tail(ticking)
Keep(i, status) == proposals' = [proposals EXCEPT ![i].status = status]

TickOther(i) ==
    /\ Moved(proposals[i]) # "Approved"
    /\ Keep(i, Moved(proposals[i])) /\ Skip
    /\ UNCHANGED <<votes, flag, height, order, unsaved, faults>>

\* Mutant: the approved proposal is kept for another tick.
ActivateKeeping(i) ==
    /\ Moved(proposals[i]) = "Approved"
    /\ flag' = proposals[i].value /\ order' = Append(order, i)
    /\ Keep(i, "Approved") /\ Skip
    /\ UNCHANGED <<votes, height, unsaved, faults>>

Activate(i) ==
    /\ Moved(proposals[i]) = "Approved"
    /\ flag' = proposals[i].value /\ order' = Append(order, i)
    /\ Keep(i, "Activated") /\ Skip
    /\ UNCHANGED <<votes, height, unsaved, faults>>

\* The effect cannot be written: approved, to be tried again.
EffectFails(i) ==
    /\ Fault /\ Moved(proposals[i]) = "Approved"
    /\ Keep(i, "Approved") /\ Skip
    /\ UNCHANGED <<votes, flag, height, order, unsaved>>

\* The status cannot be written: the effect stays, and the tick ends.
StatusFails(i) ==
    /\ Fault /\ Moved(proposals[i]) # proposals[i].status
    /\ IF Moved(proposals[i]) = "Approved"
       THEN flag' = proposals[i].value /\ order' = Append(order, i)
       ELSE UNCHANGED <<flag, order>>
    /\ ticking' = <<>> /\ unsaved' = TRUE
    /\ UNCHANGED <<proposals, votes, height>>

\* Mutant: a proposal that is approved is not looked at again.
TickActive ==
    /\ ticking # <<>>
    /\ LET i == Head(ticking) IN
         IF i \in Active
         THEN TickOther(i) \/ Activate(i) \/ EffectFails(i) \/ StatusFails(i)
         ELSE Skip /\ UNCHANGED <<proposals, votes, flag, height, order, unsaved, faults>>

Tick ==
    /\ ticking # <<>>
    /\ LET i == Head(ticking) IN
         \/ TickOther(i) \/ Activate(i) \/ EffectFails(i) \/ StatusFails(i)

-----------------------------------------------------------------------------
Next ==
    \/ NewBlock \/ Tick
    \/ \E w \in Wallet :
         \/ \E v \in Value : Submit(w, v)
         \/ \E i \in Ids, yes \in BOOLEAN : Vote(w, i, yes)

Spec     == Init /\ [][Next]_vars
FairSpec == Spec /\ WF_vars(NewBlock) /\ WF_vars(Tick)

-----------------------------------------------------------------------------
\* The variables keep their types.
TypeOK ==
    /\ \A i \in Ids : proposals[i].proposer \in Wallet /\ proposals[i].status \in Status
    /\ DOMAIN votes = Ids /\ \A i \in Ids : votes[i] \in [DOMAIN votes[i] -> BOOLEAN]
    /\ flag \in Value \cup {Unset} /\ height \in 0 .. MaxHeight
    /\ faults \in 0 .. MaxFaults /\ unsaved \in BOOLEAN

Voters(i, yes) == {w \in DOMAIN votes[i] : votes[i][w] = yes}

\* One wallet, one vote: the tally is that of the ballots, on both sides.
TallyIsBallots ==
    \A i \in Ids : /\ proposals[i].yes = Cardinality(Voters(i, TRUE))
                   /\ proposals[i].no  = Cardinality(Voters(i, FALSE))

\* The flag has its value from the last proposal that was carried out, and that one
\* had ended and passed; unless a status was lost, its tally is closed and it stays
\* carried out, however often effects had to be retried (tick_proposals).
FlagBacked ==
    IF order = <<>> THEN flag = Unset
    ELSE LET p == proposals[order[Len(order)]]
         IN /\ flag = p.value /\ height >= p.ends
            /\ unsaved \/ (MeetsPassCriteria(p) /\ p.status = "Activated")

\* A proposal's effect is carried out once, unless its status was lost: it does not
\* come back over a later decision on the same flag (tick_proposals).
OnceEach == ~unsaved => \A i, j \in DOMAIN order : order[i] = order[j] => i = j

\* A proposal is decided and carried out once its vote is over, one block later for
\* each write that failed (tick_proposals: "a single bad proposal can never freeze
\* the chain").
Settles ==
    []<>(\A i \in Ids : proposals[i].ends + MaxFaults <= MaxHeight
                            => proposals[i].status \in {"Rejected", "Activated"})
=============================================================================
