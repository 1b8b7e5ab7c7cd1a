------------------------------- MODULE FsmNet -------------------------------
(***************************************************************************)
(* Validators that each run the consensus FSM of module Fsm and hear of    *)
(* each other through votes: what the FSM guarantees for the chain once    *)
(* its BroadcastPrevote / BroadcastPrecommit / CommitBlock actions are     *)
(* carried out.                                                            *)
(*                                                                         *)
(* The network.  `votes` holds every vote an honest validator has signed.  *)
(* A validator's vote pool may have received any part of it, in any order  *)
(* and any number of times; a quorum event is therefore possible from the  *)
(* moment enough votes exist, and stays possible for ever.  Validators in  *)
(* Byz sign anything, different things to different peers: their power     *)
(* counts towards every quorum.  Proposals are not trusted: any hash of    *)
(* Proposable[r] may be proposed for round r to anyone at any moment (the  *)
(* FSM does not know the proposer, and a faulty one proposes several).     *)
(*                                                                         *)
(* Bounds: RoundCap and HeightCap are the largest round and height         *)
(* entered; Proposable bounds what is proposed.  The theorems hold for any *)
(* Proposable, [r \in Rounds |-> Hash] included.                           *)
(***************************************************************************)
EXTENDS Fsm, VotingPower

CONSTANTS
    Byz,         \* validators that do not follow the protocol
    RoundCap,    \* bound on rounds
    HeightCap,   \* bound on heights
    Proposable   \* the hashes proposed in each round

Honest  == Validators \ Byz
Heights == 1..HeightCap
Rounds  == 0..RoundCap

ASSUME NetAssumption ==
    /\ Byz \subseteq Validators
    /\ RoundCap \in Round
    /\ HeightCap \in Nat \ {0}
    /\ Proposable \in [Rounds -> SUBSET Hash]

\* Byzantine voting power is less than a third of the total.
ASSUME ByzAssumption == 3 * PowerOf(Byz) < TotalPower

VARIABLES
    fsm,       \* the FsmState of every honest validator
    votes,     \* votes signed by honest validators
    decided    \* blocks their FSMs have asked the runtime to apply

vars == <<fsm, votes, decided>>

VoteType == {"Prevote", "Precommit"}
Vote     == [val : Honest, height : Nat, round : Round, type : VoteType, target : Target]
Decision == [val : Honest, height : Nat, hash : Hash]

MkVote(n, h, r, type, target) ==
    [val |-> n, height |-> h, round |-> r, type |-> type, target |-> target]

-----------------------------------------------------------------------------
(* Vote pool: who has voted what, and the events it can give rise to. *)

Voters(type, h, r, target) == {n \in Honest : MkVote(n, h, r, type, target) \in votes}

QuorumFor(type, h, r, target) == Byz \cup Voters(type, h, r, target) \in Quorums

\* More than a third of the power has voted in round r or later.
RoundSkipPower(h, r) ==
    LET ahead == {n \in Honest : \E v \in votes : v.val = n /\ v.height = h /\ v.round >= r}
    IN  Byz \cup ahead \in Blocking

-----------------------------------------------------------------------------
(* The actions of an outcome, carried out: a vote is signed for the height *)
(* and the round the FSM is in after the step.                             *)

VotesOf(n, o) ==
    {MkVote(n, o.s.height, o.s.round, "Prevote", a.arg) :
        a \in {b \in o.out : b.type = "BroadcastPrevote"}}
    \cup
    {MkVote(n, o.s.height, o.s.round, "Precommit", a.arg) :
        a \in {b \in o.out : b.type = "BroadcastPrecommit"}}

DecisionsOf(n, o) ==
    {[val |-> n, height |-> o.s.height, hash |-> a.arg] :
        a \in {b \in o.out : b.type = "CommitBlock"}}

Handle(n, o) ==
    /\ o.s.round <= RoundCap
    /\ o.s.height <= HeightCap
    /\ fsm' = [fsm EXCEPT ![n] = o.s]
    /\ votes' = votes \cup VotesOf(n, o)
    /\ decided' = decided \cup DecisionsOf(n, o)

-----------------------------------------------------------------------------
Init ==
    /\ fsm = [n \in Honest |-> New(1)]
    /\ votes = {}
    /\ decided = {}

TickStep(n) ==
    \E am_proposer, expired \in BOOLEAN :
        Handle(n, Step(fsm[n], Tick(am_proposer, expired)))

ProposalStep(n) ==
    \E h \in Heights, r \in Rounds : \E hash \in Proposable[r] :
        Handle(n, Step(fsm[n], ProposalSeen(h, r, hash)))

PrevoteQuorumStep(n) ==
    \E h \in Heights, r \in Rounds, target \in Target :
        /\ QuorumFor("Prevote", h, r, target)
        /\ Handle(n, Step(fsm[n], PrevoteQuorum(h, r, target)))

PrecommitQuorumStep(n) ==
    \E h \in Heights, r \in Rounds, target \in Target :
        /\ QuorumFor("Precommit", h, r, target)
        /\ Handle(n, Step(fsm[n], PrecommitQuorum(h, r, target)))

HigherRoundStep(n) ==
    \E h \in Heights, r \in Rounds :
        /\ RoundSkipPower(h, r)
        /\ Handle(n, Step(fsm[n], HigherRoundSeen(h, r)))

\* The runtime acknowledges a block it was asked to apply.
BlockAppliedStep(n) ==
    \E d \in decided :
        /\ d.val = n
        /\ Handle(n, Step(fsm[n], BlockApplied(d.height, d.hash)))

Next ==
    \E n \in Honest :
        \/ TickStep(n)
        \/ ProposalStep(n)
        \/ PrevoteQuorumStep(n)
        \/ PrecommitQuorumStep(n)
        \/ HigherRoundStep(n)
        \/ BlockAppliedStep(n)

Spec == Init /\ [][Next]_vars
-----------------------------------------------------------------------------
(* Properties *)

\* Type correctness of the FSM states, the votes signed and the blocks
\* decided.
TypeOK ==
    /\ fsm \in [Honest -> FsmState]
    /\ votes \subseteq Vote
    /\ decided \subseteq Decision

\* evidence.rs punishes two votes of one validator for the same height,
\* round and type: whatever the order of timeouts, proposals and quorums,
\* an FSM never makes its validator sign two.
OneVotePerSlot ==
    \A v, w \in votes :
        (v.val = w.val /\ v.height = w.height /\ v.round = w.round /\ v.type = w.type)
            => v.target = w.target

\* Some later round has a prevote quorum for a block other than b.
Overtaken(h, r, b) ==
    \E q \in Round, c \in Hash \ {b} : q > r /\ QuorumFor("Prevote", h, q, c)

\* The lock rule of fsm.rs: having precommitted a block, a validator prevotes
\* another one in a later round only if some round after the precommit has a
\* prevote quorum for a block other than the precommitted one.
PrevotesRespectLock ==
    \A v, w \in votes :
        ( /\ v.val = w.val /\ v.height = w.height /\ v.round < w.round
          /\ v.type = "Precommit" /\ w.type = "Prevote"
          /\ v.target # Nil /\ w.target \notin {Nil, v.target} )
            => Overtaken(v.height, v.round, v.target)

\* No two honest validators are asked to apply different blocks at one
\* height, whatever the rounds their precommit quorums came from.
Agreement ==
    \A d, e \in decided : d.height = e.height => d.hash = e.hash

\* (height, round, step) of a validator only moves forward.
StepRank(st) ==
    CASE st = "Propose" -> 0 [] st = "Prevote" -> 1 [] st = "Precommit" -> 2 [] st = "Commit" -> 3

NotBefore(s, t) ==
    \/ t.height > s.height
    \/ t.height = s.height /\ t.round > s.round
    \/ t.height = s.height /\ t.round = s.round /\ StepRank(t.step) >= StepRank(s.step)

Forward == [][\A n \in Honest : NotBefore(fsm[n], fsm'[n])]_vars

-----------------------------------------------------------------------------
\* The runtime ticks every FSM every 500 ms, for ever.
FairSpec == Spec /\ \A n \in Honest : WF_vars(TickStep(n))

\* No validator waits for ever in a round: without any message, timeouts alone
\* take it to the next one, up to the last, unless a commit ends the round.
RoundsEnd == \A n \in Honest : []<>(fsm[n].round = RoundCap \/ fsm[n].step = "Commit")
=============================================================================
