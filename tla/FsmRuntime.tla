----------------------------- MODULE FsmRuntime -----------------------------
(***************************************************************************)
(* The runtime of zebvix-chain/src/fsm_runtime.rs around one FSM, in the   *)
(* shadow-observer mode it runs in: the legacy producer and vote loop grow *)
(* the chain, the FSM watches the vote pool, and CommitBlock is its only   *)
(* action with an effect.                                                  *)
(*                                                                         *)
(* One turn of FsmRuntime::run is tick_once, poll_vote_quorums and the     *)
(* drain of the events they produced, in that order; the chain, the pool   *)
(* and the cache change under it at any point.  `expired` and `limited`    *)
(* stand for the clock: whether the step's timeout has passed, and whether *)
(* the last commit was less than MIN_BLOCK_INTERVAL ago.                   *)
(*                                                                         *)
(* A vote pool holds one vote per validator and slot, so at most one       *)
(* target of a slot has a quorum: `quorums` grows under that rule.         *)
(*                                                                         *)
(* Bounds: HeightCap and RoundCap for the heights decided and for their    *)
(* rounds; proposals may be one height ahead.                              *)
(***************************************************************************)
EXTENDS Fsm, FiniteSets, Sequences, SequencesExt

CONSTANTS
    RoundCap,
    HeightCap,
    CacheCap,        \* PROPOSAL_CACHE_CAP
    MaxEvents        \* MAX_EVENTS_PER_TICK

ASSUME RuntimeAssumption ==
    /\ RoundCap \in Round
    /\ {HeightCap, CacheCap, MaxEvents} \subseteq Nat \ {0}

VARIABLES
    fsm,          \* Mutex<FsmState>
    chain,        \* hashes of the applied blocks; the tip is its length
    quorums,      \* what the tallies of the vote pool show
    proposals,    \* proposal_cache: height -> hash of the block
    emitted,      \* last_emitted_quorum
    committed,    \* last_commit_at is Some
    pending,      \* events still to be fed to the FSM in this turn
    drained,      \* events fed in this turn
    pc            \* "tick", "poll", "drain"

vars == <<fsm, chain, quorums, proposals, emitted, committed, pending, drained, pc>>

Heights == 1..HeightCap
Rounds  == 0..RoundCap
ProposedHeights == 1..(HeightCap + 1)
Tip     == Len(chain)

Quorum == [type : {"PrevoteQuorum", "PrecommitQuorum"},
           height : Heights, round : Rounds, target : Target]

Init ==
    /\ fsm = New(1)
    /\ chain = <<>>
    /\ quorums = {}
    /\ proposals = [h \in {} |-> Nil]
    /\ emitted = {}
    /\ committed = FALSE
    /\ pending = <<>>
    /\ drained = 0
    /\ pc = "tick"

-----------------------------------------------------------------------------
(* handle_action. *)

Cached(h, hash) == h \in DOMAIN proposals /\ proposals[h] = hash

\* Mutation: the commit of a height the chain already has is not acknowledged.
CommitWithoutAck(h, hash) ==
    IF h <= Tip THEN {[acks |-> <<>>, effect |-> "none"]}
    ELSE [acks : {<<>>}, effect : {"lost"}]

\* Mutation: a commit is acknowledged whether or not the block was applied.
CommitAckedEarly(h, hash) ==
    IF h <= Tip THEN {[acks |-> <<BlockApplied(h, hash)>>, effect |-> "none"]}
    ELSE (IF committed THEN {[acks |-> <<>>, effect |-> "none"]} ELSE {})
         \cup {[acks |-> <<BlockApplied(h, hash)>>,
                effect |-> IF Cached(h, hash) /\ h = Tip + 1 THEN "applied" ELSE "lost"]}

\* What CommitBlock may come to: acknowledged at once below the tip; else
\* deferred by the rate limiter, or else the block leaves the cache and is
\* applied, or is missing, of another hash or refused by apply_block.
CommitOutcomes(h, hash) ==
    IF h <= Tip THEN {[acks |-> <<BlockApplied(h, hash)>>, effect |-> "none"]}
    ELSE (IF committed THEN {[acks |-> <<>>, effect |-> "none"]} ELSE {})
         \cup {[acks |-> <<>>, effect |-> "lost"]}
         \cup (IF Cached(h, hash) /\ h = Tip + 1
                 THEN {[acks |-> <<BlockApplied(h, hash)>>, effect |-> "applied"]} ELSE {})

\* Carry out the actions of an outcome of the FSM, then leave `rest` plus the
\* events that came back in the queue.  (Quorums of a height the FSM has left
\* are never polled again and are forgotten.)
Dispatch(o, rest) ==
    /\ o.s.round <= RoundCap
    /\ o.s.height <= HeightCap + 1
    /\ fsm' = o.s
    /\ quorums' = {q \in quorums : q.height >= o.s.height}
    /\ emitted' = IF EnteredHeight \in o.out THEN {} ELSE emitted
    /\ LET commits == {act \in o.out : act.type = "CommitBlock"}
       IN  \/ /\ commits = {}
              /\ pending' = rest
              /\ UNCHANGED <<chain, proposals, committed>>
           \/ \E act \in commits : \E c \in CommitOutcomes(fsm.height, act.arg) :
                /\ pending' = rest \o c.acks
                /\ proposals' = IF c.effect = "none" THEN proposals
                                ELSE Restrict(proposals, DOMAIN proposals \ {fsm.height})
                /\ chain' = IF c.effect = "applied" THEN Append(chain, act.arg) ELSE chain
                /\ committed' = (committed \/ c.effect = "applied")

-----------------------------------------------------------------------------
(* One turn of the loop. *)

\* tick_once
TickOnce(expired) ==
    /\ pc = "tick"
    /\ \E am_proposer \in BOOLEAN : Dispatch(Step(fsm, Tick(am_proposer, expired)), <<>>)
    /\ drained' = 0
    /\ pc' = "poll"

\* poll_vote_quorums: the quorums of the FSM's own height and round not yet
\* fed to it, prevotes before precommits.
NewQuorums(type) ==
    {q \in quorums \ emitted : q.type = type /\ q.height = fsm.height /\ q.round = fsm.round}

\* Mutation: every quorum of the height is marked as fed.
PollHeight ==
    /\ pc = "poll"
    /\ pending' = pending \o SetToSeq(NewQuorums("PrevoteQuorum"))
                          \o SetToSeq(NewQuorums("PrecommitQuorum"))
    /\ emitted' = emitted \cup {q \in quorums : q.height = fsm.height}
    /\ pc' = "drain"
    /\ UNCHANGED <<fsm, chain, quorums, proposals, committed, drained>>

Poll ==
    /\ pc = "poll"
    /\ pending' = pending \o SetToSeq(NewQuorums("PrevoteQuorum"))
                          \o SetToSeq(NewQuorums("PrecommitQuorum"))
    /\ emitted' = emitted \cup NewQuorums("PrevoteQuorum") \cup NewQuorums("PrecommitQuorum")
    /\ pc' = "drain"
    /\ UNCHANGED <<fsm, chain, quorums, proposals, committed, drained>>

\* Pop the last event and feed it to the FSM.
Drain ==
    /\ pc = "drain" /\ pending # <<>> /\ drained < MaxEvents
    /\ Dispatch(Step(fsm, Last(pending)), Front(pending))
    /\ drained' = drained + 1
    /\ UNCHANGED pc

\* The queue is empty, or the cap is reached and the rest is dropped.
EndTurn ==
    /\ pc = "drain"
    /\ pending = <<>> \/ drained = MaxEvents
    /\ pending' = <<>>
    /\ pc' = "tick"
    /\ UNCHANGED <<fsm, chain, quorums, proposals, emitted, committed, drained>>

-----------------------------------------------------------------------------
(* The rest of the node. *)

\* The legacy path applies the next block.
LegacyApply ==
    /\ Tip < HeightCap
    /\ \E hash \in Hash : chain' = Append(chain, hash)
    /\ UNCHANGED <<fsm, quorums, proposals, emitted, committed, pending, drained, pc>>

\* Votes reach the pool.
QuorumReached ==
    /\ \E q \in Quorum :
          /\ q.height \in fsm.height..(Tip + 1)
          /\ \A p \in quorums : ~(p.type = q.type /\ p.height = q.height /\ p.round = q.round)
          /\ quorums' = quorums \cup {q}
    /\ UNCHANGED <<fsm, chain, proposals, emitted, committed, pending, drained, pc>>

\* Mutation: nothing is evicted.
InsertUnbounded(f, h, hash) == [k \in DOMAIN f \cup {h} |-> IF k = h THEN hash ELSE f[k]]

\* cache_proposal: insert, then evict the smallest heights beyond the cap.
Insert(f, h, hash) ==
    LET g == [k \in DOMAIN f \cup {h} |-> IF k = h THEN hash ELSE f[k]]
    IN  Restrict(g, {j \in DOMAIN g : Cardinality({i \in DOMAIN g : i > j}) < CacheCap})

CacheProposal ==
    /\ \E h \in ProposedHeights, hash \in Hash : proposals' = Insert(proposals, h, hash)
    /\ UNCHANGED <<fsm, chain, quorums, emitted, committed, pending, drained, pc>>

Next ==
    \/ \E expired \in BOOLEAN : TickOnce(expired)
    \/ Poll
    \/ Drain
    \/ EndTurn
    \/ LegacyApply
    \/ QuorumReached
    \/ CacheProposal

Spec == Init /\ [][Next]_vars

\* The loop never stops, and a step's timeout does not stay unexpired for ever.
FairSpec ==
    /\ Spec
    /\ SF_vars(TickOnce(TRUE)) /\ WF_vars(TickOnce(FALSE))
    /\ WF_vars(Poll) /\ WF_vars(Drain) /\ WF_vars(EndTurn)

-----------------------------------------------------------------------------
(* Properties *)

TypeOK ==
    /\ fsm \in FsmState
    /\ chain \in Seq(Hash) /\ Tip <= HeightCap
    /\ quorums \subseteq Quorum /\ emitted \subseteq Quorum
    /\ DOMAIN proposals \subseteq ProposedHeights /\ Cardinality(DOMAIN proposals) <= CacheCap
    /\ committed \in BOOLEAN
    /\ drained \in 0..MaxEvents
    /\ pc \in {"tick", "poll", "drain"}

\* The FSM is never ahead of the chain: it leaves a height only once the chain
\* has a block there, whoever applied it.
NeverAhead == fsm.height <= Tip + 1

\* The dedup ledger loses nothing: a precommit quorum recorded as fed is still
\* in the queue, or the FSM is committing a block of that height.
NoQuorumLost ==
    \A q \in emitted :
        q.type = "PrecommitQuorum" /\ q.target # Nil =>
            fsm.committing # Nil \/ q \in ToSet(pending)

\* Once the chain has a block at the height being committed, the FSM leaves
\* that height, even if its first request failed.
CommitReleases ==
    \A h \in Heights :
        (fsm.height = h /\ fsm.committing # Nil /\ Tip >= h) ~> fsm.height > h
=============================================================================
