-------------------------------- MODULE Fsm --------------------------------
(***************************************************************************)
(* The pure consensus state machine of zebvix-chain/src/fsm.rs.            *)
(*                                                                         *)
(* FsmState::step is a function of the state and one event; so is every    *)
(* handler here.  A handler returns an outcome: the new state `s` and the  *)
(* set `out` of FsmActions the runtime must carry out.  (The code returns  *)
(* a vector.  It holds at most two actions, never two of the same kind,    *)
(* and the effects of the two are independent.)                            *)
(*                                                                         *)
(* Abstractions.  A block hash is a model value; Nil is both None and the  *)
(* nil vote.  Wall-clock time is reduced to what the code asks of it: a    *)
(* Tick carries `expired`, which tells whether the current step has lasted *)
(* its timeout, so step_started_at and the four durations disappear.       *)
(***************************************************************************)
EXTENDS Integers

CONSTANTS
    Hash,       \* block hashes
    Nil,        \* Option::None of a hash, the target of a nil vote
    RoundMax    \* the largest round number (u32::MAX in the code)

ASSUME FsmAssumption ==
    /\ Nil \notin Hash
    /\ RoundMax \in Nat \ {0}

Target == Hash \cup {Nil}
Round  == 0..RoundMax
Steps  == {"Propose", "Prevote", "Precommit", "Commit"}

\* Option<LockedBlock> and Option<ValidBlock>
None     == [round |-> -1, hash |-> Nil]
BlockRef == {None} \cup [round : Round, hash : Hash]

FsmState ==
    [ height     : Nat,
      round      : Round,
      step       : Steps,
      locked     : BlockRef,
      valid      : BlockRef,
      proposal   : Target,
      committing : Target ]

New(height) ==
    [ height     |-> height,
      round      |-> 0,
      step       |-> "Propose",
      locked     |-> None,
      valid      |-> None,
      proposal   |-> Nil,
      committing |-> Nil ]

-----------------------------------------------------------------------------
(* Actions handed to the runtime. *)

BuildProposal(reuse_valid) ==
    [type |-> "BuildProposal", arg |-> reuse_valid]
BroadcastPrevote(target) ==
    [type |-> "BroadcastPrevote", arg |-> target]
BroadcastPrecommit(target) ==
    [type |-> "BroadcastPrecommit", arg |-> target]
CommitBlock(hash) ==
    [type |-> "CommitBlock", arg |-> hash]
EnteredRound ==
    [type |-> "EnteredRound", arg |-> Nil]
EnteredHeight ==
    [type |-> "EnteredHeight", arg |-> Nil]

Outcome(s, out) == [s |-> s, out |-> out]

-----------------------------------------------------------------------------
(* State transitions the handlers are made of. *)

\* u32::saturating_add(1)
NextRound(r) == IF r < RoundMax THEN r + 1 ELSE RoundMax

\* Keeps locked, valid and committing, which belong to the height.
EnterRound(s, r) ==
    [s EXCEPT !.round = r, !.step = "Propose", !.proposal = Nil]

EnterHeight(s, h) == New(h)

EnterStep(s, st) == [s EXCEPT !.step = st]

-----------------------------------------------------------------------------
(* Which block to prevote. *)

\* Mutation: the lock is not consulted.
PrevoteTargetUnlocked(hash, locked) == hash

PrevoteTargetForProposal(hash, locked) ==
    IF locked = None \/ locked.hash = hash THEN hash ELSE Nil

PrevoteTargetOnTimeout(locked) == locked.hash

-----------------------------------------------------------------------------
(* One handler per event. *)

\* Mutation: no timeout in step Prevote.
OnTickNoPrevoteTimeout(s, am_proposer, expired) ==
    CASE s.step = "Propose" /\ expired ->
           Outcome(EnterStep(s, "Prevote"),
                   {BroadcastPrevote(PrevoteTargetOnTimeout(s.locked))})
      [] s.step = "Precommit" /\ expired ->
           Outcome(EnterRound(s, NextRound(s.round)), {EnteredRound})
      [] OTHER -> Outcome(s, {})

OnTick(s, am_proposer, expired) ==
    LET build == IF am_proposer /\ s.proposal = Nil
                   THEN {BuildProposal(s.valid.hash)}
                   ELSE {}
    IN  CASE s.step = "Propose" /\ ~expired ->
               Outcome(s, build)
          [] s.step = "Propose" /\ expired ->
               Outcome(EnterStep(s, "Prevote"),
                       build \cup {BroadcastPrevote(PrevoteTargetOnTimeout(s.locked))})
          [] s.step = "Prevote" /\ expired ->
               Outcome(EnterStep(s, "Precommit"), {BroadcastPrecommit(Nil)})
          [] s.step = "Precommit" /\ expired ->
               Outcome(EnterRound(s, NextRound(s.round)), {EnteredRound})
          [] s.step = "Commit" /\ expired /\ s.committing # Nil ->
               Outcome(s, {CommitBlock(s.committing)})
          [] OTHER -> Outcome(s, {})

OnProposal(s, r, hash) ==
    LET at   == IF r > s.round THEN EnterRound(s, r) ELSE s
        jump == IF r > s.round THEN {EnteredRound} ELSE {}
        seen == [at EXCEPT !.proposal = hash]
    IN  IF r < s.round THEN Outcome(s, {})
        ELSE IF at.step # "Propose" THEN Outcome(seen, jump)
        ELSE Outcome(EnterStep(seen, "Prevote"),
                     jump \cup {BroadcastPrevote(PrevoteTargetForProposal(hash, s.locked))})

\* Mutation: a nil quorum is remembered as a valid block.
LearnNilQuorum(s, r, target) ==
    [s EXCEPT !.valid = IF r >= s.round /\ r > @.round
                          THEN [round |-> r, hash |-> target] ELSE @]

\* What any prevote quorum teaches, whatever the round: the block to propose
\* again, and the release of a lock by a proof of lock of a later round.
LearnPrevoteQuorum(s, r, target) ==
    [s EXCEPT
       !.valid  = IF target # Nil /\ r >= s.round /\ r > @.round
                    THEN [round |-> r, hash |-> target] ELSE @,
       !.locked = IF target # Nil /\ @ # None /\ r > @.round /\ target # @.hash
                    THEN None ELSE @]

\* Mutation: a precommit is cast in any step.
PrecommitInAnyStep(s, r, target) ==
    LET t         == LearnPrevoteQuorum(s, r, target)
        precommit == IF t.proposal = target THEN target ELSE Nil
    IN  IF r = s.round
          THEN Outcome(EnterStep(t, "Precommit"), {BroadcastPrecommit(precommit)})
          ELSE Outcome(t, {})

\* Mutation: a precommit does not lock.
PrecommitWithoutLock(s, r, target) ==
    LET t         == LearnPrevoteQuorum(s, r, target)
        precommit == IF t.proposal = target THEN target ELSE Nil
    IN  IF r = s.round /\ s.step \in {"Propose", "Prevote"}
          THEN Outcome(EnterStep(t, "Precommit"), {BroadcastPrecommit(precommit)})
          ELSE Outcome(t, {})

OnPrevoteQuorum(s, r, target) ==
    LET t         == LearnPrevoteQuorum(s, r, target)
        precommit == IF t.proposal = target THEN target ELSE Nil
        u         == IF precommit # Nil
                       THEN [t EXCEPT !.locked = [round |-> s.round, hash |-> precommit]]
                       ELSE t
    IN  IF r = s.round /\ s.step \in {"Propose", "Prevote"}
          THEN Outcome(EnterStep(u, "Precommit"), {BroadcastPrecommit(precommit)})
          ELSE Outcome(t, {})

\* Mutation: a nil quorum of any round enters the round after it.
NilQuorumOfAnyRound(s, r, target) ==
    IF target # Nil
      THEN Outcome([s EXCEPT !.committing = target, !.step = "Commit"],
                   {CommitBlock(target)})
    ELSE IF s.committing = Nil
      THEN Outcome(EnterRound(s, NextRound(r)), {EnteredRound})
    ELSE Outcome(s, {})

OnPrecommitQuorum(s, r, target) ==
    IF target # Nil
      THEN Outcome([s EXCEPT !.committing = target, !.step = "Commit"],
                   {CommitBlock(target)})
    ELSE IF r = s.round /\ s.committing = Nil
      THEN Outcome(EnterRound(s, NextRound(s.round)), {EnteredRound})
    ELSE Outcome(s, {})

OnBlockApplied(s, hash) ==
    IF s.step = "Commit" /\ s.committing = hash
      THEN Outcome(EnterHeight(s, s.height + 1), {EnteredHeight})
      ELSE Outcome(s, {})

OnHigherRound(s, r) ==
    IF r > s.round
      THEN Outcome(EnterRound(s, r), {EnteredRound})
      ELSE Outcome(s, {})

-----------------------------------------------------------------------------
(* Events, and FsmState::step: every event but Tick names its height and   *)
(* is dropped unless that is the height of the state.                      *)

Tick(am_proposer, expired) ==
    [type |-> "Tick", am_proposer |-> am_proposer, expired |-> expired]
ProposalSeen(h, r, hash) ==
    [type |-> "ProposalSeen", height |-> h, round |-> r, target |-> hash]
PrevoteQuorum(h, r, target) ==
    [type |-> "PrevoteQuorum", height |-> h, round |-> r, target |-> target]
PrecommitQuorum(h, r, target) ==
    [type |-> "PrecommitQuorum", height |-> h, round |-> r, target |-> target]
HigherRoundSeen(h, r) ==
    [type |-> "HigherRoundSeen", height |-> h, round |-> r]
BlockApplied(h, hash) ==
    [type |-> "BlockApplied", height |-> h, target |-> hash]

Step(s, ev) ==
    CASE ev.type = "Tick" -> OnTick(s, ev.am_proposer, ev.expired)
      [] ev.type # "Tick" /\ ev.height # s.height -> Outcome(s, {})
      [] ev.type = "ProposalSeen" /\ ev.height = s.height ->
           OnProposal(s, ev.round, ev.target)
      [] ev.type = "PrevoteQuorum" /\ ev.height = s.height ->
           OnPrevoteQuorum(s, ev.round, ev.target)
      [] ev.type = "PrecommitQuorum" /\ ev.height = s.height ->
           OnPrecommitQuorum(s, ev.round, ev.target)
      [] ev.type = "HigherRoundSeen" /\ ev.height = s.height ->
           OnHigherRound(s, ev.round)
      [] ev.type = "BlockApplied" /\ ev.height = s.height ->
           OnBlockApplied(s, ev.target)
=============================================================================
