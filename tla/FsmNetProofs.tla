---------------------------- MODULE FsmNetProofs ----------------------------
(***************************************************************************)
(* Theorems about FsmNet, for every validator set, distribution of power,  *)
(* set of blocks, number of rounds and number of heights.                  *)
(*                                                                         *)
(* Plan.  A first group of lemmas reduces a step of an FSM to one of seven *)
(* kinds; a second one says what a step of each kind does to the votes.    *)
(* The inductive invariant IndInv then rests on NoOvertaking: as long as a *)
(* precommit quorum for a block exists or can still come about, no later   *)
(* round has a prevote quorum for another block.                           *)
(*                                                                         *)
(* The theorems assume RoundCap < RoundMax: round numbers do not saturate. *)
(***************************************************************************)
EXTENDS FsmNet, SumProofs

-----------------------------------------------------------------------------
(* The quorum rule, from the sums of SumProofs. *)

\* The power of a set of validators is a number, and a part has no more than the whole.
LEMMA PowerMonotone ==
    ASSUME NEW T \in SUBSET Validators, NEW S \in SUBSET T
    PROVE  PowerOf(S) \in Nat /\ PowerOf(T) \in Nat /\ PowerOf(S) <= PowerOf(T)
<1>1. IsFiniteSet(T) /\ \A v \in T : Power[v] \in Nat
  BY PowerAssumption, FS_Subset
<1> QED
  BY <1>1, SumPart DEF PowerOf

\* A quorum stays one when validators are added: late votes never undo it.
LEMMA QuorumMonotone ==
    ASSUME NEW S \in Quorums, NEW T \in SUBSET Validators, S \subseteq T
    PROVE  T \in Quorums
<1>1. PowerOf(S) <= PowerOf(T) /\ PowerOf(S) \in Nat /\ PowerOf(T) \in Nat
  BY PowerMonotone
<1>2. QuorumPower \in Nat
  <2>1. TotalPower \in Nat
    BY PowerMonotone DEF TotalPower
  <2> QED  BY <2>1 DEF QuorumPower
<1> QED
  BY <1>1, <1>2 DEF Quorums

\* Two quorums share a validator outside any set with less than a third of the power.
LEMMA QuorumsMeet ==
    ASSUME NEW B \in SUBSET Validators, 3 * PowerOf(B) < TotalPower,
           NEW S \in Quorums, NEW T \in Quorums
    PROVE  \E n \in Validators \ B : n \in S /\ n \in T
<1>1. /\ 3 * SumFunctionOnSet(Power, B) < SumFunctionOnSet(Power, Validators)
      /\ SumFunctionOnSet(Power, S) >= (SumFunctionOnSet(Power, Validators) * 2) \div 3 + 1
      /\ SumFunctionOnSet(Power, T) >= (SumFunctionOnSet(Power, Validators) * 2) \div 3 + 1
      /\ S \in SUBSET Validators /\ T \in SUBSET Validators
  BY DEF Quorums, QuorumPower, TotalPower, PowerOf
<1> QED
  BY <1>1, PowerAssumption, QuorumIntersection

-----------------------------------------------------------------------------
(* What one step of an FSM can do, seen from the network: the handlers are *)
(* summarised by seven kinds of step, and the rest of the proof no longer  *)
(* looks into them.  s is the state before the step and o its outcome.     *)


SameHeightState(s, t) ==
    /\ t.height = s.height
    /\ t.locked = s.locked
    /\ t.valid = s.valid

NoVote(o) == \A act \in o.out : act.type \notin {"BroadcastPrevote", "BroadcastPrecommit"}
NoCommit(o) == \A act \in o.out : act.type # "CommitBlock"

Idles(s, o) ==
    /\ SameHeightState(s, o.s)
    /\ o.s.round = s.round /\ o.s.step = s.step /\ o.s.committing = s.committing
    /\ NoVote(o)
    /\ \A act \in o.out : act.type = "CommitBlock" => act.arg = s.committing /\ act.arg # Nil

Jumps(s, o) ==
    /\ SameHeightState(s, o.s)
    /\ o.s.round > s.round /\ o.s.step = "Propose" /\ o.s.committing = s.committing
    /\ NoVote(o) /\ NoCommit(o)

Prevotes(s, o, x) ==
    /\ SameHeightState(s, o.s)
    /\ o.s.round > s.round \/ (o.s.round = s.round /\ s.step = "Propose")
    /\ o.s.step = "Prevote" /\ o.s.committing = s.committing
    /\ x = Nil \/ s.locked = None \/ s.locked.hash = x
    /\ BroadcastPrevote(x) \in o.out
    /\ \A act \in o.out : /\ act.type = "BroadcastPrevote" => act.arg = x
                          /\ act.type # "BroadcastPrecommit"
    /\ NoCommit(o)

\* t.valid and t.locked after a prevote quorum for x in round r.
Learned(s, t, r, x) ==
    /\ t.valid = LearnPrevoteQuorum(s, r, x).valid
    /\ t.locked = LearnPrevoteQuorum(s, r, x).locked

Learns(s, o, r, x) ==
    /\ o.s.height = s.height /\ o.s.round = s.round
    /\ o.s.step = s.step /\ o.s.committing = s.committing
    /\ Learned(s, o.s, r, x)
    /\ NoVote(o) /\ NoCommit(o)

Precommits(s, o, x) ==
    /\ o.s.height = s.height /\ o.s.round = s.round
    /\ s.step \in {"Propose", "Prevote"}
    /\ o.s.step = "Precommit" /\ o.s.committing = s.committing
    /\ BroadcastPrecommit(x) \in o.out
    /\ \A act \in o.out : /\ act.type = "BroadcastPrecommit" => act.arg = x
                          /\ act.type # "BroadcastPrevote"
    /\ NoCommit(o)

Commits(s, o, x) ==
    /\ SameHeightState(s, o.s)
    /\ o.s.round = s.round
    /\ o.s.step = "Commit" /\ o.s.committing = x /\ x # Nil
    /\ NoVote(o)
    /\ CommitBlock(x) \in o.out
    /\ \A act \in o.out : act.type = "CommitBlock" => act.arg = x

Advances(s, o) ==
    /\ o.s = New(s.height + 1)
    /\ NoVote(o) /\ NoCommit(o)

-----------------------------------------------------------------------------
\* What the type of an FSM state says of its fields.
LEMMA StateFacts ==
    ASSUME NEW s \in FsmState
    PROVE  /\ s.height \in Nat /\ s.round \in Round /\ s.round \in Nat
           /\ s.step \in Steps
           /\ s.locked \in BlockRef /\ s.valid \in BlockRef
           /\ s.proposal \in Target /\ s.committing \in Target
           /\ s.locked.hash \in Target /\ s.valid.hash \in Target
           /\ s.locked.round \in Int /\ s.valid.round \in Int
           /\ s.locked = None \/ (s.locked.round \in Round /\ s.locked.hash \in Hash)
BY FsmAssumption DEF FsmState, Round, BlockRef, None, Target

USE FsmAssumption, NetAssumption

\* Entering a step, a round or a height yields a well-typed state.
LEMMA EnterTypes ==
    ASSUME NEW s \in FsmState
    PROVE  /\ \A r \in Round : EnterRound(s, r) \in FsmState
           /\ \A st \in Steps : EnterStep(s, st) \in FsmState
           /\ \A h \in Nat : New(h) \in FsmState
           /\ \A x \in Target : [s EXCEPT !.proposal = x] \in FsmState
<1>1. \A r \in Round : EnterRound(s, r) \in FsmState
  BY DEF FsmState, EnterRound, Target, Steps
<1>2. \A st \in Steps : EnterStep(s, st) \in FsmState
  BY DEF FsmState, EnterStep
<1>3. \A h \in Nat : New(h) \in FsmState
  BY DEF FsmState, New, None, BlockRef, Target, Round, Steps
<1>4. \A x \in Target : [s EXCEPT !.proposal = x] \in FsmState
  BY DEF FsmState
<1>5. QED  BY <1>1, <1>2, <1>3, <1>4

\* Entering a round keeps what belongs to the height.
LEMMA EnterRoundFields ==
    ASSUME NEW s \in FsmState, NEW r \in Round
    PROVE  LET t == EnterRound(s, r)
           IN  /\ t.height = s.height /\ t.round = r /\ t.step = "Propose"
               /\ t.locked = s.locked /\ t.valid = s.valid
               /\ t.proposal = Nil /\ t.committing = s.committing
BY DEF EnterRound, FsmState

\* A timeout casts a prevote, casts a nil precommit, enters the next round or
\* asks again for the block being committed.
LEMMA TickShape ==
    ASSUME NEW s \in FsmState, NEW p \in BOOLEAN, NEW e \in BOOLEAN,
           NEW o, o = Step(s, Tick(p, e)), o.s.round <= RoundCap, RoundCap < RoundMax
    PROVE  /\ o.s \in FsmState
           /\ \/ Idles(s, o)
              \/ Jumps(s, o)
              \/ \E x \in Target : Prevotes(s, o, x)
              \/ Precommits(s, o, Nil) /\ SameHeightState(s, o.s)
<1>1. o = OnTick(s, p, e)
  BY DEF Step, Tick
<1> DEFINE build == IF p /\ s.proposal = Nil THEN {BuildProposal(s.valid.hash)} ELSE {}
<1>2. CASE s.step = "Propose" /\ ~e
  <2>1. o = Outcome(s, build)
    BY <1>1, <1>2 DEF OnTick
  <2>2. Idles(s, o)
    BY <2>1 DEF Idles, Outcome, SameHeightState, NoVote, BuildProposal
  <2> QED  BY <2>1, <2>2 DEF Outcome
<1>3. CASE s.step = "Propose" /\ e
  <2>1. o = Outcome(EnterStep(s, "Prevote"),
                    build \cup {BroadcastPrevote(PrevoteTargetOnTimeout(s.locked))})
    BY <1>1, <1>3 DEF OnTick
  <2>2. Prevotes(s, o, s.locked.hash)
    BY <2>1, <1>3, StateFacts DEF Prevotes, Outcome, SameHeightState, NoCommit, BuildProposal, BroadcastPrevote,
         EnterStep, PrevoteTargetOnTimeout, FsmState
  <2>3. o.s \in FsmState
    BY <2>1, EnterTypes DEF Outcome, Steps
  <2> QED  BY <2>2, <2>3, StateFacts
<1>4. CASE s.step = "Prevote" /\ e
  <2>1. o = Outcome(EnterStep(s, "Precommit"), {BroadcastPrecommit(Nil)})
    BY <1>1, <1>4 DEF OnTick
  <2>2. Precommits(s, o, Nil) /\ SameHeightState(s, o.s)
    BY <2>1, <1>4 DEF Precommits, Outcome, SameHeightState, NoCommit, BroadcastPrecommit, EnterStep, FsmState
  <2>3. o.s \in FsmState
    BY <2>1, EnterTypes DEF Outcome, Steps
  <2> QED  BY <2>2, <2>3
<1>5. CASE s.step = "Precommit" /\ e
  <2>1. o = Outcome(EnterRound(s, NextRound(s.round)), {EnteredRound})
    BY <1>1, <1>5 DEF OnTick
  <2>2. NextRound(s.round) \in Round
    BY StateFacts DEF NextRound, Round
  <2>3. o.s.round = NextRound(s.round) /\ o.s.round > s.round
    BY <2>1, <2>2, StateFacts, EnterRoundFields DEF Outcome, NextRound, Round
  <2>4. Jumps(s, o)
    BY <2>1, <2>2, <2>3, EnterRoundFields
    DEF Jumps, Outcome, SameHeightState, NoVote, NoCommit, EnteredRound
  <2>5. o.s \in FsmState
    BY <2>1, <2>2, EnterTypes DEF Outcome
  <2> QED  BY <2>4, <2>5
<1>6. CASE s.step = "Commit" /\ e /\ s.committing # Nil
  <2>1. o = Outcome(s, {CommitBlock(s.committing)})
    BY <1>1, <1>6 DEF OnTick
  <2>2. Idles(s, o)
    BY <2>1, <1>6 DEF Idles, Outcome, SameHeightState, NoVote, CommitBlock
  <2> QED  BY <2>1, <2>2 DEF Outcome
<1>7. CASE /\ ~(s.step = "Propose") /\ ~(s.step = "Prevote" /\ e)
           /\ ~(s.step = "Precommit" /\ e) /\ ~(s.step = "Commit" /\ e /\ s.committing # Nil)
  <2>1. o = Outcome(s, {})
    BY <1>1, <1>7 DEF OnTick
  <2>2. Idles(s, o)
    BY <2>1 DEF Idles, Outcome, SameHeightState, NoVote
  <2> QED  BY <2>1, <2>2 DEF Outcome
<1>8. QED
  BY <1>2, <1>3, <1>4, <1>5, <1>6, <1>7

\* A proposal is dropped, recorded, or prevoted as the lock allows.
LEMMA ProposalShape ==
    ASSUME NEW s \in FsmState, NEW h \in Nat, NEW r \in Round, NEW x \in Hash,
           NEW o, o = Step(s, ProposalSeen(h, r, x))
    PROVE  /\ o.s \in FsmState
           /\ \/ Idles(s, o)
              \/ \E y \in Target : Prevotes(s, o, y)
<1> DEFINE at   == IF r > s.round THEN EnterRound(s, r) ELSE s
           jump == IF r > s.round THEN {EnteredRound} ELSE {}
           seen == [at EXCEPT !.proposal = x]
           y    == PrevoteTargetForProposal(x, s.locked)
<1>1. o = IF h = s.height THEN OnProposal(s, r, x) ELSE Outcome(s, {})
  BY DEF Step, ProposalSeen
<1>2. CASE h # s.height \/ r < s.round
  <2>1. o = Outcome(s, {})
    BY <1>1, <1>2 DEF OnProposal
  <2>2. Idles(s, o)
    BY <2>1 DEF Idles, Outcome, SameHeightState, NoVote
  <2> QED  BY <2>1, <2>2 DEF Outcome
<1>3. /\ at \in FsmState
      /\ at.height = s.height /\ at.locked = s.locked /\ at.valid = s.valid
      /\ at.committing = s.committing
      /\ r >= s.round => at.round = r
      /\ r > s.round => at.step = "Propose"
      /\ r = s.round => at = s
  <2>1. CASE r > s.round
    <3>1. at = EnterRound(s, r)
      BY <2>1
    <3> HIDE DEF at
    <3>2. at \in FsmState
      BY <3>1, EnterTypes
    <3> QED  BY <2>1, <3>1, <3>2, EnterRoundFields, StateFacts DEF Round
  <2>2. CASE ~(r > s.round)
    <3>1. at = s
      BY <2>2
    <3> HIDE DEF at
    <3> QED  BY <2>2, <3>1, StateFacts DEF Round
  <2> QED  BY <2>1, <2>2
<1> HIDE DEF at
<1>4. /\ seen \in FsmState
      /\ seen.height = at.height /\ seen.round = at.round /\ seen.step = at.step
      /\ seen.locked = at.locked /\ seen.valid = at.valid
      /\ seen.committing = at.committing
  BY <1>3, EnterTypes DEF FsmState, Target
<1> HIDE DEF seen
<1>5. CASE h = s.height /\ ~(r < s.round) /\ at.step # "Propose"
  <2>1. o = Outcome(seen, jump) /\ r = s.round
    BY <1>1, <1>3, <1>5, StateFacts DEF OnProposal, at, seen, Round
  <2>2. Idles(s, o)
    BY <2>1, <1>3, <1>4, StateFacts DEF Idles, Outcome, SameHeightState, NoVote, EnteredRound
  <2> QED  BY <2>1, <2>2, <1>4 DEF Outcome
<1>6. CASE h = s.height /\ ~(r < s.round) /\ at.step = "Propose"
  <2>1. o = Outcome(EnterStep(seen, "Prevote"), jump \cup {BroadcastPrevote(y)})
    BY <1>1, <1>6 DEF OnProposal, at, seen
  <2>2. o.s \in FsmState
    BY <2>1, <1>4, EnterTypes DEF Outcome, Steps
  <2>3. /\ o.s.height = seen.height /\ o.s.round = seen.round /\ o.s.step = "Prevote"
        /\ o.s.locked = seen.locked /\ o.s.valid = seen.valid
        /\ o.s.committing = seen.committing
    BY <2>1, <1>4 DEF Outcome, EnterStep, FsmState
  <2>4. y \in Target /\ (y = Nil \/ s.locked = None \/ s.locked.hash = y)
    BY DEF PrevoteTargetForProposal, Target
  <2>5. o.s.round > s.round \/ (o.s.round = s.round /\ s.step = "Propose")
    BY <2>3, <1>3, <1>4, <1>6, StateFacts DEF Round
  <2>6. /\ BroadcastPrevote(y) \in o.out
        /\ \A act \in o.out : act = BroadcastPrevote(y) \/ act = EnteredRound
    BY <2>1 DEF Outcome
  <2>7. Prevotes(s, o, y)
    BY <2>3, <2>4, <2>5, <2>6, <1>3, <1>4
    DEF Prevotes, SameHeightState, NoCommit, BroadcastPrevote, EnteredRound
  <2> QED  BY <2>2, <2>4, <2>7
<1>7. QED
  BY <1>2, <1>5, <1>6

\* A prevote quorum is learned from; in the current round it also triggers a
\* precommit, of its block only if that block was seen, and then with a lock.
LEMMA PrevoteQuorumShape ==
    ASSUME NEW s \in FsmState, NEW h \in Nat, NEW r \in Round, NEW x \in Target,
           NEW o, o = Step(s, PrevoteQuorum(h, r, x))
    PROVE  /\ o.s \in FsmState
           /\ \/ Idles(s, o)
              \/ h = s.height /\ Learns(s, o, r, x)
              \/ /\ h = s.height /\ r = s.round
                 /\ \/ Precommits(s, o, Nil) /\ Learned(s, o.s, r, x)
                    \/ /\ x # Nil /\ Precommits(s, o, x)
                       /\ o.s.valid = LearnPrevoteQuorum(s, r, x).valid
                       /\ o.s.locked = [round |-> s.round, hash |-> x]
<1> DEFINE t   == LearnPrevoteQuorum(s, r, x)
           pre == IF t.proposal = x THEN x ELSE Nil
           u   == IF pre # Nil
                    THEN [t EXCEPT !.locked = [round |-> s.round, hash |-> pre]] ELSE t
<1>1. o = IF h = s.height THEN OnPrevoteQuorum(s, r, x) ELSE Outcome(s, {})
  BY DEF Step, PrevoteQuorum
<1>2. CASE h # s.height
  <2>1. o = Outcome(s, {})
    BY <1>1, <1>2
  <2>2. Idles(s, o)
    BY <2>1 DEF Idles, Outcome, SameHeightState, NoVote
  <2> QED  BY <2>1, <2>2 DEF Outcome
<1>3. /\ t \in FsmState
      /\ t.height = s.height /\ t.round = s.round /\ t.step = s.step
      /\ t.proposal = s.proposal /\ t.committing = s.committing
  <2>1. [round |-> r, hash |-> x] \in BlockRef \/ x = Nil
    BY DEF BlockRef, Target
  <2>2. None \in BlockRef
    BY DEF BlockRef
  <2> QED  BY <2>1, <2>2 DEF LearnPrevoteQuorum, FsmState
<1>4. Learned(s, t, r, x)
  BY DEF Learned
<1> HIDE DEF t
<1>5. CASE h = s.height /\ ~(r = s.round /\ s.step \in {"Propose", "Prevote"})
  <2>1. o = Outcome(t, {})
    BY <1>1, <1>5 DEF OnPrevoteQuorum, t
  <2>2. Learns(s, o, r, x)
    BY <2>1, <1>3, <1>4 DEF Learns, Learned, Outcome, NoVote, NoCommit
  <2> QED  BY <2>1, <2>2, <1>3, <1>5 DEF Outcome
<1>6. CASE h = s.height /\ r = s.round /\ s.step \in {"Propose", "Prevote"}
  <2>1. o = Outcome(EnterStep(u, "Precommit"), {BroadcastPrecommit(pre)})
    BY <1>1, <1>6 DEF OnPrevoteQuorum, t
  <2>2. /\ u \in FsmState
        /\ u.height = s.height /\ u.round = s.round /\ u.committing = s.committing
        /\ u.valid = t.valid
        /\ pre = Nil => u = t
        /\ pre # Nil => pre = x /\ x \in Hash /\ u.locked = [round |-> s.round, hash |-> x]
    <3>1. pre # Nil => pre = x /\ x \in Hash /\ [round |-> s.round, hash |-> x] \in BlockRef
      BY StateFacts DEF Target, BlockRef
    <3> QED  BY <1>3, <3>1 DEF FsmState
  <2> HIDE DEF u
  <2>3. /\ o.s \in FsmState
        /\ o.s.height = u.height /\ o.s.round = u.round /\ o.s.step = "Precommit"
        /\ o.s.locked = u.locked /\ o.s.valid = u.valid
        /\ o.s.committing = u.committing
    <3>1. EnterStep(u, "Precommit") \in FsmState
      BY <2>2, EnterTypes DEF Steps
    <3> QED  BY <2>1, <2>2, <3>1 DEF Outcome, EnterStep, FsmState
  <2>4. Precommits(s, o, pre)
    BY <2>1, <2>2, <2>3, <1>6 DEF Precommits, Outcome, NoCommit, BroadcastPrecommit
  <2>5. CASE pre = Nil
    BY <2>2, <2>3, <2>4, <2>5, <1>4, <1>6 DEF Learned
  <2>6. CASE pre # Nil
    BY <2>2, <2>3, <2>4, <2>6, <1>6 DEF t
  <2> QED  BY <2>5, <2>6
<1>7. QED
  BY <1>2, <1>5, <1>6

\* A precommit quorum commits its block; a nil one enters the next round.
LEMMA PrecommitQuorumShape ==
    ASSUME NEW s \in FsmState, NEW h \in Nat, NEW r \in Round, NEW x \in Target,
           NEW o, o = Step(s, PrecommitQuorum(h, r, x)),
           o.s.round <= RoundCap, RoundCap < RoundMax
    PROVE  /\ o.s \in FsmState
           /\ \/ Idles(s, o)
              \/ Jumps(s, o)
              \/ h = s.height /\ x \in Hash /\ Commits(s, o, x)
<1>1. o = IF h = s.height THEN OnPrecommitQuorum(s, r, x) ELSE Outcome(s, {})
  BY DEF Step, PrecommitQuorum
<1>2. CASE h = s.height /\ x # Nil
  <2> DEFINE t == [s EXCEPT !.committing = x, !.step = "Commit"]
  <2>1. o = Outcome(t, {CommitBlock(x)})
    BY <1>1, <1>2 DEF OnPrecommitQuorum
  <2>2. /\ t \in FsmState
        /\ t.height = s.height /\ t.round = s.round /\ t.locked = s.locked /\ t.valid = s.valid
        /\ t.step = "Commit" /\ t.committing = x
    BY DEF FsmState, Steps
  <2> HIDE DEF t
  <2>3. Commits(s, o, x)
    BY <2>1, <2>2, <1>2 DEF Commits, Outcome, SameHeightState, NoVote, CommitBlock
  <2> QED  BY <2>1, <2>2, <2>3, <1>2 DEF Outcome, Target
<1>3. CASE h = s.height /\ x = Nil /\ r = s.round /\ s.committing = Nil
  <2>1. o = Outcome(EnterRound(s, NextRound(s.round)), {EnteredRound})
    BY <1>1, <1>3 DEF OnPrecommitQuorum
  <2>2. NextRound(s.round) \in Round
    BY StateFacts DEF NextRound, Round
  <2>3. o.s.round = NextRound(s.round) /\ o.s.round > s.round
    BY <2>1, <2>2, StateFacts, EnterRoundFields DEF Outcome, NextRound, Round
  <2>4. Jumps(s, o)
    BY <2>1, <2>2, <2>3, EnterRoundFields
    DEF Jumps, Outcome, SameHeightState, NoVote, NoCommit, EnteredRound
  <2>5. o.s \in FsmState
    BY <2>1, <2>2, EnterTypes DEF Outcome
  <2> QED  BY <2>4, <2>5
<1>4. CASE h # s.height \/ (x = Nil /\ ~(r = s.round /\ s.committing = Nil))
  <2>1. o = Outcome(s, {})
    BY <1>1, <1>4 DEF OnPrecommitQuorum
  <2>2. Idles(s, o)
    BY <2>1 DEF Idles, Outcome, SameHeightState, NoVote
  <2> QED  BY <2>1, <2>2 DEF Outcome
<1>5. QED
  BY <1>2, <1>3, <1>4

\* Evidence of a later round enters it, and nothing else.
LEMMA HigherRoundShape ==
    ASSUME NEW s \in FsmState, NEW h \in Nat, NEW r \in Round,
           NEW o, o = Step(s, HigherRoundSeen(h, r))
    PROVE  o.s \in FsmState /\ (Idles(s, o) \/ Jumps(s, o))
<1>1. o = IF h = s.height THEN OnHigherRound(s, r) ELSE Outcome(s, {})
  BY DEF Step, HigherRoundSeen
<1>2. CASE h = s.height /\ r > s.round
  <2>1. o = Outcome(EnterRound(s, r), {EnteredRound})
    BY <1>1, <1>2 DEF OnHigherRound
  <2>2. Jumps(s, o)
    BY <2>1, <1>2, EnterRoundFields DEF Jumps, Outcome, SameHeightState, NoVote, NoCommit, EnteredRound
  <2> QED  BY <2>1, <2>2, EnterTypes DEF Outcome
<1>3. CASE ~(h = s.height /\ r > s.round)
  <2>1. o = Outcome(s, {})
    BY <1>1, <1>3 DEF OnHigherRound
  <2>2. Idles(s, o)
    BY <2>1 DEF Idles, Outcome, SameHeightState, NoVote
  <2> QED  BY <2>1, <2>2 DEF Outcome
<1>4. QED
  BY <1>2, <1>3

\* The ack of the block being committed enters the next height; any other ack
\* is ignored.
LEMMA BlockAppliedShape ==
    ASSUME NEW s \in FsmState, NEW h \in Nat, NEW x \in Hash,
           NEW o, o = Step(s, BlockApplied(h, x))
    PROVE  o.s \in FsmState /\ (Idles(s, o) \/ Advances(s, o))
<1>1. o = IF h = s.height THEN OnBlockApplied(s, x) ELSE Outcome(s, {})
  BY DEF Step, BlockApplied
<1>2. CASE h = s.height /\ s.step = "Commit" /\ s.committing = x
  <2>1. o = Outcome(New(s.height + 1), {EnteredHeight})
    BY <1>1, <1>2 DEF OnBlockApplied, EnterHeight
  <2>2. Advances(s, o)
    BY <2>1 DEF Advances, Outcome, NoVote, NoCommit, EnteredHeight
  <2>3. s.height + 1 \in Nat
    BY StateFacts
  <2>4. o.s \in FsmState
    BY <2>1, <2>3, EnterTypes DEF Outcome
  <2> QED  BY <2>2, <2>4
<1>3. CASE ~(h = s.height /\ s.step = "Commit" /\ s.committing = x)
  <2>1. o = Outcome(s, {})
    BY <1>1, <1>3 DEF OnBlockApplied
  <2>2. Idles(s, o)
    BY <2>1 DEF Idles, Outcome, SameHeightState, NoVote
  <2> QED  BY <2>1, <2>2 DEF Outcome
<1>4. QED
  BY <1>2, <1>3

-----------------------------------------------------------------------------
(* The same, for a step of the network. *)

Kind(n, o) ==
    LET s == fsm[n]
    IN  \/ Idles(s, o)
        \/ Jumps(s, o)
        \/ \E x \in Target : Prevotes(s, o, x)
        \/ Precommits(s, o, Nil) /\ SameHeightState(s, o.s)
        \/ \E r \in Round, x \in Target :
              /\ QuorumFor("Prevote", s.height, r, x)
              /\ \/ Learns(s, o, r, x)
                 \/ r = s.round /\ Precommits(s, o, Nil) /\ Learned(s, o.s, r, x)
                 \/ /\ r = s.round /\ x # Nil /\ Precommits(s, o, x)
                    /\ o.s.valid = LearnPrevoteQuorum(s, r, x).valid
                    /\ o.s.locked = [round |-> s.round, hash |-> x]
        \/ \E r \in Round, x \in Hash :
              QuorumFor("Precommit", s.height, r, x) /\ Commits(s, o, x)
        \/ Advances(s, o)

\* Every step of the specification is one of these kinds.
LEMMA NextKind ==
    ASSUME TypeOK, Next, RoundCap < RoundMax
    PROVE  \E n \in Honest : \E o : Handle(n, o) /\ o.s \in FsmState /\ Kind(n, o)
<1> PICK n \in Honest : \/ TickStep(n) \/ ProposalStep(n) \/ PrevoteQuorumStep(n)
                       \/ PrecommitQuorumStep(n) \/ HigherRoundStep(n) \/ BlockAppliedStep(n)
  BY DEF Next
<1> DEFINE s == fsm[n]
<1>0. /\ s \in FsmState
      /\ \A r \in Rounds : r \in Round
      /\ \A h \in Heights : h \in Nat
  BY DEF TypeOK, Rounds, Round, Heights
<1> SUFFICES ASSUME NEW o, Handle(n, o),
                    \/ \E p, e \in BOOLEAN : o = Step(s, Tick(p, e))
                    \/ \E h \in Nat, r \in Round, x \in Hash : o = Step(s, ProposalSeen(h, r, x))
                    \/ \E h \in Nat, r \in Round, x \in Target :
                          QuorumFor("Prevote", h, r, x) /\ o = Step(s, PrevoteQuorum(h, r, x))
                    \/ \E h \in Nat, r \in Round, x \in Target :
                          QuorumFor("Precommit", h, r, x) /\ o = Step(s, PrecommitQuorum(h, r, x))
                    \/ \E h \in Nat, r \in Round : o = Step(s, HigherRoundSeen(h, r))
                    \/ \E h \in Nat, x \in Hash : o = Step(s, BlockApplied(h, x))
             PROVE  o.s \in FsmState /\ Kind(n, o)
  <2>1. CASE TickStep(n)
    BY <2>1 DEF TickStep
  <2>2. CASE ProposalStep(n)
    <3>1. PICK h \in Heights, r \in Rounds : \E x \in Proposable[r] :
             Handle(n, Step(s, ProposalSeen(h, r, x)))
      BY <2>2 DEF ProposalStep
    <3>2. PICK x \in Proposable[r] : Handle(n, Step(s, ProposalSeen(h, r, x)))
      BY <3>1
    <3>3. x \in Hash
      OBVIOUS
    <3> QED  BY <1>0, <3>2, <3>3
  <2>3. CASE PrevoteQuorumStep(n)
    BY <1>0, <2>3 DEF PrevoteQuorumStep
  <2>4. CASE PrecommitQuorumStep(n)
    BY <1>0, <2>4 DEF PrecommitQuorumStep
  <2>5. CASE HigherRoundStep(n)
    BY <1>0, <2>5 DEF HigherRoundStep
  <2>6. CASE BlockAppliedStep(n)
    <3>1. PICK d \in decided : Handle(n, Step(s, BlockApplied(d.height, d.hash)))
      BY <2>6 DEF BlockAppliedStep
    <3>2. d.height \in Nat /\ d.hash \in Hash
      BY DEF TypeOK, Decision
    <3> QED  BY <3>1, <3>2
  <2> QED  BY <2>1, <2>2, <2>3, <2>4, <2>5, <2>6
<1>1. o.s.round <= RoundCap
  BY DEF Handle
<1>2. ASSUME NEW p \in BOOLEAN, NEW e \in BOOLEAN, o = Step(s, Tick(p, e))
      PROVE  o.s \in FsmState /\ Kind(n, o)
  BY <1>0, <1>1, <1>2, TickShape DEF Kind
<1>3. ASSUME NEW h \in Nat, NEW r \in Round, NEW x \in Hash, o = Step(s, ProposalSeen(h, r, x))
      PROVE  o.s \in FsmState /\ Kind(n, o)
  BY <1>0, <1>3, ProposalShape DEF Kind
<1>4. ASSUME NEW h \in Nat, NEW r \in Round, NEW x \in Target,
             QuorumFor("Prevote", h, r, x), o = Step(s, PrevoteQuorum(h, r, x))
      PROVE  o.s \in FsmState /\ Kind(n, o)
  <2>1. /\ o.s \in FsmState
        /\ \/ Idles(s, o)
           \/ h = s.height /\ Learns(s, o, r, x)
           \/ /\ h = s.height /\ r = s.round
              /\ \/ Precommits(s, o, Nil) /\ Learned(s, o.s, r, x)
                 \/ /\ x # Nil /\ Precommits(s, o, x)
                    /\ o.s.valid = LearnPrevoteQuorum(s, r, x).valid
                    /\ o.s.locked = [round |-> s.round, hash |-> x]
    BY <1>0, <1>4, PrevoteQuorumShape
  <2>2. CASE Idles(s, o)
    BY <2>1, <2>2 DEF Kind
  <2>3. CASE ~Idles(s, o)
    BY <2>1, <2>3, <1>4 DEF Kind
  <2> QED  BY <2>2, <2>3
<1>5. ASSUME NEW h \in Nat, NEW r \in Round, NEW x \in Target,
             QuorumFor("Precommit", h, r, x), o = Step(s, PrecommitQuorum(h, r, x))
      PROVE  o.s \in FsmState /\ Kind(n, o)
  BY <1>0, <1>1, <1>5, PrecommitQuorumShape DEF Kind
<1>6. ASSUME NEW h \in Nat, NEW r \in Round, o = Step(s, HigherRoundSeen(h, r))
      PROVE  o.s \in FsmState /\ Kind(n, o)
  BY <1>0, <1>6, HigherRoundShape DEF Kind
<1>7. ASSUME NEW h \in Nat, NEW x \in Hash, o = Step(s, BlockApplied(h, x))
      PROVE  o.s \in FsmState /\ Kind(n, o)
  BY <1>0, <1>7, BlockAppliedShape DEF Kind
<1>8. QED
  BY <1>2, <1>3, <1>4, <1>5, <1>6, <1>7

\* What Handle does to the variables.
LEMMA Effects ==
    ASSUME TypeOK, NEW n \in Honest, NEW o, o.s \in FsmState, Handle(n, o)
    PROVE  /\ fsm' \in [Honest -> FsmState]
           /\ fsm'[n] = o.s
           /\ \A m \in Honest : m # n => fsm'[m] = fsm[m]
           /\ votes \subseteq votes' /\ decided \subseteq decided'
           /\ NoVote(o) => votes' = votes
           /\ \A x : Prevotes(fsm[n], o, x) =>
                 votes' = votes \cup {MkVote(n, fsm[n].height, o.s.round, "Prevote", x)}
           /\ \A x : Precommits(fsm[n], o, x) =>
                 votes' = votes \cup {MkVote(n, fsm[n].height, fsm[n].round, "Precommit", x)}
           /\ NoCommit(o) => decided' = decided
           /\ \A d \in decided' : d \in decided \/ \E act \in o.out :
                 /\ act.type = "CommitBlock"
                 /\ d = [val |-> n, height |-> o.s.height, hash |-> act.arg]
<1>1. /\ fsm' \in [Honest -> FsmState]
      /\ fsm'[n] = o.s
      /\ \A m \in Honest : m # n => fsm'[m] = fsm[m]
  BY DEF TypeOK, Handle
<1>2. votes' = votes \cup VotesOf(n, o) /\ decided' = decided \cup DecisionsOf(n, o)
  BY DEF Handle
<1>3. NoVote(o) => VotesOf(n, o) = {}
  BY DEF NoVote, VotesOf
<1>4. ASSUME NEW x, Prevotes(fsm[n], o, x)
      PROVE  VotesOf(n, o) = {MkVote(n, fsm[n].height, o.s.round, "Prevote", x)}
  <2>1. /\ \E act \in o.out : act.type = "BroadcastPrevote" /\ act.arg = x
        /\ \A act \in o.out : act.type = "BroadcastPrevote" => act.arg = x
        /\ \A act \in o.out : act.type # "BroadcastPrecommit"
        /\ o.s.height = fsm[n].height
    BY <1>4 DEF Prevotes, BroadcastPrevote, SameHeightState
  <2> QED  BY <2>1, Zenon DEF VotesOf
<1>5. ASSUME NEW x, Precommits(fsm[n], o, x)
      PROVE  VotesOf(n, o) = {MkVote(n, fsm[n].height, fsm[n].round, "Precommit", x)}
  <2>1. /\ \E act \in o.out : act.type = "BroadcastPrecommit" /\ act.arg = x
        /\ \A act \in o.out : act.type = "BroadcastPrecommit" => act.arg = x
        /\ \A act \in o.out : act.type # "BroadcastPrevote"
        /\ o.s.height = fsm[n].height /\ o.s.round = fsm[n].round
    BY <1>5 DEF Precommits, BroadcastPrecommit
  <2> QED  BY <2>1, Zenon DEF VotesOf
<1>6. NoCommit(o) => DecisionsOf(n, o) = {}
  BY DEF NoCommit, DecisionsOf
<1>7. \A d \in DecisionsOf(n, o) : \E act \in o.out :
         /\ act.type = "CommitBlock"
         /\ d = [val |-> n, height |-> o.s.height, hash |-> act.arg]
  BY DEF DecisionsOf
<1>8. QED
  BY <1>1, <1>2, <1>3, <1>4, <1>5, <1>6, <1>7

-----------------------------------------------------------------------------
(* The inductive invariant. *)

VoteRank(type) == IF type = "Prevote" THEN 1 ELSE 2

\* An FSM in state s can no longer cast a vote of this type for (h, r).
Reached(s, h, r, type) ==
    \/ s.height > h
    \/ s.height = h /\ s.round > r
    \/ s.height = h /\ s.round = r /\ StepRank(s.step) >= VoteRank(type)

VotesPast == \A v \in votes : Reached(fsm[v.val], v.height, v.round, v.type)

\* A block is precommitted only after a prevote quorum of the same round.
PrecommitsBacked ==
    \A v \in votes : v.type = "Precommit" /\ v.target # Nil =>
        QuorumFor("Prevote", v.height, v.round, v.target)

\* A precommit of the current height is still remembered by the lock, unless
\* a later prevote quorum for another block released it.
LocksHeld ==
    \A v \in votes :
        v.type = "Precommit" /\ v.target # Nil /\ v.height = fsm[v.val].height =>
          \/ fsm[v.val].locked.hash = v.target /\ fsm[v.val].locked.round >= v.round
          \/ Overtaken(v.height, v.round, v.target)

\* The validators that have precommitted x in (h, r), or still may.
MayPrecommit(h, r, x) ==
    {n \in Honest : \/ MkVote(n, h, r, "Precommit", x) \in votes
                   \/ ~Reached(fsm[n], h, r, "Precommit")}

\* While a precommit quorum for x in round r exists or is possible, no later
\* round has a prevote quorum for another block.
NoOvertaking ==
    \A h \in Nat, r \in Round, x \in Hash :
        Byz \cup MayPrecommit(h, r, x) \in Quorums => ~Overtaken(h, r, x)

\* Every block asked to be applied has a precommit quorum.
CommitsBacked ==
    /\ \A d \in decided : \E r \in Round : QuorumFor("Precommit", d.height, r, d.hash)
    /\ \A n \in Honest : fsm[n].committing # Nil =>
          \E r \in Round : QuorumFor("Precommit", fsm[n].height, r, fsm[n].committing)

IndInv ==
    /\ TypeOK
    /\ VotesPast
    /\ OneVotePerSlot
    /\ PrecommitsBacked
    /\ LocksHeld
    /\ PrevotesRespectLock
    /\ NoOvertaking
    /\ CommitsBacked

-----------------------------------------------------------------------------
\* (height, round, step) never moves back, and a vote is cast on entering its
\* slot: this is what makes votes unique.
LEMMA KindForward ==
    ASSUME TypeOK, NEW n \in Honest, NEW o, o.s \in FsmState, Kind(n, o)
    PROVE  /\ NotBefore(fsm[n], o.s)
           /\ \A x : Prevotes(fsm[n], o, x) =>
                 ~Reached(fsm[n], fsm[n].height, o.s.round, "Prevote")
           /\ \A x : Precommits(fsm[n], o, x) =>
                 ~Reached(fsm[n], fsm[n].height, fsm[n].round, "Precommit")
<1> DEFINE s == fsm[n]
           t == o.s
<1>1. s \in FsmState
  BY DEF TypeOK
<1>2. /\ s.height \in Nat /\ s.round \in Nat /\ s.step \in Steps
      /\ t.height \in Nat /\ t.round \in Nat /\ t.step \in Steps
  BY <1>1, StateFacts
<1>3. /\ StepRank("Propose") = 0 /\ StepRank("Prevote") = 1
      /\ StepRank("Precommit") = 2 /\ StepRank("Commit") = 3
      /\ \A st \in Steps : StepRank(st) \in 0..3
  BY DEF StepRank, Steps
<1>4. NotBefore(s, t)
  <2>1. CASE Idles(s, o)
    BY <2>1, <1>2, <1>3 DEF Idles, NotBefore, SameHeightState
  <2>2. CASE Jumps(s, o)
    BY <2>2, <1>2, <1>3 DEF Jumps, NotBefore, SameHeightState
  <2>3. CASE \E x \in Target : Prevotes(s, o, x)
    BY <2>3, <1>2, <1>3 DEF Prevotes, NotBefore, SameHeightState
  <2>4. CASE \E x : Precommits(s, o, x)
    BY <2>4, <1>2, <1>3 DEF Precommits, NotBefore
  <2>5. CASE \E r \in Round, x \in Target : Learns(s, o, r, x)
    BY <2>5, <1>2, <1>3 DEF Learns, NotBefore
  <2>6. CASE \E x \in Hash : Commits(s, o, x)
    BY <2>6, <1>2, <1>3 DEF Commits, NotBefore, SameHeightState, Steps
  <2>7. CASE Advances(s, o)
    BY <2>7, <1>2 DEF Advances, NotBefore, New
  <2> QED  BY <2>1, <2>2, <2>3, <2>4, <2>5, <2>6, <2>7 DEF Kind
<1>5. ASSUME NEW x, Prevotes(s, o, x)
      PROVE  ~Reached(s, s.height, t.round, "Prevote")
  BY <1>5, <1>2, <1>3 DEF Prevotes, Reached, VoteRank
<1>6. ASSUME NEW x, Precommits(s, o, x)
      PROVE  ~Reached(s, s.height, s.round, "Precommit")
  BY <1>6, <1>2, <1>3 DEF Precommits, Reached, VoteRank
<1>7. QED
  BY <1>4, <1>5, <1>6

\* Reached is kept by a step forward.
LEMMA ReachedForward ==
    ASSUME NEW s \in FsmState, NEW t \in FsmState, NotBefore(s, t),
           NEW h \in Nat, NEW r \in Nat, NEW type \in VoteType, Reached(s, h, r, type)
    PROVE  Reached(t, h, r, type)
<1>1. /\ s.height \in Nat /\ s.round \in Nat /\ s.step \in Steps
      /\ t.height \in Nat /\ t.round \in Nat /\ t.step \in Steps
  BY StateFacts
<1>2. \A st \in Steps : StepRank(st) \in 0..3
  BY DEF StepRank, Steps
<1>3. VoteRank(type) \in Nat
  BY DEF VoteRank
<1>4. StepRank(s.step) \in 0..3 /\ StepRank(t.step) \in 0..3
  BY <1>1, <1>2
<1>5. QED
  BY <1>1, <1>3, <1>4 DEF Reached, NotBefore

\* Types are kept by a step.
LEMMA TypeStep ==
    ASSUME TypeOK, NEW n \in Honest, NEW o, o.s \in FsmState, Handle(n, o), Kind(n, o)
    PROVE  TypeOK'
<1> DEFINE s == fsm[n]
<1>1. s \in FsmState /\ s.height \in Nat /\ s.round \in Round /\ o.s.round \in Round
      /\ o.s.height \in Nat /\ s.committing \in Target
  BY StateFacts DEF TypeOK
<1>2. votes' \subseteq Vote
  <2>1. CASE NoVote(o)
    BY <2>1, Effects DEF TypeOK
  <2>2. CASE \E x \in Target : Prevotes(s, o, x)
    <3>1. PICK x \in Target : Prevotes(s, o, x)
      BY <2>2
    <3>2. votes' = votes \cup {MkVote(n, s.height, o.s.round, "Prevote", x)}
      BY <3>1, Effects
    <3> QED  BY <3>2, <1>1 DEF TypeOK, Vote, MkVote, VoteType
  <2>3. CASE \E x \in Target : Precommits(s, o, x)
    <3>1. PICK x \in Target : Precommits(s, o, x)
      BY <2>3
    <3>2. votes' = votes \cup {MkVote(n, s.height, s.round, "Precommit", x)}
      BY <3>1, Effects
    <3> QED  BY <3>2, <1>1 DEF TypeOK, Vote, MkVote, VoteType
  <2>4. NoVote(o) \/ (\E x \in Target : Prevotes(s, o, x)) \/ (\E x \in Target : Precommits(s, o, x))
    <3>1. Nil \in Target
      BY DEF Target
    <3> QED  BY <3>1 DEF Kind, Idles, Jumps, Learns, Commits, Advances
  <2> QED  BY <2>1, <2>2, <2>3, <2>4
<1>3. decided' \subseteq Decision
  <2>1. \A act \in o.out : act.type = "CommitBlock" => act.arg \in Hash
    BY <1>1 DEF Kind, Idles, Jumps, Prevotes, Precommits, Learns, Commits, Advances, NoCommit, Target
  <2>2. \A d \in decided' : d \in decided \/ \E act \in o.out :
           act.type = "CommitBlock" /\ d = [val |-> n, height |-> o.s.height, hash |-> act.arg]
    BY Effects
  <2> QED  BY <2>1, <2>2, <1>1 DEF TypeOK, Decision
<1>4. QED
  BY <1>2, <1>3, Effects DEF TypeOK

\* Type correctness, for any validator set, power, rounds and heights.
THEOREM TypeCorrect == ASSUME RoundCap < RoundMax PROVE Spec => []TypeOK
<1>1. Init => TypeOK
  BY EnterTypes DEF Init, TypeOK, New, FsmState, None, BlockRef, Target, Round, Steps
<1>2. TypeOK /\ [Next]_vars => TypeOK'
  <2>1. ASSUME TypeOK, Next
        PROVE  TypeOK'
    BY <2>1, NextKind, TypeStep
  <2>2. TypeOK /\ UNCHANGED vars => TypeOK'
    BY DEF TypeOK, vars
  <2> QED  BY <2>1, <2>2
<1>3. QED
  BY <1>1, <1>2, PTL DEF Spec

-----------------------------------------------------------------------------
(* Each part of the invariant is kept by a step. *)

\* A quorum of votes is never undone.
LEMMA QuorumKept ==
    ASSUME NEW type, NEW h, NEW r, NEW x, votes \subseteq votes', QuorumFor(type, h, r, x)
    PROVE  QuorumFor(type, h, r, x)'
<1>1. Byz \cup Voters(type, h, r, x) \in Quorums
  BY DEF QuorumFor
<1>2. Voters(type, h, r, x) \subseteq Voters(type, h, r, x)'
  BY DEF Voters
<1>3. Byz \cup Voters(type, h, r, x)' \in SUBSET Validators
  BY DEF Voters, Honest
<1>4. Byz \cup Voters(type, h, r, x)' \in Quorums
  BY <1>1, <1>2, <1>3, QuorumMonotone
<1>5. QED
  BY <1>4 DEF QuorumFor

\* A block once overtaken stays so.
LEMMA OvertakenKept ==
    ASSUME NEW h, NEW r, NEW x, votes \subseteq votes', Overtaken(h, r, x)
    PROVE  Overtaken(h, r, x)'
<1>1. PICK q \in Round, c \in Hash \ {x} : q > r /\ QuorumFor("Prevote", h, q, c)
  BY DEF Overtaken
<1>2. QuorumFor("Prevote", h, q, c)'
  BY <1>1, QuorumKept
<1>3. QED
  BY <1>1, <1>2 DEF Overtaken

\* The one vote a step may add, and the slot it was not yet past.
LEMMA NewVote ==
    ASSUME TypeOK, NEW n \in Honest, NEW o, o.s \in FsmState, Handle(n, o), Kind(n, o),
           NEW v \in votes', v \notin votes
    PROVE  /\ v.val = n /\ v.height = fsm[n].height /\ v.round = o.s.round
           /\ o.s.height = fsm[n].height
           /\ v.type \in VoteType
           /\ ~Reached(fsm[n], v.height, v.round, v.type)
           /\ Reached(o.s, v.height, v.round, v.type)
           /\ v.type = "Prevote" => Prevotes(fsm[n], o, v.target)
           /\ v.type = "Precommit" => Precommits(fsm[n], o, v.target)
           /\ \A w \in votes' : w \in votes \/ w = v
<1> DEFINE s == fsm[n]
<1>0. /\ StepRank("Prevote") = 1 /\ StepRank("Precommit") = 2
  BY DEF StepRank
<1>1. ~NoVote(o)
  BY Effects
<1>2. (\E x : Prevotes(s, o, x)) \/ (\E x : Precommits(s, o, x))
  BY <1>1 DEF Kind, Idles, Jumps, Learns, Commits, Advances
<1>3. ASSUME NEW x, Prevotes(s, o, x)
      PROVE  /\ v = MkVote(n, s.height, o.s.round, "Prevote", x)
             /\ \A w \in votes' : w \in votes \/ w = v
             /\ o.s.height = s.height /\ o.s.step = "Prevote"
             /\ ~Reached(s, s.height, o.s.round, "Prevote")
  <2>1. votes' = votes \cup {MkVote(n, s.height, o.s.round, "Prevote", x)}
    BY <1>3, Effects
  <2>2. ~Reached(s, s.height, o.s.round, "Prevote")
    BY <1>3, KindForward
  <2>3. o.s.height = s.height /\ o.s.step = "Prevote"
    BY <1>3 DEF Prevotes, SameHeightState
  <2> QED  BY <2>1, <2>2, <2>3
<1>4. ASSUME NEW x, Precommits(s, o, x)
      PROVE  /\ v = MkVote(n, s.height, s.round, "Precommit", x)
             /\ \A w \in votes' : w \in votes \/ w = v
             /\ o.s.height = s.height /\ o.s.round = s.round /\ o.s.step = "Precommit"
             /\ ~Reached(s, s.height, s.round, "Precommit")
  <2>1. votes' = votes \cup {MkVote(n, s.height, s.round, "Precommit", x)}
    BY <1>4, Effects
  <2>2. ~Reached(s, s.height, s.round, "Precommit")
    BY <1>4, KindForward
  <2>3. o.s.height = s.height /\ o.s.round = s.round /\ o.s.step = "Precommit"
    BY <1>4 DEF Precommits
  <2> QED  BY <2>1, <2>2, <2>3
<1>5. CASE \E x : Prevotes(s, o, x)
  <2>1. PICK x : Prevotes(s, o, x)
    BY <1>5
  <2>2. /\ v.val = n /\ v.height = s.height /\ v.round = o.s.round
        /\ v.type = "Prevote" /\ v.target = x
    BY <2>1, <1>3 DEF MkVote
  <2>3. Reached(o.s, v.height, v.round, v.type)
    BY <2>1, <2>2, <1>0, <1>3 DEF Reached, VoteRank
  <2> QED  BY <2>1, <2>2, <2>3, <1>3 DEF VoteType
<1>6. CASE \E x : Precommits(s, o, x)
  <2>1. PICK x : Precommits(s, o, x)
    BY <1>6
  <2>2. /\ v.val = n /\ v.height = s.height /\ v.round = s.round
        /\ v.type = "Precommit" /\ v.target = x
    BY <2>1, <1>4 DEF MkVote
  <2>3. Reached(o.s, v.height, v.round, v.type)
    BY <2>1, <2>2, <1>0, <1>4 DEF Reached, VoteRank
  <2> QED  BY <2>1, <2>2, <2>3, <1>4 DEF VoteType
<1>7. QED
  BY <1>2, <1>5, <1>6

\* The fields of a vote and of a signed vote are the ones it was made from.
LEMMA VoteFacts ==
    ASSUME TypeOK, NEW v \in votes
    PROVE  /\ v.val \in Honest /\ v.height \in Nat /\ v.round \in Round /\ v.round \in Nat
           /\ v.type \in VoteType /\ v.target \in Target
           /\ v = MkVote(v.val, v.height, v.round, v.type, v.target)
           /\ fsm[v.val] \in FsmState
BY DEF TypeOK, Vote, Round, MkVote

\* A step leaves no vote of a validator ahead of where its FSM is.
LEMMA VotesPastStep ==
    ASSUME TypeOK, VotesPast, NEW n \in Honest, NEW o, o.s \in FsmState, Handle(n, o), Kind(n, o)
    PROVE  VotesPast'
<1> SUFFICES ASSUME NEW v \in votes'
             PROVE  Reached(fsm'[v.val], v.height, v.round, v.type)
  BY DEF VotesPast
<1>1. CASE v \in votes
  <2>1. Reached(fsm[v.val], v.height, v.round, v.type)
    BY <1>1 DEF VotesPast
  <2>2. CASE v.val = n
    BY <1>1, <2>1, <2>2, VoteFacts, KindForward, ReachedForward, Effects
  <2>3. CASE v.val # n
    BY <1>1, <2>1, <2>3, VoteFacts, Effects
  <2> QED  BY <2>2, <2>3
<1>2. CASE v \notin votes
  BY <1>2, NewVote, Effects
<1>3. QED
  BY <1>1, <1>2

\* A step signs no second vote for a slot: the FSM has not been past it.
LEMMA OneVoteStep ==
    ASSUME TypeOK, VotesPast, OneVotePerSlot,
           NEW n \in Honest, NEW o, o.s \in FsmState, Handle(n, o), Kind(n, o)
    PROVE  OneVotePerSlot'
<1> SUFFICES ASSUME NEW v \in votes', NEW w \in votes',
                    v.val = w.val, v.height = w.height, v.round = w.round, v.type = w.type
             PROVE  v.target = w.target
  BY DEF OneVotePerSlot
<1>1. CASE v \in votes /\ w \in votes
  BY <1>1 DEF OneVotePerSlot
<1>2. CASE v \in votes /\ w \notin votes
  BY <1>2, NewVote DEF VotesPast
<1>3. CASE v \notin votes /\ w \in votes
  BY <1>3, NewVote DEF VotesPast
<1>4. CASE v \notin votes /\ w \notin votes
  BY <1>4, NewVote
<1>5. QED
  BY <1>1, <1>2, <1>3, <1>4

\* A non-nil precommit comes with a prevote quorum and with the lock.
LEMMA PrecommitBlock ==
    ASSUME TypeOK, NEW n \in Honest, NEW o, o.s \in FsmState, Kind(n, o),
           NEW x, x # Nil, Precommits(fsm[n], o, x)
    PROVE  /\ QuorumFor("Prevote", fsm[n].height, fsm[n].round, x)
           /\ x \in Hash
           /\ o.s.locked = [round |-> fsm[n].round, hash |-> x]
<1> DEFINE s == fsm[n]
<1>1. /\ ~Idles(s, o) /\ ~Jumps(s, o) /\ ~Commits(s, o, x) /\ ~Advances(s, o)
      /\ \A y : ~Prevotes(s, o, y) /\ ~Commits(s, o, y)
      /\ \A r, y : ~Learns(s, o, r, y)
      /\ \A y : Precommits(s, o, y) => y = x
  <2>1. /\ \E act \in o.out : act.type = "BroadcastPrecommit" /\ act.arg = x
        /\ \A act \in o.out : act.type = "BroadcastPrecommit" => act.arg = x
    BY DEF Precommits, BroadcastPrecommit
  <2>2. ~NoVote(o)
    BY <2>1 DEF NoVote
  <2>3. \A y : ~Prevotes(s, o, y)
    BY <2>1 DEF Prevotes
  <2>4. \A y : Precommits(s, o, y) => y = x
    BY <2>1 DEF Precommits
  <2> QED  BY <2>2, <2>3, <2>4 DEF Idles, Jumps, Learns, Commits, Advances
<1>2. \E r \in Round, y \in Target :
         /\ QuorumFor("Prevote", s.height, r, y)
         /\ r = s.round /\ y # Nil /\ Precommits(s, o, y)
         /\ o.s.locked = [round |-> s.round, hash |-> y]
  BY <1>1 DEF Kind
<1>3. QED
  BY <1>1, <1>2 DEF Target

\* A step signs no precommit of a block without a prevote quorum.
LEMMA PrecommitsBackedStep ==
    ASSUME TypeOK, PrecommitsBacked,
           NEW n \in Honest, NEW o, o.s \in FsmState, Handle(n, o), Kind(n, o)
    PROVE  PrecommitsBacked'
<1> SUFFICES ASSUME NEW v \in votes', v.type = "Precommit", v.target # Nil
             PROVE  QuorumFor("Prevote", v.height, v.round, v.target)'
  BY DEF PrecommitsBacked
<1>1. QuorumFor("Prevote", v.height, v.round, v.target)
  <2>1. CASE v \in votes
    BY <2>1 DEF PrecommitsBacked
  <2>2. CASE v \notin votes
    <3>1. /\ Precommits(fsm[n], o, v.target) /\ v.height = fsm[n].height /\ v.round = o.s.round
      BY <2>2, NewVote
    <3>2. o.s.round = fsm[n].round
      BY <3>1 DEF Precommits
    <3> QED  BY <3>1, <3>2, PrecommitBlock
  <2> QED  BY <2>1, <2>2
<1>2. votes \subseteq votes'
  BY Effects
<1>3. QED
  BY <1>1, <1>2, QuorumKept

\* What can become of a lock held before the step.
LEMMA LockFate ==
    ASSUME TypeOK, NEW n \in Honest, NEW o, o.s \in FsmState, Kind(n, o)
    PROVE  \/ o.s.locked = fsm[n].locked /\ o.s.height = fsm[n].height
           \/ \E r \in Round, x \in Hash :
                 /\ QuorumFor("Prevote", fsm[n].height, r, x)
                 /\ r > fsm[n].locked.round /\ x # fsm[n].locked.hash
                 /\ o.s.locked = None /\ o.s.height = fsm[n].height
           \/ \E x \in Hash :
                 /\ QuorumFor("Prevote", fsm[n].height, fsm[n].round, x)
                 /\ Precommits(fsm[n], o, x)
                 /\ o.s.locked = [round |-> fsm[n].round, hash |-> x]
           \/ o.s.height = fsm[n].height + 1
<1> DEFINE s == fsm[n]
<1>0. s \in FsmState
  BY DEF TypeOK
<1>1. CASE \E r \in Round, x \in Target :
             /\ QuorumFor("Prevote", s.height, r, x)
             /\ Learned(s, o.s, r, x) /\ o.s.height = s.height
  <2>1. PICK r \in Round, x \in Target :
             /\ QuorumFor("Prevote", s.height, r, x)
             /\ Learned(s, o.s, r, x) /\ o.s.height = s.height
    BY <1>1
  <2>2. o.s.locked = IF x # Nil /\ s.locked # None /\ r > s.locked.round /\ x # s.locked.hash
                       THEN None ELSE s.locked
    BY <2>1, <1>0 DEF Learned, LearnPrevoteQuorum, FsmState
  <2> QED  BY <2>1, <2>2 DEF Target
<1>2. CASE \E r \in Round, x \in Target :
             /\ QuorumFor("Prevote", s.height, r, x)
             /\ r = s.round /\ x # Nil /\ Precommits(s, o, x)
             /\ o.s.locked = [round |-> s.round, hash |-> x]
  BY <1>2 DEF Target
<1>3. CASE SameHeightState(s, o.s)
  BY <1>3 DEF SameHeightState
<1>4. CASE Advances(s, o)
  BY <1>4 DEF Advances, New
<1>5. QED
  <2>1. \/ SameHeightState(s, o.s)
        \/ \E r \in Round, x \in Target :
             /\ QuorumFor("Prevote", s.height, r, x)
             /\ Learned(s, o.s, r, x) /\ o.s.height = s.height
        \/ \E r \in Round, x \in Target :
             /\ QuorumFor("Prevote", s.height, r, x)
             /\ r = s.round /\ x # Nil /\ Precommits(s, o, x)
             /\ o.s.locked = [round |-> s.round, hash |-> x]
        \/ Advances(s, o)
    <3>1. CASE \E r \in Round, x \in Target :
              /\ QuorumFor("Prevote", s.height, r, x)
              /\ \/ Learns(s, o, r, x)
                 \/ r = s.round /\ Precommits(s, o, Nil) /\ Learned(s, o.s, r, x)
                 \/ /\ r = s.round /\ x # Nil /\ Precommits(s, o, x)
                    /\ o.s.valid = LearnPrevoteQuorum(s, r, x).valid
                    /\ o.s.locked = [round |-> s.round, hash |-> x]
      BY <3>1 DEF Learns, Precommits
    <3>2. CASE SameHeightState(s, o.s) \/ Advances(s, o)
      BY <3>2
    <3> QED  BY <3>1, <3>2 DEF Kind, Idles, Jumps, Prevotes, Commits
  <2> QED  BY <2>1, <1>1, <1>2, <1>3, <1>4

\* A step keeps the lock on a precommitted block, or the block was overtaken.
LEMMA LocksHeldStep ==
    ASSUME TypeOK, VotesPast, LocksHeld,
           NEW n \in Honest, NEW o, o.s \in FsmState, Handle(n, o), Kind(n, o)
    PROVE  LocksHeld'
<1> DEFINE s == fsm[n]
<1> SUFFICES ASSUME NEW v \in votes', v.type = "Precommit", v.target # Nil,
                    v.height = fsm'[v.val].height
             PROVE  \/ fsm'[v.val].locked.hash = v.target /\ fsm'[v.val].locked.round >= v.round
                    \/ Overtaken(v.height, v.round, v.target)'
  BY DEF LocksHeld
<1>0. /\ votes \subseteq votes' /\ s \in FsmState /\ fsm'[n] = o.s
      /\ \A m \in Honest : m # n => fsm'[m] = fsm[m]
      /\ s.height \in Nat /\ s.round \in Nat /\ s.locked.round \in Int
      /\ s.round \in Round
  BY Effects, StateFacts DEF TypeOK
<1>1. CASE v \notin votes
  <2>1. /\ v.val = n /\ v.round = o.s.round /\ Precommits(s, o, v.target)
    BY <1>1, NewVote
  <2>2. o.s.locked = [round |-> s.round, hash |-> v.target]
    BY <2>1, PrecommitBlock
  <2>3. o.s.round = s.round
    BY <2>1 DEF Precommits
  <2> QED  BY <1>0, <2>1, <2>2, <2>3
<1>2. CASE v \in votes /\ v.val # n
  <2>1. fsm'[v.val] = fsm[v.val]
    BY <1>0, <1>2, VoteFacts
  <2>2. \/ fsm[v.val].locked.hash = v.target /\ fsm[v.val].locked.round >= v.round
        \/ Overtaken(v.height, v.round, v.target)
    BY <1>2, <2>1 DEF LocksHeld
  <2> QED  BY <1>0, <2>1, <2>2, OvertakenKept
<1>3. CASE v \in votes /\ v.val = n
  <2>0. /\ v.height \in Nat /\ v.round \in Nat /\ v.target \in Hash
    BY <1>3, VoteFacts DEF Target
  <2>1. Reached(s, v.height, v.round, "Precommit")
    BY <1>3 DEF VotesPast
  <2>2. v.height = o.s.height
    BY <1>0, <1>3
  <2>3. CASE o.s.height = s.height + 1
    BY <2>0, <2>1, <2>2, <2>3, <1>0 DEF Reached
  <2>4. CASE o.s.height = s.height
    <3>1. \/ s.locked.hash = v.target /\ s.locked.round >= v.round
          \/ Overtaken(v.height, v.round, v.target)
      BY <1>3, <2>2, <2>4 DEF LocksHeld
    <3>2. CASE Overtaken(v.height, v.round, v.target)
      BY <3>2, <1>0, OvertakenKept
    <3>3. CASE s.locked.hash = v.target /\ s.locked.round >= v.round
      <4>1. CASE o.s.locked = s.locked
        BY <4>1, <3>3, <1>0, <1>3
      <4>2. ASSUME NEW r \in Round, NEW x \in Hash,
                   QuorumFor("Prevote", s.height, r, x),
                   r > s.locked.round, x # s.locked.hash
            PROVE  Overtaken(v.height, v.round, v.target)
        <5>1. r > v.round
          BY <4>2, <3>3, <2>0, <1>0 DEF Round
        <5> QED  BY <5>1, <4>2, <3>3, <2>2, <2>4 DEF Overtaken
      <4>3. ASSUME NEW x \in Hash, QuorumFor("Prevote", s.height, s.round, x),
                   Precommits(s, o, x), o.s.locked = [round |-> s.round, hash |-> x]
            PROVE  \/ o.s.locked.hash = v.target /\ o.s.locked.round >= v.round
                   \/ Overtaken(v.height, v.round, v.target)
        <5>1. ~Reached(s, s.height, s.round, "Precommit")
          BY <4>3, KindForward
        <5>2. s.round > v.round
          BY <5>1, <2>0, <2>1, <2>2, <2>4, <1>0 DEF Reached
        <5>3. CASE x = v.target
          BY <5>2, <5>3, <4>3, <2>0, <1>0
        <5>4. CASE x # v.target
          BY <5>2, <5>4, <4>3, <2>2, <2>4, <1>0 DEF Overtaken
        <5> QED  BY <5>3, <5>4
      <4>4. \/ o.s.locked = s.locked
            \/ o.s.locked.hash = v.target /\ o.s.locked.round >= v.round
            \/ Overtaken(v.height, v.round, v.target)
        <5>1. CASE \E r \in Round, x \in Hash :
                    /\ QuorumFor("Prevote", s.height, r, x)
                    /\ r > s.locked.round /\ x # s.locked.hash
          BY <5>1, <4>2
        <5>2. CASE \E x \in Hash :
                    /\ QuorumFor("Prevote", s.height, s.round, x)
                    /\ Precommits(s, o, x)
                    /\ o.s.locked = [round |-> s.round, hash |-> x]
          BY <5>2, <4>3
        <5>3. o.s.height # s.height + 1
          BY <2>4, <1>0
        <5> QED  BY <5>1, <5>2, <5>3, LockFate
      <4> QED  BY <4>1, <4>4, <1>0, <1>3, OvertakenKept
    <3> QED  BY <3>1, <3>2, <3>3
  <2> QED  BY <2>3, <2>4, LockFate DEF Precommits
<1>4. QED
  BY <1>1, <1>2, <1>3

\* A validator prevotes another block than the one it precommitted only when
\* it holds no lock on it, and then the block was overtaken.
LEMMA FreshPrevote ==
    ASSUME TypeOK, LocksHeld, NEW n \in Honest, NEW o, NEW y, Prevotes(fsm[n], o, y),
           NEW v \in votes, v.val = n, v.height = fsm[n].height, v.type = "Precommit",
           v.target # Nil, y # Nil, y # v.target
    PROVE  Overtaken(v.height, v.round, v.target)
<1>1. \/ fsm[n].locked.hash = v.target
      \/ Overtaken(v.height, v.round, v.target)
  BY DEF LocksHeld
<1>2. fsm[n].locked = None \/ fsm[n].locked.hash = y
  BY DEF Prevotes
<1>3. None.hash = Nil
  BY DEF None
<1>4. QED
  BY <1>1, <1>2, <1>3

\* A step signs no prevote against a lock that still holds.
LEMMA RespectLockStep ==
    ASSUME TypeOK, VotesPast, LocksHeld, PrevotesRespectLock,
           NEW n \in Honest, NEW o, o.s \in FsmState, Handle(n, o), Kind(n, o)
    PROVE  PrevotesRespectLock'
<1> SUFFICES ASSUME NEW v \in votes', NEW w \in votes',
                    v.val = w.val, v.height = w.height, v.round < w.round,
                    v.type = "Precommit", w.type = "Prevote",
                    v.target # Nil, w.target \notin {Nil, v.target}
             PROVE  Overtaken(v.height, v.round, v.target)'
  BY DEF PrevotesRespectLock
<1>0. votes \subseteq votes'
  BY Effects
<1>1. Overtaken(v.height, v.round, v.target)
  <2>1. CASE v \in votes /\ w \in votes
    BY <2>1 DEF PrevotesRespectLock
  <2>2. CASE v \in votes /\ w \notin votes
    BY <2>2, NewVote, FreshPrevote
  <2>3. CASE v \notin votes /\ w \in votes
    <3>1. /\ v.val = n /\ v.height = fsm[n].height /\ v.round = o.s.round
          /\ Precommits(fsm[n], o, v.target)
      BY <2>3, NewVote
    <3>2. v.round = fsm[n].round
      BY <3>1 DEF Precommits
    <3>3. Reached(fsm[n], w.height, w.round, "Prevote")
      BY <2>3, <3>1 DEF VotesPast
    <3>4. fsm[n].height \in Nat /\ fsm[n].round \in Nat /\ w.round \in Nat
      BY <2>3, VoteFacts, StateFacts DEF TypeOK
    <3> QED  BY <3>1, <3>2, <3>3, <3>4 DEF Reached
  <2>4. CASE v \notin votes /\ w \notin votes
    BY <2>4, NewVote
  <2> QED  BY <2>1, <2>2, <2>3, <2>4
<1>2. QED
  BY <1>0, <1>1, OvertakenKept

\* A validator that has not precommitted x in (h, r) and is past that slot
\* never will.
LEMMA MayPrecommitShrinks ==
    ASSUME TypeOK, NEW n \in Honest, NEW o, o.s \in FsmState, Handle(n, o), Kind(n, o),
           NEW h \in Nat, NEW r \in Round, NEW x \in Hash
    PROVE  MayPrecommit(h, r, x)' \subseteq MayPrecommit(h, r, x)
<1> SUFFICES ASSUME NEW m \in Honest,
                    \/ MkVote(m, h, r, "Precommit", x) \in votes'
                    \/ ~Reached(fsm'[m], h, r, "Precommit")
             PROVE  m \in MayPrecommit(h, r, x)
  BY DEF MayPrecommit
<1>0. r \in Nat /\ "Precommit" \in VoteType /\ fsm[m] \in FsmState
  BY DEF Round, VoteType, TypeOK
<1>1. CASE MkVote(m, h, r, "Precommit", x) \in votes
  BY <1>1 DEF MayPrecommit
<1>2. CASE MkVote(m, h, r, "Precommit", x) \in votes' /\ MkVote(m, h, r, "Precommit", x) \notin votes
  <2> DEFINE v == MkVote(m, h, r, "Precommit", x)
  <2>1. v.val = m /\ v.height = h /\ v.round = r /\ v.type = "Precommit"
    BY DEF MkVote
  <2> HIDE DEF v
  <2>2. v.val = n /\ ~Reached(fsm[n], v.height, v.round, v.type)
    BY <1>2, NewVote DEF v
  <2> QED  BY <2>1, <2>2 DEF MayPrecommit
<1>3. CASE ~Reached(fsm'[m], h, r, "Precommit")
  <2>1. CASE m = n
    BY <2>1, <1>0, <1>3, KindForward, ReachedForward, Effects DEF MayPrecommit
  <2>2. CASE m # n
    BY <2>2, <1>3, Effects DEF MayPrecommit
  <2> QED  BY <2>1, <2>2
<1>4. QED
  BY <1>1, <1>2, <1>3

\* The heart of the argument.  A prevote quorum for another block c in a later
\* round q shares an honest validator m with the validators that precommitted
\* x in round r or still may.  Since m has prevoted in round q, it is past
\* round r, so it has precommitted x; and then its lock forbids the prevote,
\* unless x was overtaken already.
LEMMA NoOvertakingStep ==
    ASSUME TypeOK, VotesPast, LocksHeld, PrevotesRespectLock, NoOvertaking,
           NEW n \in Honest, NEW o, o.s \in FsmState, Handle(n, o), Kind(n, o)
    PROVE  NoOvertaking'
<1> SUFFICES ASSUME NEW h \in Nat, NEW r \in Round, NEW x \in Hash,
                    Byz \cup MayPrecommit(h, r, x)' \in Quorums,
                    Overtaken(h, r, x)'
             PROVE  FALSE
  BY DEF NoOvertaking
<1>1. Byz \cup MayPrecommit(h, r, x) \in Quorums
  <2>1. Byz \cup MayPrecommit(h, r, x) \in SUBSET Validators
    BY DEF MayPrecommit, Honest
  <2> QED  BY <2>1, MayPrecommitShrinks, QuorumMonotone
<1>2. ~Overtaken(h, r, x)
  BY <1>1 DEF NoOvertaking
<1>3. PICK q \in Round, c \in Hash \ {x} : q > r /\ QuorumFor("Prevote", h, q, c)'
  BY DEF Overtaken
<1>4. PICK m \in Honest : /\ m \in Voters("Prevote", h, q, c)'
                         /\ m \in MayPrecommit(h, r, x)'
  <2>1. /\ Byz \cup Voters("Prevote", h, q, c)' \in Quorums
        /\ Byz \cup MayPrecommit(h, r, x)' \in Quorums
    BY <1>3 DEF QuorumFor
  <2>2. \E m \in Validators \ Byz : /\ m \in Byz \cup Voters("Prevote", h, q, c)'
                                   /\ m \in Byz \cup MayPrecommit(h, r, x)'
    BY <2>1, QuorumsMeet, ByzAssumption
  <2> QED  BY <2>2 DEF Honest
<1> DEFINE v == MkVote(m, h, r, "Precommit", x)
           w == MkVote(m, h, q, "Prevote", c)
<1>5. /\ v.val = m /\ v.height = h /\ v.round = r /\ v.type = "Precommit" /\ v.target = x
      /\ w.val = m /\ w.height = h /\ w.round = q /\ w.type = "Prevote" /\ w.target = c
  BY DEF MkVote
<1>6. w \in votes'
  BY <1>4 DEF Voters
<1>7. q \in Nat /\ r \in Nat /\ x # Nil /\ c # Nil /\ fsm'[m] \in FsmState
  BY Effects DEF Round
<1>8. v \in votes'
  <2>1. Reached(fsm'[m], h, q, "Prevote")
    BY <1>5, <1>6, VotesPastStep DEF VotesPast
  <2>2. Reached(fsm'[m], h, r, "Precommit")
    BY <2>1, <1>3, <1>7, StateFacts DEF Reached
  <2> QED  BY <2>2, <1>4 DEF MayPrecommit
<1> HIDE DEF v, w
<1>9. CASE w \in votes /\ v \in votes
  BY <1>2, <1>3, <1>5, <1>7, <1>9 DEF PrevotesRespectLock
<1>10. CASE w \notin votes /\ v \in votes
  BY <1>2, <1>5, <1>6, <1>7, <1>10, NewVote, FreshPrevote
<1>11. CASE v \notin votes
  <2>1. /\ v.val = n /\ v.height = fsm[n].height /\ v.round = o.s.round
        /\ Precommits(fsm[n], o, v.target)
        /\ \A u \in votes' : u \in votes \/ u = v
    BY <1>5, <1>8, <1>11, NewVote
  <2>2. o.s.round = fsm[n].round
    BY <2>1 DEF Precommits
  <2>3. w \in votes
    BY <2>1, <1>5, <1>6
  <2>4. Reached(fsm[n], h, q, "Prevote")
    BY <2>1, <2>3, <1>5 DEF VotesPast
  <2>5. fsm[n].height = h /\ fsm[n].round = r
    BY <2>1, <2>2, <1>5
  <2> QED  BY <2>4, <2>5, <1>3, <1>7 DEF Reached
<1>12. QED
  BY <1>9, <1>10, <1>11

\* A step asks for no commit without a precommit quorum.
LEMMA CommitsBackedStep ==
    ASSUME TypeOK, CommitsBacked,
           NEW n \in Honest, NEW o, o.s \in FsmState, Handle(n, o), Kind(n, o)
    PROVE  CommitsBacked'
<1> DEFINE s == fsm[n]
           Won(h, x) == \E r \in Round : QuorumFor("Precommit", h, r, x)
<1>0. /\ votes \subseteq votes' /\ fsm'[n] = o.s
      /\ \A m \in Honest : m # n => fsm'[m] = fsm[m]
  BY Effects
<1>1. ASSUME NEW h, NEW x, Won(h, x)
      PROVE  Won(h, x)'
  BY <1>0, <1>1, QuorumKept
<1>2. s.committing # Nil => Won(s.height, s.committing)
  BY DEF CommitsBacked
<1>3. /\ o.s.committing # Nil => Won(o.s.height, o.s.committing)
      /\ \A act \in o.out : act.type = "CommitBlock" => Won(o.s.height, act.arg)
  <2>1. CASE o.s.height = s.height /\ o.s.committing = s.committing /\ NoCommit(o)
    BY <2>1, <1>2 DEF NoCommit
  <2>2. CASE Idles(s, o)
    BY <2>2, <1>2 DEF Idles, SameHeightState
  <2>3. CASE \E r \in Round, x \in Hash : QuorumFor("Precommit", s.height, r, x) /\ Commits(s, o, x)
    BY <2>3 DEF Commits, SameHeightState
  <2>4. CASE Advances(s, o)
    BY <2>4 DEF Advances, New, NoCommit
  <2>5. \/ o.s.height = s.height /\ o.s.committing = s.committing /\ NoCommit(o)
        \/ Idles(s, o)
        \/ \E r \in Round, x \in Hash : QuorumFor("Precommit", s.height, r, x) /\ Commits(s, o, x)
        \/ Advances(s, o)
    BY DEF Kind, Jumps, Prevotes, Precommits, Learns, SameHeightState
  <2> QED  BY <2>1, <2>2, <2>3, <2>4, <2>5
<1>4. ASSUME NEW d \in decided'
      PROVE  Won(d.height, d.hash)
  <2>1. CASE d \in decided
    BY <2>1 DEF CommitsBacked
  <2>2. CASE d \notin decided
    <3>1. PICK act \in o.out : /\ act.type = "CommitBlock"
                              /\ d = [val |-> n, height |-> o.s.height, hash |-> act.arg]
      BY <2>2, Effects
    <3> QED  BY <3>1, <1>3
  <2> QED  BY <2>1, <2>2
<1>5. ASSUME NEW m \in Honest, fsm'[m].committing # Nil
      PROVE  \E h : h = fsm'[m].height /\ Won(h, fsm'[m].committing)
  BY <1>0, <1>3, <1>5 DEF CommitsBacked
<1>6. \A d \in decided' : Won(d.height, d.hash)'
  BY <1>1, <1>4
<1>7. ASSUME NEW m \in Honest, fsm'[m].committing # Nil
      PROVE  \E r \in Round : QuorumFor("Precommit", fsm[m].height, r, fsm[m].committing)'
  <2>1. PICK r \in Round : QuorumFor("Precommit", fsm'[m].height, r, fsm'[m].committing)
    BY <1>5, <1>7
  <2>2. PICK hh, xx : hh = fsm'[m].height /\ xx = fsm'[m].committing
    OBVIOUS
  <2>3. QuorumFor("Precommit", hh, r, xx)
    BY <2>1, <2>2
  <2>4. QuorumFor("Precommit", hh, r, xx)'
    BY <2>3, <1>0, QuorumKept
  <2> QED  BY <2>2, <2>4 DEF QuorumFor, Voters
<1>8. QED
  BY <1>6, <1>7 DEF CommitsBacked

-----------------------------------------------------------------------------
\* The inductive invariant holds initially.
LEMMA InitIndInv == Init => IndInv
<1> SUFFICES ASSUME Init PROVE IndInv
  OBVIOUS
<1>1. TypeOK
  BY EnterTypes DEF Init, TypeOK, New, FsmState, None, BlockRef, Target, Round, Steps
<1>2. votes = {} /\ decided = {} /\ \A n \in Honest : fsm[n].committing = Nil
  BY DEF Init, New
<1>3. NoOvertaking
  <2> SUFFICES ASSUME NEW h \in Nat, NEW q \in Round, NEW c \in Hash, QuorumFor("Prevote", h, q, c)
               PROVE  FALSE
    BY DEF NoOvertaking, Overtaken
  <2>1. Byz \cup Voters("Prevote", h, q, c) \in Quorums /\ Voters("Prevote", h, q, c) = {}
    BY <1>2 DEF QuorumFor, Voters
  <2>2. \E m \in Validators \ Byz : m \in Byz
    BY <2>1, QuorumsMeet, ByzAssumption
  <2> QED  BY <2>2
<1>4. QED
  BY <1>1, <1>2, <1>3
  DEF IndInv, VotesPast, OneVotePerSlot, PrecommitsBacked, LocksHeld, PrevotesRespectLock, CommitsBacked

\* Every step keeps the inductive invariant, in rounds below the largest one.
LEMMA IndInvStep == ASSUME RoundCap < RoundMax PROVE IndInv /\ [Next]_vars => IndInv'
<1>1. ASSUME IndInv, Next
      PROVE  IndInv'
  <2>a. PICK n \in Honest : \E o : Handle(n, o) /\ o.s \in FsmState /\ Kind(n, o)
    BY <1>1, NextKind DEF IndInv
  <2>1. PICK o : Handle(n, o) /\ o.s \in FsmState /\ Kind(n, o)
    BY <2>a
  <2> QED
    BY <1>1, <2>1, TypeStep, VotesPastStep, OneVoteStep, PrecommitsBackedStep, LocksHeldStep,
       RespectLockStep, NoOvertakingStep, CommitsBackedStep
    DEF IndInv
<1>2. ASSUME IndInv, UNCHANGED vars
      PROVE  IndInv'
  <2>1. fsm' = fsm /\ votes' = votes /\ decided' = decided
    BY <1>2 DEF vars
  <2>2. TypeOK' /\ VotesPast' /\ OneVotePerSlot'
    BY <1>2, <2>1 DEF IndInv, TypeOK, VotesPast, OneVotePerSlot
  <2>a. ASSUME NEW h, NEW r, NEW x
        PROVE  Overtaken(h, r, x)' <=> Overtaken(h, r, x)
    BY <2>1 DEF Overtaken, QuorumFor, Voters
  <2>b. ASSUME NEW h, NEW r, NEW x
        PROVE  QuorumFor("Prevote", h, r, x)' <=> QuorumFor("Prevote", h, r, x)
    BY <2>1 DEF QuorumFor, Voters
  <2>c. ASSUME NEW h, NEW r, NEW x
        PROVE  MayPrecommit(h, r, x)' = MayPrecommit(h, r, x)
    BY <2>1 DEF MayPrecommit
  <2>d. PrecommitsBacked'
    BY <1>2, <2>1, <2>b DEF IndInv, PrecommitsBacked
  <2>e. LocksHeld'
    <3> SUFFICES ASSUME NEW v \in votes', v.type = "Precommit", v.target # Nil,
                        v.height = fsm'[v.val].height
                 PROVE  \/ fsm'[v.val].locked.hash = v.target /\ fsm'[v.val].locked.round >= v.round
                        \/ Overtaken(v.height, v.round, v.target)'
      BY DEF LocksHeld
    <3> QED  BY <1>2, <2>1, <2>a DEF IndInv, LocksHeld
  <2>f. PrevotesRespectLock'
    BY <1>2, <2>1, <2>a DEF IndInv, PrevotesRespectLock
  <2>3. PrecommitsBacked' /\ LocksHeld' /\ PrevotesRespectLock'
    BY <2>d, <2>e, <2>f
  <2>4. NoOvertaking'
    <3> SUFFICES ASSUME NEW h \in Nat, NEW r \in Round, NEW x \in Hash,
                        Byz \cup MayPrecommit(h, r, x)' \in Quorums
                 PROVE  ~Overtaken(h, r, x)'
      BY DEF NoOvertaking
    <3>1. Byz \cup MayPrecommit(h, r, x) \in Quorums
      BY <2>c
    <3> QED  BY <1>2, <2>a, <3>1 DEF IndInv, NoOvertaking
  <2>5. CommitsBacked'
    BY <1>2, <2>1 DEF IndInv, CommitsBacked, QuorumFor, Voters
  <2> QED  BY <2>2, <2>3, <2>4, <2>5 DEF IndInv
<1>3. QED
  BY <1>1, <1>2

\* The inductive invariant holds of every reachable state.
LEMMA Inductive == ASSUME RoundCap < RoundMax PROVE Spec => []IndInv
BY InitIndInv, IndInvStep, PTL DEF Spec

\* Two quorums of one slot cannot be for different targets.
LEMMA QuorumUnique ==
    ASSUME TypeOK, OneVotePerSlot, NEW type, NEW h, NEW r, NEW x, NEW y,
           QuorumFor(type, h, r, x), QuorumFor(type, h, r, y)
    PROVE  x = y
<1>1. \E m \in Validators \ Byz : m \in Byz \cup Voters(type, h, r, x) /\ m \in Byz \cup Voters(type, h, r, y)
  BY QuorumsMeet, ByzAssumption DEF QuorumFor
<1>2. PICK m \in Honest : MkVote(m, h, r, type, x) \in votes /\ MkVote(m, h, r, type, y) \in votes
  BY <1>1 DEF Voters, Honest
<1> DEFINE v == MkVote(m, h, r, type, x)
           w == MkVote(m, h, r, type, y)
<1>3. /\ v.val = w.val /\ v.height = w.height /\ v.round = w.round /\ v.type = w.type
      /\ v.target = x /\ w.target = y
  BY DEF MkVote
<1>4. QED
  BY <1>2, <1>3 DEF OneVotePerSlot

\* A precommit quorum leaves no room for one of another block in a later round.
LEMMA QuorumsAgree ==
    ASSUME IndInv, NEW h \in Nat, NEW r \in Round, NEW q \in Round, NEW x \in Hash, NEW y \in Hash,
           QuorumFor("Precommit", h, r, x), QuorumFor("Precommit", h, q, y), r < q
    PROVE  x = y
<1> SUFFICES ASSUME x # y PROVE FALSE
  OBVIOUS
<1>1. Byz \cup MayPrecommit(h, r, x) \in Quorums
  <2>1. /\ Voters("Precommit", h, r, x) \subseteq MayPrecommit(h, r, x)
        /\ Byz \cup MayPrecommit(h, r, x) \in SUBSET Validators
    BY DEF Voters, MayPrecommit, Honest
  <2> QED  BY <2>1, QuorumMonotone DEF QuorumFor
<1>2. PICK m \in Honest : MkVote(m, h, q, "Precommit", y) \in votes
  <2>1. \E m \in Validators \ Byz : m \in Byz \cup Voters("Precommit", h, q, y)
    BY QuorumsMeet, ByzAssumption DEF QuorumFor
  <2> QED  BY <2>1 DEF Voters, Honest
<1>3. QuorumFor("Prevote", h, q, y)
  BY <1>2 DEF IndInv, PrecommitsBacked, MkVote
<1>4. Overtaken(h, r, x)
  BY <1>3 DEF Overtaken
<1>5. QED
  BY <1>1, <1>4 DEF IndInv, NoOvertaking

\* The inductive invariant implies that the decisions of a height agree.
LEMMA IndInvAgreement == IndInv => Agreement
<1> SUFFICES ASSUME IndInv, NEW d \in decided, NEW e \in decided, d.height = e.height
             PROVE  d.hash = e.hash
  BY DEF Agreement
<1>1. PICK r \in Round : QuorumFor("Precommit", d.height, r, d.hash)
  BY DEF IndInv, CommitsBacked
<1>2. PICK q \in Round : QuorumFor("Precommit", d.height, q, e.hash)
  BY DEF IndInv, CommitsBacked
<1>3. d.height \in Nat /\ d.hash \in Hash /\ e.hash \in Hash
  BY DEF IndInv, TypeOK, Decision
<1>4. CASE r = q
  BY <1>1, <1>2, <1>4, QuorumUnique DEF IndInv
<1>5. CASE r < q
  BY <1>1, <1>2, <1>3, <1>5, QuorumsAgree
<1>6. CASE q < r
  BY <1>1, <1>2, <1>3, <1>6, QuorumsAgree
<1>7. QED
  BY <1>4, <1>5, <1>6 DEF Round

\* Whatever the timeouts, messages and faulty validators do, an FSM never makes
\* its validator sign two votes for one slot, as long as rounds stay below the
\* largest round number.
THEOREM VotesUnique == ASSUME RoundCap < RoundMax PROVE Spec => []OneVotePerSlot
<1>1. IndInv => OneVotePerSlot
  BY DEF IndInv
<1>2. QED
  BY <1>1, Inductive, PTL

\* The lock rule of fsm.rs holds of every history of votes.
THEOREM LockRule == ASSUME RoundCap < RoundMax PROVE Spec => []PrevotesRespectLock
<1>1. IndInv => PrevotesRespectLock
  BY DEF IndInv
<1>2. QED
  BY <1>1, Inductive, PTL

\* Honest validators never commit different blocks at one height.
THEOREM Safety == ASSUME RoundCap < RoundMax PROVE Spec => []Agreement
BY Inductive, IndInvAgreement, PTL

\* (height, round, step) of a validator only moves forward.
THEOREM MovesForward == ASSUME RoundCap < RoundMax PROVE Spec => Forward
<1>1. TypeOK /\ [Next]_vars => [\A n \in Honest : NotBefore(fsm[n], fsm'[n])]_vars
  <2> SUFFICES ASSUME TypeOK, Next, NEW m \in Honest
               PROVE  NotBefore(fsm[m], fsm'[m])
    OBVIOUS
  <2>a. PICK n \in Honest : \E o : Handle(n, o) /\ o.s \in FsmState /\ Kind(n, o)
    BY NextKind
  <2>1. PICK o : Handle(n, o) /\ o.s \in FsmState /\ Kind(n, o)
    BY <2>a
  <2>2. CASE m = n
    BY <2>1, <2>2, KindForward, Effects
  <2>3. CASE m # n
    BY <2>1, <2>3, Effects, StateFacts DEF NotBefore, TypeOK, StepRank, Steps
  <2> QED  BY <2>2, <2>3
<1>2. QED
  BY <1>1, TypeCorrect, PTL DEF Spec, Forward
=============================================================================
