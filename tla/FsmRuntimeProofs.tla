-------------------------- MODULE FsmRuntimeProofs --------------------------
(***************************************************************************)
(* Theorems about FsmRuntime, for every set of blocks, number of rounds    *)
(* and heights, size of the proposal cache and cap on the events of a      *)
(* turn.                                                                   *)
(*                                                                         *)
(* Plan.  StepFacts says what an event does to the height and to the block *)
(* being committed.  NeverAhead rests on the acknowledgements in the queue *)
(* being true of the chain, TypeOK on commits being of heights the pool    *)
(* knows, and NoQuorumLost on three facts: what is recorded as fed is of   *)
(* the FSM's height, a slot has one quorum, and the precommit quorum of a  *)
(* turn is the first event of its drain, so that no cap drops it.          *)
(***************************************************************************)
EXTENDS FsmRuntime, SequenceTheorems, FiniteSetTheorems, WellFoundedInduction, NaturalsInduction, TLAPS

Ack   == [type : {"BlockApplied"}, height : Nat, target : Hash]
Event == Quorum \cup Ack

\* An acknowledgement in the queue names a height the chain has.
AcksTrue ==
    \A i \in DOMAIN pending : pending[i].type = "BlockApplied" => pending[i].height <= Tip

\* Blocks are committed at heights whose votes the pool has.
CommitInRange == fsm.committing # Nil => fsm.height \in Heights

\* A slot of the pool has a quorum for one target.
OnePerSlot ==
    \A p, q \in quorums :
        p.type = q.type /\ p.height = q.height /\ p.round = q.round => p = q

EmittedHere == \A q \in emitted : q.height = fsm.height

\* A precommit quorum is fed first.
FedFirst ==
    \A i \in DOMAIN pending : pending[i].type = "PrecommitQuorum" =>
        i = Len(pending) /\ drained = 0 /\ pc = "drain"

\* Events are counted from the turn's own drain.
CountsFresh == pc = "poll" => drained = 0

Inv ==
    /\ TypeOK /\ pending \in Seq(Event) /\ CountsFresh
    /\ AcksTrue /\ NeverAhead /\ CommitInRange
    /\ OnePerSlot /\ EmittedHere /\ FedFirst /\ NoQuorumLost

USE FsmAssumption, RuntimeAssumption

-----------------------------------------------------------------------------
(* One event. *)

LEMMA StateFacts ==
    ASSUME NEW s \in FsmState
    PROVE  /\ s.height \in Nat /\ s.round \in Round /\ s.step \in Steps
           /\ s.locked \in BlockRef /\ s.valid \in BlockRef
           /\ s.proposal \in Target /\ s.committing \in Target
BY DEF FsmState

LEMMA EnterTypes ==
    ASSUME NEW s \in FsmState
    PROVE  /\ \A r \in Round : /\ EnterRound(s, r) \in FsmState
                               /\ EnterRound(s, r).height = s.height
                               /\ EnterRound(s, r).committing = s.committing
           /\ \A st \in Steps : /\ EnterStep(s, st) \in FsmState
                                /\ EnterStep(s, st).height = s.height
                                /\ EnterStep(s, st).committing = s.committing
           /\ NextRound(s.round) \in Round
<1>1. \A r \in Round : EnterRound(s, r) \in FsmState
  BY DEF FsmState, EnterRound, Target, Steps
<1>2. \A st \in Steps : EnterStep(s, st) \in FsmState
  BY DEF FsmState, EnterStep
<1>3. NextRound(s.round) \in Round
  BY StateFacts DEF NextRound, Round
<1>. QED BY <1>1, <1>2, <1>3 DEF EnterRound, EnterStep, FsmState

LEMMA HeightsFinite == IsFiniteSet(ProposedHeights)
<1>1. HeightCap + 1 \in Int
  OBVIOUS
<1>. QED BY <1>1, FS_Interval DEF ProposedHeights

LEMMA NewTypes == ASSUME NEW h \in Nat PROVE New(h) \in FsmState
  BY DEF FsmState, New, None, BlockRef, Target, Round, Steps

\* The height and the block being committed stay; a commit is of that block.
Stays(s, o) ==
    /\ o.s \in FsmState
    /\ o.s.height = s.height /\ o.s.committing = s.committing
    /\ EnteredHeight \notin o.out
    /\ \A act \in o.out : act.type = "CommitBlock" => act = CommitBlock(s.committing) /\ s.committing # Nil

\* A precommit quorum for x.
Commits(s, o, x) ==
    /\ o.s \in FsmState
    /\ o.s.height = s.height /\ o.s.committing = x /\ x \in Hash
    /\ o.out = {CommitBlock(x)}

Advances(s, o) == o.s = New(s.height + 1) /\ o.out = {EnteredHeight}

LEMMA IdleStays == ASSUME NEW s \in FsmState, NEW o, o = Outcome(s, {}) PROVE Stays(s, o)
  BY DEF Stays, Outcome

\* An outcome that neither commits nor enters a height.
LEMMA QuietStays ==
    ASSUME NEW s \in FsmState, NEW t \in FsmState, NEW out,
           t.height = s.height, t.committing = s.committing,
           \A act \in out : act.type \notin {"CommitBlock", "EnteredHeight"}
    PROVE  Stays(s, Outcome(t, out))
  BY DEF Stays, Outcome, EnteredHeight

LEMMA TickFacts ==
    ASSUME NEW s \in FsmState, NEW p \in BOOLEAN, NEW e \in BOOLEAN,
           NEW o, o = Step(s, Tick(p, e))
    PROVE  Stays(s, o)
<1>1. o = OnTick(s, p, e)
  BY DEF Step, Tick
<1> DEFINE build == IF p /\ s.proposal = Nil THEN {BuildProposal(s.valid.hash)} ELSE {}
<1>2. CASE s.step = "Propose" /\ ~e
  <2>1. o = Outcome(s, build)
    BY <1>1, <1>2 DEF OnTick
  <2>. QED BY <2>1 DEF Stays, Outcome, BuildProposal, EnteredHeight
<1>3. CASE s.step = "Propose" /\ e
  <2>1. o = Outcome(EnterStep(s, "Prevote"),
                    build \cup {BroadcastPrevote(PrevoteTargetOnTimeout(s.locked))})
    BY <1>1, <1>3 DEF OnTick
  <2>2. EnterStep(s, "Prevote") \in FsmState
        /\ EnterStep(s, "Prevote").height = s.height
        /\ EnterStep(s, "Prevote").committing = s.committing
    BY EnterTypes DEF Steps
  <2>3. \A act \in build \cup {BroadcastPrevote(PrevoteTargetOnTimeout(s.locked))} :
            act.type \notin {"CommitBlock", "EnteredHeight"}
    BY DEF BuildProposal, BroadcastPrevote
  <2>. QED BY <2>1, <2>2, <2>3, QuietStays
<1>4. CASE s.step = "Prevote" /\ e
  <2>1. o = Outcome(EnterStep(s, "Precommit"), {BroadcastPrecommit(Nil)})
    BY <1>1, <1>4 DEF OnTick
  <2>2. EnterStep(s, "Precommit") \in FsmState
        /\ EnterStep(s, "Precommit").height = s.height
        /\ EnterStep(s, "Precommit").committing = s.committing
    BY EnterTypes DEF Steps
  <2>3. \A act \in {BroadcastPrecommit(Nil)} : act.type \notin {"CommitBlock", "EnteredHeight"}
    BY DEF BroadcastPrecommit
  <2>. QED BY <2>1, <2>2, <2>3, QuietStays
<1>5. CASE s.step = "Precommit" /\ e
  <2>1. o = Outcome(EnterRound(s, NextRound(s.round)), {EnteredRound})
    BY <1>1, <1>5 DEF OnTick
  <2>2. \A act \in {EnteredRound} : act.type \notin {"CommitBlock", "EnteredHeight"}
    BY DEF EnteredRound
  <2>3. EnterRound(s, NextRound(s.round)) \in FsmState
        /\ EnterRound(s, NextRound(s.round)).height = s.height
        /\ EnterRound(s, NextRound(s.round)).committing = s.committing
    BY EnterTypes
  <2>. QED BY <2>1, <2>2, <2>3, QuietStays
<1>6. CASE s.step = "Commit" /\ e /\ s.committing # Nil
  <2>1. o = Outcome(s, {CommitBlock(s.committing)})
    BY <1>1, <1>6 DEF OnTick
  <2>. QED BY <2>1, <1>6 DEF Stays, Outcome, CommitBlock, EnteredHeight
<1>7. CASE /\ ~(s.step = "Propose") /\ ~(s.step = "Prevote" /\ e)
           /\ ~(s.step = "Precommit" /\ e) /\ ~(s.step = "Commit" /\ e /\ s.committing # Nil)
  <2>1. o = Outcome(s, {})
    BY <1>1, <1>7 DEF OnTick
  <2>. QED BY <2>1, IdleStays
<1>. QED BY <1>2, <1>3, <1>4, <1>5, <1>6, <1>7

LEMMA PrevoteQuorumFacts ==
    ASSUME NEW s \in FsmState, NEW ev \in Quorum, ev.type = "PrevoteQuorum",
           NEW o, o = Step(s, ev)
    PROVE  Stays(s, o)
<1> DEFINE r   == ev.round
           x   == ev.target
           t   == LearnPrevoteQuorum(s, r, x)
           pre == IF t.proposal = x THEN x ELSE Nil
           u   == IF pre # Nil
                    THEN [t EXCEPT !.locked = [round |-> s.round, hash |-> pre]] ELSE t
<1>0. r \in Round /\ x \in Target
  BY DEF Quorum, Round, Rounds
<1>1. o = IF ev.height = s.height THEN OnPrevoteQuorum(s, r, x) ELSE Outcome(s, {})
  BY DEF Step
<1> HIDE DEF r, x
<1>2. CASE ev.height # s.height
  BY <1>1, <1>2, IdleStays
<1>3. t \in FsmState /\ t.height = s.height /\ t.committing = s.committing
  <2>1. [round |-> r, hash |-> x] \in BlockRef \/ x = Nil
    BY <1>0 DEF BlockRef, Target
  <2>2. None \in BlockRef
    BY DEF BlockRef
  <2>. QED BY <2>1, <2>2 DEF LearnPrevoteQuorum, FsmState
<1> HIDE DEF t
<1>4. CASE ev.height = s.height /\ ~(r = s.round /\ s.step \in {"Propose", "Prevote"})
  <2>1. o = Outcome(t, {})
    BY <1>1, <1>4 DEF OnPrevoteQuorum, t
  <2>. QED BY <2>1, <1>3 DEF Stays, Outcome
<1>5. CASE ev.height = s.height /\ r = s.round /\ s.step \in {"Propose", "Prevote"}
  <2>1. o = Outcome(EnterStep(u, "Precommit"), {BroadcastPrecommit(pre)})
    BY <1>1, <1>5 DEF OnPrevoteQuorum, t
  <2>2. u \in FsmState /\ u.height = s.height /\ u.committing = s.committing
    <3>1. pre # Nil => [round |-> s.round, hash |-> pre] \in BlockRef
      BY <1>0, StateFacts DEF Target, BlockRef
    <3>. QED BY <1>3, <3>1 DEF FsmState
  <2> HIDE DEF u
  <2>3. EnterStep(u, "Precommit") \in FsmState
        /\ EnterStep(u, "Precommit").height = s.height
        /\ EnterStep(u, "Precommit").committing = s.committing
    BY <2>2, EnterTypes DEF Steps
  <2>4. \A act \in {BroadcastPrecommit(pre)} : act.type \notin {"CommitBlock", "EnteredHeight"}
    BY DEF BroadcastPrecommit
  <2>. QED BY <2>1, <2>3, <2>4, QuietStays
<1>. QED BY <1>2, <1>4, <1>5

LEMMA PrecommitQuorumFacts ==
    ASSUME NEW s \in FsmState, NEW ev \in Quorum, ev.type = "PrecommitQuorum",
           NEW o, o = Step(s, ev)
    PROVE  \/ Stays(s, o) /\ (ev.height # s.height \/ ev.target = Nil)
           \/ Commits(s, o, ev.target) /\ ev.height = s.height
<1> DEFINE r == ev.round
           x == ev.target
<1>0. r \in Round /\ x \in Target
  BY DEF Quorum, Round, Rounds
<1>1. o = IF ev.height = s.height THEN OnPrecommitQuorum(s, r, x) ELSE Outcome(s, {})
  BY DEF Step
<1>2. CASE ev.height = s.height /\ x # Nil
  <2> DEFINE t == [s EXCEPT !.committing = x, !.step = "Commit"]
  <2>1. o = Outcome(t, {CommitBlock(x)})
    BY <1>1, <1>2 DEF OnPrecommitQuorum
  <2>2. t \in FsmState /\ t.height = s.height /\ t.committing = x
    BY <1>0 DEF FsmState, Steps
  <2> HIDE DEF t
  <2>. QED BY <2>1, <2>2, <1>0, <1>2 DEF Commits, Outcome, Target
<1>3. CASE ev.height = s.height /\ x = Nil /\ r = s.round /\ s.committing = Nil
  <2>1. o = Outcome(EnterRound(s, NextRound(s.round)), {EnteredRound})
    BY <1>1, <1>3 DEF OnPrecommitQuorum
  <2>2. \A act \in {EnteredRound} : act.type \notin {"CommitBlock", "EnteredHeight"}
    BY DEF EnteredRound
  <2>3. EnterRound(s, NextRound(s.round)) \in FsmState
        /\ EnterRound(s, NextRound(s.round)).height = s.height
        /\ EnterRound(s, NextRound(s.round)).committing = s.committing
    BY EnterTypes
  <2>. QED BY <2>1, <2>2, <2>3, <1>3, QuietStays
<1>4. CASE ev.height # s.height \/ (x = Nil /\ ~(r = s.round /\ s.committing = Nil))
  <2>1. o = Outcome(s, {})
    BY <1>1, <1>4 DEF OnPrecommitQuorum
  <2>. QED BY <2>1, <1>4, IdleStays
<1>. QED BY <1>2, <1>3, <1>4

LEMMA AckFacts ==
    ASSUME NEW s \in FsmState, NEW ev \in Ack, NEW o, o = Step(s, ev)
    PROVE  Stays(s, o) \/ (Advances(s, o) /\ ev.height = s.height)
<1>0. ev.type = "BlockApplied"
  BY DEF Ack
<1>1. o = IF ev.height = s.height THEN OnBlockApplied(s, ev.target) ELSE Outcome(s, {})
  BY <1>0 DEF Step
<1>. QED BY <1>1, IdleStays DEF OnBlockApplied, EnterHeight, Advances, Outcome

-----------------------------------------------------------------------------
(* Carrying out what an event asked for. *)

\* What an event may ask for, and what is known of the event when it does.
Kind(o) ==
    \/ Stays(fsm, o)
    \/ fsm.height \in Heights /\ \E x \in Hash : Commits(fsm, o, x)
    \/ fsm.height <= Tip /\ Advances(fsm, o)

LEMMA DispatchEffects ==
    ASSUME Inv, NEW o, NEW rest \in Seq(Event), Dispatch(o, rest), Kind(o)
    PROVE  /\ fsm' = o.s /\ quorums' \subseteq quorums
           /\ emitted' = IF EnteredHeight \in o.out THEN {} ELSE emitted
           /\ committed' \in BOOLEAN
           /\ DOMAIN proposals' \subseteq DOMAIN proposals
           /\ chain' \in Seq(Hash) /\ Tip <= Tip' /\ Tip' <= HeightCap
           /\ \/ pending' = rest
              \/ \E x \in Hash : pending' = Append(rest, BlockApplied(fsm.height, x))
                                /\ fsm.height <= Tip'
<1> DEFINE commits == {act \in o.out : act.type = "CommitBlock"}
<1>0. /\ chain \in Seq(Hash) /\ Tip \in Nat /\ Tip <= HeightCap /\ HeightCap \in Nat
      /\ fsm \in FsmState /\ fsm.height \in Nat /\ fsm.committing \in Target
      /\ committed \in BOOLEAN
  BY LenProperties, StateFacts DEF Inv, TypeOK, Tip
<1>1. /\ fsm' = o.s /\ quorums' \subseteq quorums
      /\ emitted' = IF EnteredHeight \in o.out THEN {} ELSE emitted
  BY DEF Dispatch
<1>2. CASE commits = {}
  <2>1. pending' = rest /\ UNCHANGED <<chain, proposals, committed>>
    BY <1>2 DEF Dispatch
  <2>. QED BY <1>0, <1>1, <2>1 DEF Tip
<1>3. CASE commits # {}
  <2>0. PICK act \in commits : \E c \in CommitOutcomes(fsm.height, act.arg) :
            /\ pending' = rest \o c.acks
            /\ proposals' = IF c.effect = "none" THEN proposals
                            ELSE Restrict(proposals, DOMAIN proposals \ {fsm.height})
            /\ chain' = IF c.effect = "applied" THEN Append(chain, act.arg) ELSE chain
            /\ committed' = (committed \/ c.effect = "applied")
    BY <1>3 DEF Dispatch
  <2>1. PICK c \in CommitOutcomes(fsm.height, act.arg) :
            /\ pending' = rest \o c.acks
            /\ proposals' = IF c.effect = "none" THEN proposals
                            ELSE Restrict(proposals, DOMAIN proposals \ {fsm.height})
            /\ chain' = IF c.effect = "applied" THEN Append(chain, act.arg) ELSE chain
            /\ committed' = (committed \/ c.effect = "applied")
    BY <2>0
  <2>2. act.arg \in Hash /\ fsm.height \in Heights
    <3>1. CASE Stays(fsm, o)
      BY <1>0, <3>1 DEF Stays, CommitBlock, Inv, CommitInRange, Target
    <3>2. ASSUME fsm.height \in Heights, NEW x \in Hash, Commits(fsm, o, x) PROVE act.arg \in Hash
      BY <3>2 DEF Commits, CommitBlock
    <3>3. CASE Advances(fsm, o)
      BY <3>3 DEF Advances, EnteredHeight
    <3>. QED BY <3>1, <3>2, <3>3 DEF Kind
  <2> DEFINE h == fsm.height
             ack == BlockApplied(h, act.arg)
  <2>3. \/ c.acks = <<ack>> /\ c.effect = "none" /\ h <= Tip
        \/ c.acks = <<>> /\ c.effect \in {"none", "lost"}
        \/ c.acks = <<ack>> /\ c.effect = "applied" /\ h = Tip + 1
    BY DEF CommitOutcomes
  <2>4. ack \in Event /\ rest \o <<ack>> = Append(rest, ack) /\ rest \o <<>> = rest
    <3>1. ack \in Event
      BY <1>0, <2>2 DEF Event, Ack, BlockApplied
    <3>. QED BY <3>1, AppendIsConcat, ConcatEmptySeq
  <2>5. DOMAIN proposals' \subseteq DOMAIN proposals
    BY <2>1 DEF Restrict
  <2>6. committed' \in BOOLEAN
    BY <1>0, <2>1
  <2>7. /\ Append(chain, act.arg) \in Seq(Hash)
        /\ Len(Append(chain, act.arg)) = Tip + 1
    BY <1>0, <2>2, AppendProperties DEF Tip
  <2>8. CASE c.effect = "applied"
    <3>1. Tip' = Tip + 1 /\ c.acks = <<ack>> /\ h = Tip + 1
      BY <2>1, <2>3, <2>7, <2>8 DEF Tip
    <3>2. Tip + 1 <= HeightCap
      BY <2>2, <3>1 DEF Heights
    <3>3. chain' \in Seq(Hash)
      BY <2>1, <2>7, <2>8
    <3>4. pending' = Append(rest, ack)
      BY <2>1, <2>4, <3>1
    <3>. QED BY <1>0, <1>1, <2>2, <2>5, <2>6, <3>1, <3>2, <3>3, <3>4
  <2>9. CASE c.effect # "applied"
    <3>1. chain' = chain /\ Tip' = Tip
      BY <2>1, <2>9 DEF Tip
    <3>2. pending' = rest \/ (pending' = Append(rest, ack) /\ h <= Tip)
      BY <2>1, <2>3, <2>4, <2>9
    <3>. QED BY <1>0, <1>1, <2>2, <2>5, <2>6, <3>1, <3>2
  <2>. QED BY <2>8, <2>9
<1>. QED BY <1>2, <1>3

\* The invariant after it.  `rest` is what is left of the queue: it has no precommit
\* quorum, and one that was recorded as fed has its block being committed.
LEMMA DispatchInv ==
    ASSUME Inv, NEW o, NEW rest \in Seq(Event), Dispatch(o, rest), Kind(o),
           \A i \in 1 .. Len(rest) : /\ i \in DOMAIN pending /\ rest[i] = pending[i]
                                     /\ rest[i].type # "PrecommitQuorum",
           \A q \in emitted : q.type = "PrecommitQuorum" /\ q.target # Nil =>
                                  o.s.committing # Nil \/ EnteredHeight \in o.out,
           drained' \in 0 .. MaxEvents, pc' \in {"tick", "poll", "drain"}, CountsFresh'
    PROVE  Inv'
<1>0. /\ fsm \in FsmState /\ fsm.height \in Nat /\ Tip \in Nat /\ fsm.height <= Tip + 1
      /\ pending \in Seq(Event)
  BY LenProperties, StateFacts DEF Inv, TypeOK, Tip, NeverAhead
<1>1. /\ fsm' = o.s /\ quorums' \subseteq quorums
      /\ emitted' = IF EnteredHeight \in o.out THEN {} ELSE emitted
      /\ committed' \in BOOLEAN
      /\ DOMAIN proposals' \subseteq DOMAIN proposals
      /\ chain' \in Seq(Hash) /\ Tip <= Tip' /\ Tip' <= HeightCap /\ Tip' \in Nat
  BY DispatchEffects, LenProperties DEF Tip
<1> DEFINE QueueTrue(e) == /\ e.type # "PrecommitQuorum"
                           /\ e.type = "BlockApplied" => e.height <= Tip'
           Moved == \/ fsm'.height = fsm.height /\ EnteredHeight \notin o.out
                       /\ (fsm'.committing # Nil => fsm.height \in Heights)
                    \/ EnteredHeight \in o.out /\ fsm'.committing = Nil
                       /\ fsm'.height = fsm.height + 1 /\ fsm.height <= Tip
<1>2. /\ pending' \in Seq(Event)
      /\ \A i \in DOMAIN pending' : QueueTrue(pending'[i])
  <2>1. \A i \in 1 .. Len(rest) : QueueTrue(rest[i])
    <3> TAKE i \in 1 .. Len(rest)
    <3>1. rest[i].type = "BlockApplied" => rest[i].height <= Tip /\ rest[i].height \in Nat
      BY <1>0, ElementOfSeq, LenProperties DEF Inv, AcksTrue, Event, Quorum, Ack
    <3>. QED BY <1>0, <1>1, <3>1
  <2>2. CASE pending' = rest
    BY <2>1, <2>2, LenProperties
  <2>3. ASSUME NEW x \in Hash, pending' = Append(rest, BlockApplied(fsm.height, x)),
               fsm.height <= Tip'
        PROVE  /\ pending' \in Seq(Event)
               /\ \A i \in DOMAIN pending' : QueueTrue(pending'[i])
    <3> DEFINE e == BlockApplied(fsm.height, x)
    <3>1. e \in Event /\ e.type = "BlockApplied" /\ e.height = fsm.height
      BY <1>0 DEF Event, Ack, BlockApplied
    <3> HIDE DEF e
    <3>2. /\ Append(rest, e) \in Seq(Event)
          /\ DOMAIN Append(rest, e) = 1 .. Len(rest) + 1
          /\ \A i \in 1 .. Len(rest) : Append(rest, e)[i] = rest[i]
          /\ Append(rest, e)[Len(rest) + 1] = e
      BY <3>1, AppendProperties, LenProperties
    <3>3. \A i \in 1 .. Len(rest) + 1 : i \in 1 .. Len(rest) \/ i = Len(rest) + 1
      BY LenProperties
    <3>4. pending' = Append(rest, e)
      BY <2>3 DEF e
    <3>. QED BY <2>1, <2>3, <3>1, <3>2, <3>3, <3>4
  <2>. QED BY <2>2, <2>3, DispatchEffects
<1>3. fsm' \in FsmState /\ Moved
  <2>1. CASE Stays(fsm, o)
    BY <1>1, <2>1 DEF Stays, Inv, CommitInRange
  <2>2. ASSUME fsm.height \in Heights, NEW x \in Hash, Commits(fsm, o, x) PROVE fsm' \in FsmState /\ Moved
    BY <1>1, <2>2 DEF Commits, CommitBlock, EnteredHeight
  <2>3. CASE fsm.height <= Tip /\ Advances(fsm, o)
    <3>1. fsm.height + 1 \in Nat
      BY <1>0
    <3>. QED BY <1>1, <2>3, <3>1, NewTypes DEF Advances, New
  <2>. QED BY <2>1, <2>2, <2>3 DEF Kind
<1>4. TypeOK'
  <2>1. Cardinality(DOMAIN proposals') <= CacheCap
    <3>1. IsFiniteSet(DOMAIN proposals) /\ Cardinality(DOMAIN proposals) <= CacheCap
      BY HeightsFinite, FS_Subset DEF Inv, TypeOK
    <3>2. Cardinality(DOMAIN proposals') <= Cardinality(DOMAIN proposals)
          /\ IsFiniteSet(DOMAIN proposals')
      BY <1>1, <3>1, FS_Subset
    <3>. QED BY <3>1, <3>2, FS_CardinalityType
  <2>. QED BY <1>1, <1>3, <2>1 DEF Inv, TypeOK
<1>5. AcksTrue' /\ FedFirst'
  BY <1>2 DEF AcksTrue, FedFirst
<1>6. NeverAhead'
  BY <1>0, <1>1, <1>3 DEF NeverAhead
<1>7. CommitInRange'
  BY <1>3 DEF CommitInRange, Heights
<1>8. OnePerSlot'
  BY <1>1 DEF Inv, OnePerSlot
<1>9. EmittedHere' /\ NoQuorumLost'
  BY <1>1, <1>3 DEF Inv, EmittedHere, NoQuorumLost
<1>. QED BY <1>2, <1>4, <1>5, <1>6, <1>7, <1>8, <1>9 DEF Inv

-----------------------------------------------------------------------------
(* The steps of a turn. *)

LEMMA TickInv == ASSUME Inv, NEW expired \in BOOLEAN, TickOnce(expired) PROVE Inv'
<1>1. PICK am_proposer \in BOOLEAN : Dispatch(Step(fsm, Tick(am_proposer, expired)), <<>>)
  BY DEF TickOnce
<1> DEFINE o == Step(fsm, Tick(am_proposer, expired))
<1>2. Stays(fsm, o)
  BY TickFacts DEF Inv, TypeOK
<1> HIDE DEF o
<1>3. \A q \in emitted : q.type = "PrecommitQuorum" /\ q.target # Nil => fsm.committing # Nil
  BY DEF Inv, NoQuorumLost, FedFirst, ToSet, TickOnce
<1>4. <<>> \in Seq(Event) /\ Len(<<>>) = 0
  BY EmptySeq
<1>5. drained' \in 0 .. MaxEvents /\ pc' \in {"tick", "poll", "drain"}
  BY DEF TickOnce
<1>6. Dispatch(o, <<>>)
  BY <1>1 DEF o
<1>7. Kind(o) /\ o.s.committing = fsm.committing /\ CountsFresh'
  BY <1>2 DEF Kind, Stays, TickOnce, CountsFresh
<1>8. \A i \in 1 .. Len(<<>>) : i \in DOMAIN pending /\ <<>>[i] = pending[i]
                               /\ <<>>[i].type # "PrecommitQuorum"
  BY <1>4
<1>9. \A q \in emitted : q.type = "PrecommitQuorum" /\ q.target # Nil =>
                             o.s.committing # Nil \/ EnteredHeight \in o.out
  BY <1>3, <1>7
<1>. QED BY <1>4, <1>5, <1>6, <1>7, <1>8, <1>9, DispatchInv

\* The queue without its last event.
LEMMA FrontFacts ==
    ASSUME NEW seq \in Seq(Event), seq # <<>>
    PROVE  /\ Len(seq) \in Nat \ {0} /\ Last(seq) = seq[Len(seq)] /\ Last(seq) \in Event
           /\ Front(seq) \in Seq(Event) /\ Len(Front(seq)) = Len(seq) - 1
           /\ \A i \in 1 .. Len(Front(seq)) : Front(seq)[i] = seq[i]
<1>1. Len(seq) \in Nat \ {0}
  BY EmptySeq
<1>2. Last(seq) = seq[Len(seq)] /\ Last(seq) \in Event
  BY <1>1, ElementOfSeq DEF Last
<1>3. PICK n : n = Len(seq) - 1
  OBVIOUS
<1>4. n \in Nat /\ \A i \in 1 .. n : seq[i] \in Event
  BY <1>1, <1>3, ElementOfSeq
<1>5. Front(seq) = SubSeq(seq, 1, n)
  BY <1>3 DEF Front
<1>6. /\ SubSeq(seq, 1, n) \in Seq(Event)
      /\ Len(SubSeq(seq, 1, n)) = IF 1 <= n THEN n - 1 + 1 ELSE 0
      /\ \A i \in 1 .. n - 1 + 1 : SubSeq(seq, 1, n)[i] = seq[1 + i - 1]
  BY <1>4, SubSeqProperties
<1>. QED BY <1>1, <1>2, <1>3, <1>4, <1>5, <1>6

LEMMA DrainInv == ASSUME Inv, Drain PROVE Inv'
<1> DEFINE ev   == Last(pending)
           rest == Front(pending)
           o    == Step(fsm, ev)
<1>0. /\ pending \in Seq(Event) /\ pending # <<>> /\ fsm \in FsmState
      /\ fsm.height \in Nat /\ Tip \in Nat
  BY LenProperties, StateFacts DEF Inv, Drain, TypeOK, Tip
<1>1. /\ Len(pending) \in Nat \ {0} /\ ev = pending[Len(pending)] /\ ev \in Event
      /\ rest \in Seq(Event) /\ Len(rest) = Len(pending) - 1
      /\ \A i \in 1 .. Len(rest) : rest[i] = pending[i]
      /\ DOMAIN pending = 1 .. Len(pending)
  BY <1>0, FrontFacts, LenProperties
<1>2. Dispatch(o, rest)
  BY DEF Drain
<1> HIDE DEF ev, rest
<1>3. \/ Stays(fsm, o) /\ ~(/\ ev.type = "PrecommitQuorum" /\ ev.height = fsm.height
                            /\ ev.target # Nil)
      \/ /\ ev.type = "PrecommitQuorum" /\ fsm.height \in Heights
         /\ ev.target \in Hash /\ Commits(fsm, o, ev.target)
      \/ fsm.height <= Tip /\ Advances(fsm, o)
  <2>1. CASE ev \in Quorum /\ ev.type = "PrevoteQuorum"
    BY <1>0, <2>1, PrevoteQuorumFacts
  <2>2. CASE ev \in Quorum /\ ev.type = "PrecommitQuorum"
    BY <1>0, <2>2, PrecommitQuorumFacts DEF Commits, Quorum
  <2>3. CASE ev \in Ack
    <3>1. ev.height <= Tip
      BY <1>1, <2>3 DEF Inv, AcksTrue, Ack
    <3>2. ev.type # "PrecommitQuorum"
      BY <2>3 DEF Ack
    <3>. QED BY <1>0, <2>3, <3>1, <3>2, AckFacts
  <2>. QED BY <1>1, <2>1, <2>2, <2>3 DEF Event, Quorum
<1> HIDE DEF o
<1>4. \A i \in 1 .. Len(rest) : i \in DOMAIN pending /\ rest[i] = pending[i]
                               /\ rest[i].type # "PrecommitQuorum"
  <2> TAKE i \in 1 .. Len(rest)
  <2>1. i \in DOMAIN pending /\ rest[i] = pending[i] /\ i # Len(pending)
    BY <1>1
  <2>. QED BY <2>1 DEF Inv, FedFirst
<1>5. ASSUME NEW q \in emitted, q.type = "PrecommitQuorum", q.target # Nil
      PROVE  o.s.committing # Nil \/ EnteredHeight \in o.out
  <2>1. q.height = fsm.height /\ (fsm.committing # Nil \/ q = ev)
    BY <1>1, <1>5 DEF Inv, EmittedHere, NoQuorumLost, FedFirst, ToSet
  <2>2. CASE Advances(fsm, o)
    BY <2>2 DEF Advances
  <2>3. CASE ev.target \in Hash /\ Commits(fsm, o, ev.target)
    BY <2>3 DEF Commits
  <2>4. CASE Stays(fsm, o) /\ q # ev
    BY <2>1, <2>4 DEF Stays
  <2>. QED BY <1>3, <1>5, <2>1, <2>2, <2>3, <2>4
<1>6. drained' \in 0 .. MaxEvents /\ pc' \in {"tick", "poll", "drain"} /\ CountsFresh'
  BY DEF Drain, Inv, TypeOK, CountsFresh
<1>7. Kind(o)
  BY <1>3 DEF Kind
<1>. QED BY <1>1, <1>2, <1>4, <1>5, <1>6, <1>7, DispatchInv

LEMMA EndTurnInv == ASSUME Inv, EndTurn PROVE Inv'
<1>1. /\ pc = "drain" /\ pending' = <<>> /\ pc' = "tick"
      /\ UNCHANGED <<fsm, chain, quorums, proposals, emitted, committed, drained>>
      /\ pending = <<>> \/ drained = MaxEvents
  BY DEF EndTurn
<1>2. <<>> \in Seq(Event) /\ DOMAIN <<>> = {} /\ Tip' = Tip
  BY <1>1, EmptySeq DEF Tip
<1>3. NoQuorumLost'
  <2> SUFFICES ASSUME NEW q \in emitted, q.type = "PrecommitQuorum", q.target # Nil
               PROVE  fsm.committing # Nil
    BY <1>1 DEF NoQuorumLost
  <2>1. ASSUME NEW i \in DOMAIN pending PROVE pending[i].type # "PrecommitQuorum"
    BY <1>1, <1>2 DEF Inv, FedFirst
  <2>. QED BY <2>1 DEF Inv, NoQuorumLost, ToSet
<1>. QED BY <1>1, <1>2, <1>3 DEF Inv, TypeOK, AcksTrue, NeverAhead, CommitInRange, OnePerSlot,
            EmittedHere, FedFirst, CountsFresh

-----------------------------------------------------------------------------
(* The poll: the quorums of the FSM's own slot, at most one of each type. *)

LEMMA SetToSeqOfOne ==
    ASSUME NEW S \in SUBSET Event, \A p, q \in S : p = q
    PROVE  /\ SetToSeq(S) \in Seq(Event)
           /\ S = {} => SetToSeq(S) = <<>>
           /\ \A x \in S : SetToSeq(S) = <<x>>
<1> DEFINE f == SetToSeq(S)
<1>1. ASSUME S = {} PROVE f = <<>>
  <2>1. Cardinality(S) = 0 /\ 1 .. 0 = {}
    BY <1>1, FS_EmptySet
  <2>2. \A g \in [1 .. Cardinality(S) -> S] : IsInjective(g)
    BY <2>1 DEF IsInjective
  <2>3. <<>> \in [1 .. Cardinality(S) -> S]
    BY <2>1
  <2>4. f \in [1 .. Cardinality(S) -> S]
    BY <2>2, <2>3 DEF SetToSeq
  <2>. QED BY <2>1, <2>4
<1>2. ASSUME NEW x \in S PROVE f = <<x>>
  <2>1. S = {x} /\ Cardinality(S) = 1 /\ 1 .. 1 = {1}
    BY <1>2, FS_Singleton
  <2>2. <<x>> \in [1 .. Cardinality(S) -> S] /\ IsInjective(<<x>>)
    BY <2>1 DEF IsInjective
  <2>3. f \in [1 .. Cardinality(S) -> S]
    BY <2>2 DEF SetToSeq
  <2>. QED BY <2>1, <2>3
<1>3. <<>> \in Seq(Event) /\ \A x \in S : <<x>> \in Seq(Event)
  BY EmptySeq
<1> HIDE DEF f
<1>4. \A x \in S : f = <<x>> /\ f \in Seq(Event) /\ S # {}
  BY <1>2, <1>3
<1>5. f \in Seq(Event) /\ (S = {} => f = <<>>) /\ \A x \in S : f = <<x>>
  BY <1>1, <1>3, <1>4
<1>. QED BY <1>5 DEF f

LEMMA PollInv == ASSUME Inv, Poll PROVE Inv'
<1> DEFINE A == NewQuorums("PrevoteQuorum")
           B == NewQuorums("PrecommitQuorum")
           a == SetToSeq(A)
           b == SetToSeq(B)
<1>1. /\ pc = "poll" /\ pending' = pending \o a \o b /\ emitted' = emitted \cup A \cup B
      /\ pc' = "drain" /\ UNCHANGED <<fsm, chain, quorums, proposals, committed, drained>>
  BY DEF Poll
<1>2. /\ \A q \in A : q \in quorums /\ q.type = "PrevoteQuorum" /\ q.height = fsm.height
      /\ \A q \in B : q \in quorums /\ q.type = "PrecommitQuorum" /\ q.height = fsm.height
      /\ A \in SUBSET Event /\ B \in SUBSET Event
      /\ A \in SUBSET Quorum /\ B \in SUBSET Quorum
  BY DEF NewQuorums, Inv, TypeOK, Event
<1>3. (\A p, q \in A : p = q) /\ (\A p, q \in B : p = q)
  BY DEF NewQuorums, Inv, OnePerSlot
<1> HIDE DEF A, B
<1>4. /\ a \in Seq(Event) /\ (a = <<>> \/ \E x \in A : a = <<x>>)
      /\ b \in Seq(Event) /\ (b = <<>> \/ \E x \in B : b = <<x>>)
      /\ \A x \in B : b = <<x>>
  <2>1. a \in Seq(Event) /\ (A = {} => a = <<>>) /\ (\A x \in A : a = <<x>>)
    BY <1>2, <1>3, SetToSeqOfOne
  <2>2. b \in Seq(Event) /\ (B = {} => b = <<>>) /\ (\A x \in B : b = <<x>>)
    BY <1>2, <1>3, SetToSeqOfOne
  <2>. QED BY <2>1, <2>2
<1> HIDE DEF a, b
<1>5. pending \in Seq(Event) /\ Len(pending) \in Nat /\ DOMAIN pending = 1 .. Len(pending)
  BY LenProperties DEF Inv
<1>6. PICK w : w = pending \o a
  OBVIOUS
<1>7. /\ w \in Seq(Event) /\ Len(w) \in Nat /\ DOMAIN w = 1 .. Len(w)
      /\ \A i \in 1 .. Len(w) : (i \in DOMAIN pending /\ w[i] = pending[i]) \/ w[i] \in A
  <2>1. CASE a = <<>>
    BY <1>5, <1>6, <2>1, ConcatEmptySeq
  <2>2. ASSUME NEW x \in A, a = <<x>>
        PROVE  /\ w \in Seq(Event) /\ Len(w) \in Nat /\ DOMAIN w = 1 .. Len(w)
               /\ \A i \in 1 .. Len(w) : (i \in DOMAIN pending /\ w[i] = pending[i]) \/ w[i] \in A
    <3>1. x \in Event /\ w = Append(pending, x)
      BY <1>2, <1>5, <1>6, <2>2, AppendIsConcat
    <3>2. /\ w \in Seq(Event) /\ Len(w) = Len(pending) + 1
          /\ \A i \in 1 .. Len(pending) : w[i] = pending[i]
          /\ w[Len(pending) + 1] = x
      BY <1>5, <3>1, AppendProperties
    <3>3. Len(w) \in Nat /\ DOMAIN w = 1 .. Len(w)
      BY <3>2, LenProperties
    <3>4. \A i \in 1 .. Len(pending) + 1 : i \in 1 .. Len(pending) \/ i = Len(pending) + 1
      BY <1>5
    <3>. QED BY <1>5, <3>2, <3>3, <3>4
  <2>. QED BY <1>4, <2>1, <2>2
<1> DEFINE Polled ==
      /\ pending' \in Seq(Event) /\ DOMAIN pending' = 1 .. Len(pending')
      /\ \A i \in DOMAIN pending' :
            \/ i \in DOMAIN pending /\ pending'[i] = pending[i]
            \/ pending'[i] \in A
            \/ pending'[i] \in B /\ i = Len(pending')
      /\ \A x \in B : x \in ToSet(pending')
<1>8. Polled
  <2>1. pending' = w \o b
    BY <1>1, <1>6
  <2>2. CASE b = <<>>
    <3>1. B = {}
      BY <1>4, <2>2
    <3>2. pending' = w
      BY <1>7, <2>1, <2>2, ConcatEmptySeq
    <3>. QED BY <1>7, <3>1, <3>2
  <2>3. ASSUME NEW x \in B, b = <<x>>
        PROVE  Polled
    <3>1. x \in Event /\ pending' = Append(w, x)
      BY <1>2, <1>7, <2>1, <2>3, AppendIsConcat
    <3>2. /\ pending' \in Seq(Event) /\ Len(pending') = Len(w) + 1
          /\ \A i \in 1 .. Len(w) : pending'[i] = w[i]
          /\ pending'[Len(w) + 1] = x
      BY <1>7, <3>1, AppendProperties
    <3>3. DOMAIN pending' = 1 .. Len(pending')
      BY <3>2, LenProperties
    <3>4. \A i \in 1 .. Len(w) + 1 : i \in 1 .. Len(w) \/ i = Len(w) + 1
      BY <1>7
    <3>5. \A y \in B : y = x
      BY <1>3, <2>3
    <3>6. Len(w) + 1 \in DOMAIN pending'
      BY <1>7, <3>2, <3>3
    <3>. QED BY <1>7, <3>2, <3>3, <3>4, <3>5, <3>6 DEF ToSet
  <2>. QED BY <1>4, <2>2, <2>3
<1>9. \A i \in DOMAIN pending : pending[i].type # "PrecommitQuorum"
  BY <1>1 DEF Inv, FedFirst
<1>10. /\ Tip' = Tip /\ drained' = 0 /\ drained = 0
  BY <1>1 DEF Inv, CountsFresh, Tip
<1>11. TypeOK' /\ CountsFresh'
  BY <1>1, <1>2 DEF Inv, TypeOK, CountsFresh, Tip
<1>12. AcksTrue'
  <2>1. \A q \in A \cup B : q.type # "BlockApplied"
    BY <1>2
  <2>. QED BY <1>8, <1>10, <2>1 DEF Inv, AcksTrue
<1>13. FedFirst'
  BY <1>1, <1>2, <1>8, <1>9, <1>10 DEF FedFirst
<1>14. EmittedHere'
  BY <1>1, <1>2 DEF Inv, EmittedHere
<1>15. NoQuorumLost'
  <2>1. ASSUME NEW q \in emitted, q.type = "PrecommitQuorum", q.target # Nil
        PROVE  fsm.committing # Nil
    BY <1>9, <2>1 DEF Inv, NoQuorumLost, ToSet
  <2>2. ASSUME NEW q \in A PROVE q.type # "PrecommitQuorum"
    BY <1>2
  <2>. QED BY <1>1, <1>8, <2>1, <2>2 DEF NoQuorumLost
<1>16. NeverAhead' /\ CommitInRange' /\ OnePerSlot'
  BY <1>1, <1>10 DEF Inv, NeverAhead, CommitInRange, OnePerSlot
<1>. QED BY <1>8, <1>11, <1>12, <1>13, <1>14, <1>15, <1>16 DEF Inv

-----------------------------------------------------------------------------
(* The rest of the node. *)

LEMMA LegacyApplyInv == ASSUME Inv, LegacyApply PROVE Inv'
<1>1. PICK hash \in Hash : chain' = Append(chain, hash)
  BY DEF LegacyApply
<1>2. /\ Tip < HeightCap
      /\ UNCHANGED <<fsm, quorums, proposals, emitted, committed, pending, drained, pc>>
  BY DEF LegacyApply
<1>3. chain \in Seq(Hash) /\ Tip \in Nat
  BY LenProperties DEF Inv, TypeOK, Tip
<1>4. chain' \in Seq(Hash) /\ Tip' = Tip + 1
  BY <1>1, <1>3, AppendProperties DEF Tip
<1>5. Tip' \in Nat /\ Tip' <= HeightCap /\ Tip <= Tip'
  BY <1>2, <1>3, <1>4
<1>6. TypeOK' /\ CountsFresh'
  BY <1>2, <1>4, <1>5 DEF Inv, TypeOK, CountsFresh
<1>7. AcksTrue'
  <2>1. ASSUME NEW i \in DOMAIN pending, pending[i].type = "BlockApplied"
        PROVE  pending[i].height <= Tip'
    <3>1. pending[i] \in Event
      BY LenProperties, ElementOfSeq DEF Inv
    <3>2. pending[i].height \in Nat /\ pending[i].height <= Tip
      BY <2>1, <3>1 DEF Event, Quorum, Ack, Inv, AcksTrue
    <3>. QED BY <1>3, <1>5, <3>2
  <2>. QED BY <1>2, <2>1 DEF AcksTrue
<1>8. NeverAhead'
  <2>1. fsm.height \in Nat /\ fsm.height <= Tip + 1
    BY StateFacts DEF Inv, TypeOK, NeverAhead
  <2>. QED BY <1>2, <1>3, <1>4, <2>1 DEF NeverAhead
<1>. QED BY <1>2, <1>6, <1>7, <1>8 DEF Inv, CommitInRange, OnePerSlot, EmittedHere, FedFirst,
            NoQuorumLost

LEMMA QuorumReachedInv == ASSUME Inv, QuorumReached PROVE Inv'
<1>1. PICK q \in Quorum :
          /\ \A p \in quorums : ~(p.type = q.type /\ p.height = q.height /\ p.round = q.round)
          /\ quorums' = quorums \cup {q}
  BY DEF QuorumReached
<1>2. UNCHANGED <<fsm, chain, proposals, emitted, committed, pending, drained, pc>> /\ Tip' = Tip
  BY DEF QuorumReached, Tip
<1>3. OnePerSlot'
  BY <1>1 DEF Inv, OnePerSlot
<1>. QED BY <1>1, <1>2, <1>3 DEF Inv, TypeOK, CountsFresh, AcksTrue, NeverAhead, CommitInRange,
            EmittedHere, FedFirst, NoQuorumLost

LEMMA LeastNumber ==
    ASSUME NEW S \in SUBSET Nat, S # {}
    PROVE  \E m \in S : \A n \in S : m <= n
<1> DEFINE Less == {p \in Nat \X Nat : p[1] < p[2]}
<1>1. IsWellFoundedOn(Less, Nat)
  BY NatLessThanWellFounded DEF OpToRel
<1> HIDE DEF Less
<1>2. PICK m \in S : \A n \in S : ~(<<n, m>> \in Less)
  BY <1>1, WFMin
<1>3. ASSUME NEW n \in S PROVE m <= n
  <2>1. m \in Nat /\ n \in Nat
    OBVIOUS
  <2>2. ~(n < m)
    BY <1>2, <2>1 DEF Less
  <2>. QED BY <2>1, <2>2
<1>. QED BY <1>3

\* At most n elements have fewer than n above them.
LEMMA TopCardinality ==
    ASSUME NEW S \in SUBSET Nat, IsFiniteSet(S), NEW n \in Nat \ {0}
    PROVE  Cardinality({j \in S : Cardinality({i \in S : i > j}) < n}) <= n
<1> DEFINE T == {j \in S : Cardinality({i \in S : i > j}) < n}
<1>0. T \subseteq S /\ \A j \in T : Cardinality({i \in S : i > j}) < n
  OBVIOUS
<1> HIDE DEF T
<1>1. CASE T = {}
  <2>1. Cardinality(T) = 0
    BY <1>1, FS_EmptySet
  <2>. QED BY <2>1 DEF T
<1>2. CASE T # {}
  <2>1. PICK m \in T : \A j \in T : m <= j
    BY <1>0, <1>2, LeastNumber
  <2> DEFINE A == {i \in S : i > m}
  <2>2. A \subseteq S /\ Cardinality(A) < n
    BY <1>0, <2>1
  <2>7. IsFiniteSet(A) /\ Cardinality(A) \in Nat
    BY <2>2, FS_Subset, FS_CardinalityType
  <2>3. T \subseteq A \cup {m}
    <3>1. ASSUME NEW j \in T, j # m PROVE j \in S /\ j > m
      BY <1>0, <2>1, <3>1
    <3>. QED BY <3>1
  <2> HIDE DEF A
  <2>4. IsFiniteSet(A \cup {m}) /\ Cardinality(A \cup {m}) <= Cardinality(A) + 1
    <3>1. Cardinality(A \cup {m}) = IF m \in A THEN Cardinality(A) ELSE Cardinality(A) + 1
      BY <2>7, FS_AddElement
    <3>. QED BY <2>7, <3>1, FS_AddElement
  <2>5. Cardinality(T) <= Cardinality(A \cup {m}) /\ IsFiniteSet(T)
    BY <2>3, <2>4, FS_Subset
  <2>6. Cardinality(T) <= n
    BY <2>2, <2>7, <2>4, <2>5, FS_CardinalityType
  <2>. QED BY <2>6 DEF T
<1>. QED BY <1>1, <1>2

LEMMA CacheProposalInv == ASSUME Inv, CacheProposal PROVE Inv'
<1>1. PICK h \in ProposedHeights : \E hash \in Hash : proposals' = Insert(proposals, h, hash)
  BY DEF CacheProposal
<1>2. PICK hash \in Hash : proposals' = Insert(proposals, h, hash)
  BY <1>1
<1>3. UNCHANGED <<fsm, chain, quorums, emitted, committed, pending, drained, pc>> /\ Tip' = Tip
  BY DEF CacheProposal, Tip
<1> DEFINE D == DOMAIN proposals \cup {h}
           T == {j \in D : Cardinality({i \in D : i > j}) < CacheCap}
<1>4. DOMAIN proposals' = T
  BY <1>2 DEF Insert, Restrict
<1>5. D \subseteq ProposedHeights /\ ProposedHeights \subseteq Nat
  BY DEF Inv, TypeOK, ProposedHeights
<1>6. IsFiniteSet(D)
  BY <1>5, HeightsFinite, FS_Subset
<1>7. Cardinality(T) <= CacheCap
  BY <1>5, <1>6, TopCardinality
<1>8. TypeOK'
  BY <1>3, <1>4, <1>5, <1>7 DEF Inv, TypeOK
<1>. QED BY <1>3, <1>8 DEF Inv, CountsFresh, AcksTrue, NeverAhead, CommitInRange, OnePerSlot,
            EmittedHere, FedFirst, NoQuorumLost

-----------------------------------------------------------------------------
LEMMA InitInv == ASSUME Init PROVE Inv
<1>1. fsm = New(1) /\ New(1) \in FsmState
  BY NewTypes DEF Init
<1>2. <<>> \in Seq(Event) /\ <<>> \in Seq(Hash) /\ Len(<<>>) = 0 /\ DOMAIN <<>> = {}
  BY EmptySeq
<1>3. fsm.height = 1 /\ fsm.committing = Nil
  BY <1>1 DEF New
<1>4. DOMAIN proposals = {} /\ Cardinality({}) = 0
  BY FS_EmptySet DEF Init
<1>5. fsm \in FsmState /\ chain \in Seq(Hash) /\ Tip = 0 /\ drained = 0
  BY <1>1, <1>2 DEF Init, Tip
<1>6. Tip <= HeightCap /\ drained \in 0 .. MaxEvents /\ 0 <= CacheCap
  BY <1>5
<1>7. TypeOK
  BY <1>4, <1>5, <1>6 DEF Init, TypeOK
<1>. QED BY <1>2, <1>3, <1>7 DEF Init, Inv, CountsFresh, AcksTrue, NeverAhead, CommitInRange, Tip,
            OnePerSlot, EmittedHere, FedFirst, NoQuorumLost

LEMMA StepInv == ASSUME Inv, [Next]_vars PROVE Inv'
<1>1. CASE UNCHANGED vars
  BY <1>1 DEF vars, Inv, TypeOK, CountsFresh, AcksTrue, NeverAhead, CommitInRange, Tip,
              OnePerSlot, EmittedHere, FedFirst, NoQuorumLost
<1>. QED BY <1>1, TickInv, PollInv, DrainInv, EndTurnInv, LegacyApplyInv, QuorumReachedInv,
            CacheProposalInv DEF Next

LEMMA Invariance == Spec => []Inv
  BY InitInv, StepInv, PTL DEF Spec

\* Every value the runtime keeps has its type; in particular the cache of proposals
\* never exceeds its cap, whatever heights are proposed and in whatever order.
THEOREM RuntimeTypes == Spec => []TypeOK
<1>1. Inv => TypeOK
  BY DEF Inv
<1>. QED BY <1>1, Invariance, PTL

\* The FSM never runs ahead of the chain: it enters a height only when the chain has a
\* block at the one before, whichever of the two paths applied it.
THEOREM FsmNeverAhead == Spec => []NeverAhead
<1>1. Inv => NeverAhead
  BY DEF Inv
<1>. QED BY <1>1, Invariance, PTL

\* The ledger of quorums already fed loses none: a precommit quorum for a block that is
\* recorded there is still queued or is being committed, whatever the cap on the events
\* of a turn drops.
THEOREM QuorumsReachCommit == Spec => []NoQuorumLost
<1>1. Inv => NoQuorumLost
  BY DEF Inv
<1>. QED BY <1>1, Invariance, PTL
=============================================================================
