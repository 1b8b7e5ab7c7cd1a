--------------------------- MODULE ChainNodeProofs --------------------------
(***************************************************************************)
(* What the commit gate guarantees, for any network, tree of blocks and    *)
(* number of crashes: a block with a child is final.  The argument is that *)
(* a validator only ever votes for the block it has applied at a height,   *)
(* that chains only grow, and that two commits of one height share an      *)
(* honest validator.                                                       *)
(***************************************************************************)
EXTENDS ChainNode, SumProofs, SequenceTheorems

-----------------------------------------------------------------------------
(* The quorum rule, from the sums of SumProofs. *)

\* The power of a set of validators is a number, and a part has no more than the whole.
LEMMA PowerMonotone ==
    ASSUME NEW T \in SUBSET Validators, NEW S \in SUBSET T
    PROVE  PowerOf(S) \in Nat /\ PowerOf(T) \in Nat /\ PowerOf(S) <= PowerOf(T)
<1>1. IsFiniteSet(T) /\ \A v \in T : Power[v] \in Nat
  BY PowerAssumption, FS_Subset
<1> QED
  BY <1>1, SumPart DEF PowerOf

\* A quorum stays one when validators are added: late votes never undo it.
LEMMA QuorumMonotone ==
    ASSUME NEW S \in Quorums, NEW T \in SUBSET Validators, S \subseteq T
    PROVE  T \in Quorums
<1>1. PowerOf(S) <= PowerOf(T) /\ PowerOf(S) \in Nat /\ PowerOf(T) \in Nat
  BY PowerMonotone
<1>2. QuorumPower \in Nat
  <2>1. TotalPower \in Nat
    BY PowerMonotone DEF TotalPower
  <2> QED  BY <2>1 DEF QuorumPower
<1> QED
  BY <1>1, <1>2 DEF Quorums

\* Two quorums share a validator outside any set with less than a third of the power.
LEMMA QuorumsMeet ==
    ASSUME NEW B \in SUBSET Validators, 3 * PowerOf(B) < TotalPower,
           NEW S \in Quorums, NEW T \in Quorums
    PROVE  \E n \in Validators \ B : n \in S /\ n \in T
<1>1. /\ 3 * SumFunctionOnSet(Power, B) < SumFunctionOnSet(Power, Validators)
      /\ SumFunctionOnSet(Power, S) >= (SumFunctionOnSet(Power, Validators) * 2) \div 3 + 1
      /\ SumFunctionOnSet(Power, T) >= (SumFunctionOnSet(Power, Validators) * 2) \div 3 + 1
      /\ S \in SUBSET Validators /\ T \in SUBSET Validators
  BY DEF Quorums, QuorumPower, TotalPower, PowerOf
<1> QED
  BY <1>1, PowerAssumption, QuorumIntersection

USE ChainAssumption

\* The blocks of a node form a chain from genesis.
Linked ==
    \A n \in Nodes : \A i \in 1..Len(chain[n]) :
        /\ Height[chain[n][i]] = i
        /\ Parent[chain[n][i]] = IF i = 1 THEN Genesis ELSE chain[n][i - 1]

\* An honest validator has applied what it votes for.
Backed(v)   == v.val \in Honest => HasApplied(v.val, v.block)
VotesBacked ==
    /\ \A m \in net : Backed(m.vote)
    /\ \A n \in Nodes : \A v \in pool[n] : Backed(v)

\* A node has stored the commit of every parent the gate looked at.
Gated ==
    \A n \in Nodes : \A i \in 1..Len(chain[n]) :
        i > 1 /\ i >= GateHeight => chain[n][i - 1] \in commits[n]

\* The inductive invariant.
IndInv == TypeOK /\ Linked /\ VotesBacked /\ CommitsBacked /\ Gated

Local == <<commits, pool, net>>

-----------------------------------------------------------------------------
(* Chains. *)

\* At its height, a block of a chain is the only one.
LEMMA AtHeight ==
    ASSUME TypeOK, Linked, NEW n \in Nodes, NEW b, HasApplied(n, b)
    PROVE  Height[b] \in 1..Len(chain[n]) /\ chain[n][Height[b]] = b
BY DEF TypeOK, Linked, HasApplied

\* The tip's height is the length of the chain.
LEMMA TipFacts ==
    ASSUME TypeOK, Linked, NEW n \in Nodes
    PROVE  /\ Len(chain[n]) \in Nat
           /\ chain[n] = <<>> <=> Len(chain[n]) = 0
           /\ chain[n] = <<>> => Tip(n) = Genesis
           /\ chain[n] # <<>> => /\ Tip(n) = chain[n][Len(chain[n])] /\ Tip(n) \in Block
                                 /\ Height[Tip(n)] = Len(chain[n]) /\ HasApplied(n, Tip(n))
<1>1. chain[n] \in Seq(Block)
  BY DEF TypeOK
<1>2. Len(chain[n]) \in Nat /\ (chain[n] = <<>> <=> Len(chain[n]) = 0)
  BY <1>1
<1>3. ASSUME chain[n] # <<>>
      PROVE  Len(chain[n]) \in 1..Len(chain[n]) /\ chain[n][Len(chain[n])] \in Block
  BY <1>1, <1>2, <1>3
<1> QED
  BY <1>2, <1>3 DEF Tip, Linked, HasApplied

\* A block applied has the height after the tip's, and all blocks stay.
LEMMA ApplyFacts ==
    ASSUME TypeOK, Linked, NEW n \in Nodes, NEW b \in Block, Apply(n, b)
    PROVE  /\ chain' \in [Nodes -> Seq(Block)]
           /\ chain'[n] = Append(chain[n], b)
           /\ Len(chain'[n]) = Len(chain[n]) + 1
           /\ chain'[n][Len(chain[n]) + 1] = b
           /\ \A i \in 1..Len(chain[n]) : chain'[n][i] = chain[n][i]
           /\ \A m \in Nodes \ {n} : chain'[m] = chain[m]
           /\ Height[b] = Len(chain[n]) + 1
<1>1. chain[n] \in Seq(Block) /\ chain \in [Nodes -> Seq(Block)]
  BY DEF TypeOK
<1>2. chain'[n] = Append(chain[n], b) /\ \A m \in Nodes \ {n} : chain'[m] = chain[m]
  BY <1>1 DEF Apply
<1>3. chain' \in [Nodes -> Seq(Block)]
  BY <1>1 DEF Apply
<1>4. Height[b] = Len(chain[n]) + 1
  BY TipFacts DEF Apply
<1> QED
  BY <1>1, <1>2, <1>3, <1>4

\* Linked chains stay linked.
LEMMA ApplyLinked ==
    ASSUME TypeOK, Linked, NEW n \in Nodes, NEW b \in Block, Apply(n, b)
    PROVE  Linked'
<1> SUFFICES ASSUME NEW m \in Nodes, NEW i \in 1..Len(chain'[m])
             PROVE  /\ Height[chain'[m][i]] = i
                    /\ Parent[chain'[m][i]] = IF i = 1 THEN Genesis ELSE chain'[m][i - 1]
  BY DEF Linked
<1>1. CASE m # n
  <2>1. chain'[m] = chain[m]
    BY <1>1, ApplyFacts
  <2> QED
    BY <2>1 DEF Linked
<1>2. CASE m = n /\ i <= Len(chain[n])
  <2>1. i \in 1..Len(chain[n])
    BY <1>2, TipFacts
  <2>2. chain'[n][i] = chain[n][i]
    BY <2>1, ApplyFacts
  <2>3. /\ Height[chain[n][i]] = i
        /\ Parent[chain[n][i]] = IF i = 1 THEN Genesis ELSE chain[n][i - 1]
    BY <2>1 DEF Linked
  <2>4. ASSUME i # 1 PROVE chain'[n][i - 1] = chain[n][i - 1]
    <3>1. i - 1 \in 1..Len(chain[n])
      BY <2>1, <2>4, TipFacts
    <3> QED
      BY <3>1, ApplyFacts
  <2>5. CASE i = 1
    BY <1>2, <2>2, <2>3, <2>5
  <2>6. CASE i # 1
    BY <1>2, <2>2, <2>3, <2>4, <2>6
  <2> QED
    BY <2>5, <2>6
<1>3. CASE m = n /\ i = Len(chain[n]) + 1
  <2>1. Parent[b] = Tip(n) /\ chain'[n][i] = b /\ Height[b] = i
    BY <1>3, ApplyFacts DEF Apply
  <2>2. CASE chain[n] = <<>>
    <3>1. i = 1 /\ Tip(n) = Genesis
      BY <1>3, <2>2, TipFacts
    <3> QED
      BY <1>3, <2>1, <3>1
  <2>3. CASE chain[n] # <<>>
    <3>1. Len(chain[n]) \in 1..Len(chain[n]) /\ i # 1 /\ i - 1 = Len(chain[n])
      BY <1>3, <2>3, TipFacts
    <3>2. chain'[n][Len(chain[n])] = chain[n][Len(chain[n])]
      BY <3>1, ApplyFacts
    <3>3. chain'[n][i - 1] = Tip(n)
      BY <2>3, <3>1, <3>2, TipFacts
    <3> QED
      BY <1>3, <2>1, <3>1, <3>3
  <2> QED
    BY <2>2, <2>3
<1>4. m = n => i <= Len(chain[n]) \/ i = Len(chain[n]) + 1
  BY ApplyFacts, TipFacts
<1> QED
  BY <1>1, <1>2, <1>3, <1>4

\* What has been applied stays applied.
LEMMA ApplyKeeps ==
    ASSUME TypeOK, Linked, NEW n \in Nodes, NEW b \in Block, Apply(n, b),
           NEW m \in Nodes, NEW c, HasApplied(m, c)
    PROVE  HasApplied(m, c)'
<1>1. PICK i \in 1..Len(chain[m]) : chain[m][i] = c
  BY DEF HasApplied
<1>2. i \in 1..Len(chain'[m]) /\ chain'[m][i] = c
  <2>1. CASE m = n
    BY <1>1, <2>1, ApplyFacts, TipFacts
  <2>2. CASE m # n
    BY <1>1, <2>2, ApplyFacts
  <2> QED
    BY <2>1, <2>2
<1> QED
  BY <1>2 DEF HasApplied

\* A larger set of validators that have applied a block backs its commit too.
LEMMA BackedMore ==
    ASSUME NEW c, Byz \cup {v \in Honest : HasApplied(v, c)} \in Quorums,
           \A v \in Honest : HasApplied(v, c) => HasApplied(v, c)'
    PROVE  Byz \cup {v \in Honest : HasApplied(v, c)'} \in Quorums
<1> DEFINE S == Byz \cup {v \in Honest : HasApplied(v, c)}
           T == Byz \cup {v \in Honest : HasApplied(v, c)'}
<1>1. S \subseteq T /\ T \in SUBSET Validators /\ S \in Quorums
  BY DEF Honest
<1> HIDE DEF S, T
<1>2. T \in Quorums
  BY <1>1, QuorumMonotone
<1> QED
  BY <1>2 DEF T

\* Applying a block keeps everything but the types of the other variables.
LEMMA ApplyInv ==
    ASSUME IndInv, NEW n \in Nodes, NEW b \in Block, Apply(n, b), UNCHANGED Local
    PROVE  Linked' /\ VotesBacked' /\ CommitsBacked' /\ Gated'
<1> USE DEF IndInv, Local
<1>1. Linked'
  BY ApplyLinked
<1>2. \A m \in Nodes : \A c : HasApplied(m, c) => HasApplied(m, c)'
  BY ApplyKeeps
<1>3. VotesBacked'
  <2>1. \A v : Backed(v) => Backed(v)'
    BY <1>2 DEF Backed
  <2> QED
    BY <2>1 DEF VotesBacked
<1>4. CommitsBacked'
  BY <1>2, BackedMore DEF CommitsBacked
<1>5. Gated'
  <2> SUFFICES ASSUME NEW m \in Nodes, NEW i \in 1..Len(chain'[m]), i > 1, i >= GateHeight
               PROVE  chain'[m][i - 1] \in commits[m]
    BY DEF Gated
  <2>1. CASE m # n
    BY <2>1, ApplyFacts DEF Gated
  <2>2. CASE m = n /\ i <= Len(chain[n])
    <3>1. i \in 1..Len(chain[n]) /\ i - 1 \in 1..Len(chain[n])
      BY <2>2, TipFacts
    <3> QED
      BY <2>2, <3>1, ApplyFacts DEF Gated
  <2>3. CASE m = n /\ i = Len(chain[n]) + 1
    <3>1. chain[n] # <<>> /\ i - 1 = Len(chain[n]) /\ i - 1 \in 1..Len(chain[n]) /\ Height[b] = i
      BY <2>3, TipFacts, ApplyFacts
    <3>2. Parent[b] \in commits[n] /\ Parent[b] = chain[n][i - 1]
      BY <3>1, TipFacts DEF Apply, GateOpen
    <3> QED
      BY <2>3, <3>1, <3>2, ApplyFacts
  <2> QED
    BY <2>1, <2>2, <2>3, TipFacts, ApplyFacts
<1> QED
  BY <1>1, <1>3, <1>4, <1>5

-----------------------------------------------------------------------------
(* Votes. *)

\* A vote enters one pool and commits at most its block.
LEMMA AddFacts ==
    ASSUME TypeOK, NEW n \in Nodes, NEW v \in Vote, Add(n, v)
    PROVE  /\ pool' \in [Nodes -> SUBSET Vote] /\ commits' \in [Nodes -> SUBSET Block]
           /\ \A m \in Nodes : commits[m] \subseteq commits'[m]
           /\ \A m \in Nodes : pool'[m] \subseteq pool[m] \cup {v}
           /\ \A m \in Nodes : \A c \in commits'[m] :
                 c \in commits[m] \/ (c = v.block /\ PowerFor(pool'[m], c) >= QuorumPower)
<1> USE DEF TypeOK
<1>1. CASE UNCHANGED <<pool, commits>>
  <2>1. pool' = pool /\ commits' = commits
    BY <1>1
  <2>2. pool' \in [Nodes -> SUBSET Vote] /\ commits' \in [Nodes -> SUBSET Block]
    BY <2>1
  <2> QED
    BY <2>1, <2>2
<1>2. CASE /\ pool' = [pool EXCEPT ![n] = @ \cup {v}]
           /\ commits' = [commits EXCEPT ![n] =
                IF PowerFor(pool'[n], v.block) >= QuorumPower THEN @ \cup {v.block} ELSE @]
  <2>1. v.block \in Block
    BY DEF Vote
  <2>2. pool' \in [Nodes -> SUBSET Vote] /\ \A m \in Nodes : pool'[m] \subseteq pool[m] \cup {v}
    BY <1>2 DEF TypeOK
  <2> DEFINE q == PowerFor(pool'[n], v.block) >= QuorumPower
  <2>4. commits' = [commits EXCEPT ![n] = IF q THEN @ \cup {v.block} ELSE @]
    BY <1>2
  <2>5. \A c : c = v.block /\ q => PowerFor(pool'[n], c) >= QuorumPower
    OBVIOUS
  <2> HIDE DEF q
  <2>6. commits'[n] = IF q THEN commits[n] \cup {v.block} ELSE commits[n]
    BY <2>4
  <2>7. \A m \in Nodes \ {n} : commits'[m] = commits[m]
    BY <2>4
  <2>8. commits' \in [Nodes -> SUBSET Block]
    BY <2>1, <2>4
  <2>9. \A m \in Nodes : commits[m] \subseteq commits'[m]
    BY <2>6, <2>7
  <2>10. ASSUME NEW m \in Nodes, NEW c \in commits'[m]
         PROVE  c \in commits[m] \/ (c = v.block /\ PowerFor(pool'[m], c) >= QuorumPower)
    <3>1. CASE m = n
      BY <2>5, <2>6, <3>1
    <3>2. CASE m # n
      BY <2>7, <3>2
    <3> QED
      BY <3>1, <3>2
  <2> QED
    BY <2>2, <2>8, <2>9, <2>10
<1> QED
  BY <1>1, <1>2 DEF Add

\* A block with 2/3 of the votes, all backed, has been applied by that many.
LEMMA VotersApplied ==
    ASSUME NEW P, NEW c, \A v \in P : Backed(v), PowerFor(P, c) >= QuorumPower
    PROVE  Byz \cup {v \in Honest : HasApplied(v, c)} \in Quorums
<1> DEFINE S == {v \in Validators : [val |-> v, block |-> c] \in P}
           T == Byz \cup {v \in Honest : HasApplied(v, c)}
<1>1. S \in Quorums
  BY DEF PowerFor, Quorums
<1>2. S \subseteq T /\ T \in SUBSET Validators
  BY DEF Backed, Honest
<1> HIDE DEF S, T
<1>3. T \in Quorums
  BY <1>1, <1>2, QuorumMonotone
<1> QED
  BY <1>3 DEF T

\* Counting a backed vote keeps everything but the types.
LEMMA AddInv ==
    ASSUME IndInv, NEW n \in Nodes, NEW v \in Vote, Backed(v), Add(n, v), UNCHANGED chain,
           \A m \in net' : Backed(m.vote)
    PROVE  Linked' /\ VotesBacked' /\ CommitsBacked' /\ Gated'
<1> USE DEF IndInv
<1>1. Linked'
  BY DEF Linked
<1>2. (\A c : Backed(c)' <=> Backed(c)) /\ \A m, c : HasApplied(m, c)' <=> HasApplied(m, c)
  BY DEF Backed, HasApplied
<1>3. \A m \in Nodes : \A c \in pool'[m] : Backed(c)
  BY AddFacts DEF VotesBacked
<1>4. VotesBacked'
  BY <1>2, <1>3 DEF VotesBacked
<1>5. CommitsBacked'
  <2> SUFFICES ASSUME NEW m \in Nodes, NEW c \in commits'[m]
               PROVE  Byz \cup {w \in Honest : HasApplied(w, c)} \in Quorums
    BY <1>2 DEF CommitsBacked
  <2>1. CASE c \in commits[m]
    BY <2>1 DEF CommitsBacked
  <2>2. CASE PowerFor(pool'[m], c) >= QuorumPower
    BY <1>3, <2>2, VotersApplied
  <2> QED
    BY <2>1, <2>2, AddFacts
<1>6. Gated'
  BY AddFacts DEF Gated
<1> QED
  BY <1>1, <1>4, <1>5, <1>6

\* Steps that leave chains and side tables alone, and add no vote.
LEMMA QuietInv ==
    ASSUME IndInv, UNCHANGED <<chain, commits>>,
           net' \subseteq net, \A n \in Nodes : pool'[n] \subseteq pool[n]
    PROVE  Linked' /\ VotesBacked' /\ CommitsBacked' /\ Gated'
<1> USE DEF IndInv
<1>1. Linked' /\ Gated'
  BY DEF Linked, Gated
<1>2. CommitsBacked'
  <2>1. \A m, c : HasApplied(m, c) => HasApplied(m, c)'
    BY DEF HasApplied
  <2> QED
    BY <2>1, BackedMore DEF CommitsBacked
<1>3. \A c : Backed(c)' <=> Backed(c)
  BY DEF Backed, HasApplied
<1>4. VotesBacked'
  BY <1>3 DEF VotesBacked
<1> QED
  BY <1>1, <1>2, <1>4

-----------------------------------------------------------------------------
(* The invariant. *)

\* A tick of the producer changes the chain by a block applied, or not at all.
LEMMA ProduceFacts ==
    ASSUME IndInv, NEW n \in Nodes, NEW p \in [height : Nat, round : Round, produced : BOOLEAN],
           Produce(n, p)
    PROVE  /\ prod' \in [Nodes -> [height : Nat, round : Round, produced : BOOLEAN]]
           /\ UNCHANGED chain \/ \E b \in Block : Apply(n, b)
<1>1. prod' = [prod EXCEPT ![n] = [p EXCEPT !.produced = TRUE]]
  BY DEF Produce
<1>2. prod' \in [Nodes -> [height : Nat, round : Round, produced : BOOLEAN]]
  BY <1>1 DEF IndInv, TypeOK
<1>3. UNCHANGED chain \/ \E b \in Block : Apply(n, b)
  BY DEF Produce
<1> QED
  BY <1>2, <1>3

\* The invariant is kept by a producer's tick that has the shape above.
LEMMA ProducerInv ==
    ASSUME IndInv, NEW n \in Nodes,
           prod' \in [Nodes -> [height : Nat, round : Round, produced : BOOLEAN]],
           UNCHANGED chain \/ \E b \in Block : Apply(n, b),
           UNCHANGED <<commits, pool, emitted, net, up, crashes>>
    PROVE  IndInv'
<1>1. CASE UNCHANGED chain
  <2>1. Linked' /\ VotesBacked' /\ CommitsBacked' /\ Gated'
    BY <1>1, QuietInv
  <2>2. TypeOK'
    BY <1>1 DEF IndInv, TypeOK
  <2> QED
    BY <2>1, <2>2 DEF IndInv
<1>2. CASE \E b \in Block : Apply(n, b)
  <2>1. PICK b \in Block : Apply(n, b)
    BY <1>2
  <2>2. Linked' /\ VotesBacked' /\ CommitsBacked' /\ Gated'
    BY <2>1, ApplyInv DEF Local
  <2>3. chain' \in [Nodes -> Seq(Block)]
    BY <2>1, ApplyFacts DEF IndInv
  <2>4. TypeOK'
    BY <2>3 DEF IndInv, TypeOK
  <2> QED
    BY <2>2, <2>4 DEF IndInv
<1> QED
  BY <1>1, <1>2

\* The invariant is kept by counting a vote.
LEMMA VoteInv ==
    ASSUME IndInv, NEW n \in Nodes, NEW v \in Vote, Backed(v), Add(n, v),
           net' \subseteq Message, \A m \in net' : Backed(m.vote),
           emitted' \in [Nodes -> Nat],
           UNCHANGED <<chain, prod, up, crashes>>
    PROVE  IndInv'
<1>1. Linked' /\ VotesBacked' /\ CommitsBacked' /\ Gated'
  BY AddInv
<1>2. pool' \in [Nodes -> SUBSET Vote] /\ commits' \in [Nodes -> SUBSET Block]
  BY AddFacts DEF IndInv
<1>3. TypeOK'
  BY <1>2 DEF IndInv, TypeOK
<1> QED
  BY <1>1, <1>3 DEF IndInv

\* The invariant holds before the first block.
LEMMA InitInv ==
    Init => IndInv
<1> SUFFICES ASSUME Init PROVE IndInv
  OBVIOUS
<1>1. <<>> \in Seq(Block) /\ Len(<<>>) = 0
  OBVIOUS
<1>2. \A n \in Nodes : chain[n] = <<>>
  BY DEF Init
<1>3. NewProducer \in [height : Nat, round : Round, produced : BOOLEAN]
  <2>1. Len(Order) \in Nat
    OBVIOUS
  <2> QED
    BY <2>1 DEF NewProducer, Round
<1>4. TypeOK
  BY <1>1, <1>3 DEF Init, TypeOK
<1>5. Linked /\ Gated
  BY <1>1, <1>2 DEF Linked, Gated
<1>6. VotesBacked /\ CommitsBacked
  BY DEF Init, VotesBacked, CommitsBacked
<1> QED
  BY <1>4, <1>5, <1>6 DEF IndInv

\* Every step of every node keeps the invariant.
LEMMA StepInv ==
    IndInv /\ [Next]_vars => IndInv'
<1> SUFFICES ASSUME IndInv, [Next]_vars PROVE IndInv'
  OBVIOUS
<1>1. CASE UNCHANGED vars
  <2>1. Linked' /\ VotesBacked' /\ CommitsBacked' /\ Gated'
    BY <1>1, QuietInv DEF vars
  <2>2. TypeOK'
    BY <1>1 DEF vars, IndInv, TypeOK
  <2> QED
    BY <2>1, <2>2 DEF IndInv
<1>2. ASSUME NEW n \in Nodes, TipAdvanced(n) PROVE IndInv'
  <2>1. Len(chain[n]) \in Nat
    BY DEF IndInv, TypeOK
  <2>2. 0 \in Round
    BY DEF Round
  <2>3. prod' \in [Nodes -> [height : Nat, round : Round, produced : BOOLEAN]]
    BY <1>2, <2>1, <2>2 DEF TipAdvanced, IndInv, TypeOK
  <2> QED
    BY <1>2, <2>3, ProducerInv DEF TipAdvanced
<1>3. ASSUME NEW n \in Nodes, ProposeTimeout(n) PROVE IndInv'
  <2> DEFINE p == [prod[n] EXCEPT !.round = NextRound(@), !.produced = FALSE]
  <2>1. \A r \in Round : NextRound(r) \in Round
    <3>1. Len(Order) \in Nat \ {0}
      OBVIOUS
    <3> QED
      BY <3>1 DEF Round, NextRound
  <2>2. p \in [height : Nat, round : Round, produced : BOOLEAN]
    <3>1. prod[n] \in [height : Nat, round : Round, produced : BOOLEAN]
      BY DEF IndInv, TypeOK
    <3>2. NextRound(prod[n].round) \in Round
      BY <2>1, <3>1
    <3>3. p = [prod[n] EXCEPT !.round = NextRound(prod[n].round), !.produced = FALSE]
      OBVIOUS
    <3> HIDE DEF p
    <3> QED
      BY <3>1, <3>2, <3>3
  <2>3. Produce(n, p) \/ (prod' = [prod EXCEPT ![n] = p] /\ UNCHANGED chain)
    BY <1>3 DEF ProposeTimeout
  <2> HIDE DEF p
  <2>4. CASE Produce(n, p)
    BY <1>3, <2>2, <2>4, ProduceFacts, ProducerInv DEF ProposeTimeout
  <2>5. CASE prod' = [prod EXCEPT ![n] = p] /\ UNCHANGED chain
    <3>1. prod' \in [Nodes -> [height : Nat, round : Round, produced : BOOLEAN]]
      BY <2>2, <2>5 DEF IndInv, TypeOK
    <3> QED
      BY <1>3, <2>5, <3>1, ProducerInv DEF ProposeTimeout
  <2> QED
    BY <2>3, <2>4, <2>5
<1>4. ASSUME NEW n \in Nodes, ProposeInTurn(n) PROVE IndInv'
  <2>1. prod[n] \in [height : Nat, round : Round, produced : BOOLEAN]
    BY DEF IndInv, TypeOK
  <2> QED
    BY <1>4, <2>1, ProduceFacts, ProducerInv DEF ProposeInTurn
<1>5. ASSUME NEW n \in Nodes, EmitVote(n) PROVE IndInv'
  <2>1. /\ Len(chain[n]) \in Nat /\ emitted' = [emitted EXCEPT ![n] = Len(chain[n])]
        /\ UNCHANGED <<chain, prod, up, crashes>>
    BY <1>5, TipFacts DEF EmitVote, IndInv
  <2>2. emitted' \in [Nodes -> Nat]
    BY <2>1 DEF IndInv, TypeOK
  <2>3. CASE n \in Validators
    <3> DEFINE v == [val |-> n, block |-> Tip(n)]
    <3>1. Add(n, v) /\ net' = net \cup [to : up \ {n}, vote : {v}]
      BY <1>5, <2>3 DEF EmitVote
    <3>2. chain[n] # <<>>
      <4>1. Len(chain[n]) > emitted[n] /\ emitted[n] \in Nat
        BY <1>5 DEF EmitVote, IndInv, TypeOK
      <4> QED
        BY <2>1, <4>1, TipFacts DEF IndInv
    <3>3. Tip(n) \in Block /\ HasApplied(n, Tip(n))
      BY <3>2, TipFacts DEF IndInv
    <3>4. v \in Vote /\ Backed(v)
      BY <2>3, <3>3 DEF Vote, Backed
    <3> HIDE DEF v
    <3>5. net' \subseteq Message /\ \A m \in net' : Backed(m.vote)
      <4>1. up \subseteq Nodes /\ net \subseteq Message /\ \A m \in net : Backed(m.vote)
        BY DEF IndInv, TypeOK, VotesBacked
      <4> QED
        BY <3>1, <3>4, <4>1 DEF Message
    <3> QED
      BY <2>1, <2>2, <3>1, <3>4, <3>5, VoteInv
  <2>4. CASE n \notin Validators
    <3>1. UNCHANGED <<pool, commits, net>>
      BY <1>5, <2>4 DEF EmitVote
    <3>2. Linked' /\ VotesBacked' /\ CommitsBacked' /\ Gated'
      BY <2>1, <3>1, QuietInv
    <3>3. TypeOK'
      BY <2>1, <2>2, <3>1 DEF IndInv, TypeOK
    <3> QED
      BY <3>2, <3>3 DEF IndInv
  <2> QED
    BY <2>3, <2>4
<1>6. ASSUME NEW n \in Nodes, ReceiveBlock(n) PROVE IndInv'
  <2>1. prod' \in [Nodes -> [height : Nat, round : Round, produced : BOOLEAN]]
    BY <1>6 DEF ReceiveBlock, IndInv, TypeOK
  <2> QED
    BY <1>6, <2>1, ProducerInv DEF ReceiveBlock
<1>7. ASSUME NEW n \in Nodes, ReceiveVote(n) PROVE IndInv'
  <2>1. PICK m \in net : Add(n, m.vote) /\ net' = net \ {m}
    BY <1>7 DEF ReceiveVote
  <2>2. m.vote \in Vote /\ Backed(m.vote)
    BY DEF IndInv, TypeOK, Message, VotesBacked
  <2>3. net' \subseteq Message /\ \A k \in net' : Backed(k.vote)
    BY <2>1 DEF IndInv, TypeOK, VotesBacked
  <2>4. emitted' \in [Nodes -> Nat] /\ UNCHANGED <<chain, prod, up, crashes>>
    BY <1>7 DEF ReceiveVote, IndInv, TypeOK
  <2> QED
    BY <2>1, <2>2, <2>3, <2>4, VoteInv
<1>8. ASSUME NEW n \in Nodes, ReceiveFaultyVote(n) PROVE IndInv'
  <2>1. PICK v \in [val : Byz, block : Block] : Add(n, v)
    BY <1>8 DEF ReceiveFaultyVote
  <2>2. v \in Vote /\ Backed(v)
    BY DEF Vote, Backed, Honest
  <2>3. net' \subseteq Message /\ \A k \in net' : Backed(k.vote)
    BY <1>8 DEF ReceiveFaultyVote, IndInv, TypeOK, VotesBacked
  <2>4. emitted' \in [Nodes -> Nat] /\ UNCHANGED <<chain, prod, up, crashes>>
    BY <1>8 DEF ReceiveFaultyVote, IndInv, TypeOK
  <2> QED
    BY <2>1, <2>2, <2>3, <2>4, VoteInv
<1>9. ASSUME NEW n \in Nodes, Crash(n) PROVE IndInv'
  <2>1. NewProducer \in [height : Nat, round : Round, produced : BOOLEAN]
    <3>1. Len(Order) \in Nat
      OBVIOUS
    <3> QED
      BY <3>1 DEF NewProducer, Round
  <2>2. \A m \in Nodes : pool'[m] \subseteq pool[m]
    BY <1>9 DEF Crash, IndInv, TypeOK
  <2>3. Linked' /\ VotesBacked' /\ CommitsBacked' /\ Gated'
    BY <1>9, <2>2, QuietInv DEF Crash
  <2>4. TypeOK'
    BY <1>9, <2>1 DEF Crash, IndInv, TypeOK
  <2> QED
    BY <2>3, <2>4 DEF IndInv
<1>10. ASSUME NEW n \in Nodes, Restart(n) PROVE IndInv'
  <2>1. Linked' /\ VotesBacked' /\ CommitsBacked' /\ Gated'
    BY <1>10, QuietInv DEF Restart
  <2>2. (IF chain[n] = <<>> THEN 0 ELSE Len(chain[n]) - 1) \in Nat
    BY TipFacts DEF IndInv
  <2>3. emitted' \in [Nodes -> Nat]
    BY <1>10, <2>2 DEF Restart, IndInv, TypeOK
  <2>4. TypeOK'
    BY <1>10, <2>3 DEF Restart, IndInv, TypeOK
  <2> QED
    BY <2>1, <2>4 DEF IndInv
<1> QED
  BY <1>1, <1>2, <1>3, <1>4, <1>5, <1>6, <1>7, <1>8, <1>9, <1>10 DEF Next, NodeStep

\* The invariant always holds.
LEMMA Inductive ==
    Spec => []IndInv
BY InitInv, StepInv, PTL DEF Spec

-----------------------------------------------------------------------------
(* What follows. *)

\* The variables keep their types.
THEOREM TypeCorrect ==
    Spec => []TypeOK
<1>1. IndInv => TypeOK
  BY DEF IndInv
<1> QED
  BY <1>1, Inductive, PTL

\* No honest validator is ever seen to vote for two blocks of one height,
\* whatever the crashes: a restart votes again, but for the block applied.
THEOREM NoSlash ==
    Spec => []NoFalseSlash
<1>1. IndInv => NoFalseSlash
  <2> SUFFICES ASSUME IndInv, NEW v \in AllVotes, NEW w \in AllVotes,
                      v.val \in Honest, v.val = w.val, Height[v.block] = Height[w.block]
               PROVE  v.block = w.block
    BY DEF NoFalseSlash
  <2>1. Backed(v) /\ Backed(w)
    BY DEF AllVotes, IndInv, VotesBacked
  <2>2. v.val \in Nodes /\ HasApplied(v.val, v.block) /\ HasApplied(v.val, w.block)
    BY <2>1 DEF Backed
  <2> QED
    BY <2>2, AtHeight DEF IndInv
<1> QED
  BY <1>1, Inductive, PTL

\* Every commit in a side table stands for blocks really applied.
THEOREM CommitsSound ==
    Spec => []CommitsBacked
<1>1. IndInv => CommitsBacked
  BY DEF IndInv
<1> QED
  BY <1>1, Inductive, PTL

\* Two blocks of one height, of which commits are stored, are the same.
LEMMA OneCommitPerHeight ==
    ASSUME IndInv, NEW n \in Nodes, NEW m \in Nodes, NEW b \in commits[n], NEW c \in commits[m],
           Height[b] = Height[c]
    PROVE  b = c
<1> DEFINE S(x) == Byz \cup {v \in Honest : HasApplied(v, x)}
<1>1. S(b) \in Quorums /\ S(c) \in Quorums
  BY DEF IndInv, CommitsBacked
<1>2. Byz \in SUBSET Validators /\ 3 * PowerOf(Byz) < TotalPower
  BY ByzAssumption
<1>3. \E v \in Validators \ Byz : v \in S(b) /\ v \in S(c)
  <2> HIDE DEF S
  <2> QED
    BY <1>1, <1>2, QuorumsMeet
<1>4. PICK v \in Nodes : HasApplied(v, b) /\ HasApplied(v, c)
  BY <1>3 DEF Honest
<1> QED
  BY <1>4, AtHeight DEF IndInv

\* The lower of two chains has its final blocks in common with the other.
LEMMA FinalShared ==
    IndInv => Finality
<1> SUFFICES ASSUME IndInv, NEW n \in Nodes, NEW m \in Nodes, NEW h \in 1..Len(chain[n]),
                    h + 1 >= GateHeight, h < Len(chain[n]), h < Len(chain[m])
             PROVE  chain[n][h] = chain[m][h]
  BY DEF Finality
<1>1. /\ Len(chain[n]) \in Nat /\ Len(chain[m]) \in Nat
      /\ h + 1 \in 1..Len(chain[n]) /\ h + 1 \in 1..Len(chain[m]) /\ h \in 1..Len(chain[m])
      /\ h + 1 > 1 /\ (h + 1) - 1 = h
  BY TipFacts DEF IndInv
<1>2. chain[n][h] \in commits[n] /\ chain[m][h] \in commits[m]
  BY <1>1 DEF IndInv, Gated
<1>3. Height[chain[n][h]] = h /\ Height[chain[m][h]] = h
  BY <1>1 DEF IndInv, Linked
<1> QED
  BY <1>2, <1>3, OneCommitPerHeight

\* From the gate's height on, a block that has a child on any node is the block
\* of its height on every node that has grown past it.
THEOREM FinalBlocks ==
    Spec => []Finality
BY FinalShared, Inductive, PTL

-----------------------------------------------------------------------------
(* One chain of final blocks, when the gate is on from the first block with *)
(* a parent.                                                                *)

\* Some chain is the longest.
Tallest == \E n \in Nodes : \A m \in Nodes : Len(chain[m]) <= Len(chain[n])

\* There is a node: faulty validators are less than a third, so some are not.
LEMMA SomeNode ==
    \E n \in Nodes : TRUE
<1>1. 3 * PowerOf(Byz) < PowerOf(Validators) /\ PowerOf(Byz) \in Nat
  BY ByzAssumption, PowerMonotone DEF TotalPower
<1>2. PowerOf(Byz) # PowerOf(Validators)
  BY <1>1
<1>3. Byz # Validators
  BY <1>2
<1> QED
  BY <1>3 DEF Honest

\* The longest node is one, and no chain is longer than its.
LEMMA LongestFacts ==
    Tallest => Longest \in Nodes /\ \A m \in Nodes : Len(chain[m]) <= Len(chain[Longest])
BY DEF Tallest, Longest

\* The final chain is the longest chain without its tip, block by block.
FinalIs(c) ==
    /\ Final \in Seq(Block)
    /\ Len(c) = 0 => Len(Final) = 0
    /\ Len(c) > 0 => Len(Final) = Len(c) - 1
    /\ \A i \in 1..(Len(c) - 1) : Final[i] = c[i]

\* Final is what FinalIs says of the longest chain.
LEMMA FinalFacts ==
    IndInv /\ Tallest => FinalIs(chain[Longest])
<1> SUFFICES ASSUME IndInv, Tallest PROVE FinalIs(chain[Longest])
  OBVIOUS
<1>1. Longest \in Nodes
  BY LongestFacts
<1> DEFINE c == chain[Longest]
<1>2. c \in Seq(Block) /\ Len(c) \in Nat
  BY <1>1 DEF IndInv, TypeOK
<1>3. Final = SubSeq(c, 1, Len(c) - 1)
  BY DEF Final
<1> HIDE DEF c
<1>4. \A i \in 1..(Len(c) - 1) : c[i] \in Block
  BY <1>2
<1>5. /\ SubSeq(c, 1, Len(c) - 1) \in Seq(Block)
      /\ Len(SubSeq(c, 1, Len(c) - 1)) = IF 1 <= Len(c) - 1 THEN (Len(c) - 1) - 1 + 1 ELSE 0
      /\ \A i \in 1..((Len(c) - 1) - 1 + 1) : SubSeq(c, 1, Len(c) - 1)[i] = c[1 + i - 1]
  BY <1>2, <1>4, SubSeqProperties
<1>6. /\ Final \in Seq(Block)
      /\ Len(Final) = IF 1 <= Len(c) - 1 THEN Len(c) - 1 ELSE 0
      /\ \A i \in 1..(Len(c) - 1) : Final[i] = c[i]
  BY <1>2, <1>3, <1>5
<1>7. (Len(c) = 0 => Len(Final) = 0) /\ (Len(c) > 0 => Len(Final) = Len(c) - 1)
  <2>1. CASE 1 <= Len(c) - 1
    <3>1. Len(Final) = Len(c) - 1
      BY <1>6, <2>1
    <3> QED
      BY <1>2, <2>1, <3>1
  <2>2. CASE ~(1 <= Len(c) - 1)
    <3>1. Len(Final) = 0
      BY <1>6, <2>2
    <3>2. Len(c) = 0 \/ Len(c) = 1
      <4>1. \A l \in Nat : 1 <= l - 1 \/ l = 0 \/ l = 1
        OBVIOUS
      <4> QED
        BY <1>2, <2>2, <4>1, Zenon
    <3>3. CASE Len(c) = 0
      BY <3>1, <3>3
    <3>4. CASE Len(c) = 1
      <4>1. Len(c) - 1 = 0
        BY <3>4
      <4> QED
        BY <3>1, <3>4, <4>1
    <3> QED
      BY <3>2, <3>3, <3>4
  <2> QED
    BY <2>1, <2>2
<1>8. FinalIs(c)
  BY <1>6, <1>7 DEF FinalIs
<1> QED
  BY <1>8 DEF c

\* The lengths before and after a block is applied.
LEMMA Lengths ==
    ASSUME IndInv, Tallest, Tallest', NEW n \in Nodes, NEW b \in Block, Apply(n, b)
    PROVE  /\ Longest \in Nodes /\ Longest' \in Nodes
           /\ \A m \in Nodes : Len(chain[m]) \in Nat /\ Len(chain[m]) <= Len(chain[Longest])
           /\ \A m \in Nodes : Len(chain'[m]) \in Nat /\ Len(chain'[m]) <= Len(chain'[Longest'])
           /\ Len(chain'[n]) = Len(chain[n]) + 1
           /\ \A m \in Nodes \ {n} : chain'[m] = chain[m]
<1>1. (Tallest => Longest \in Nodes /\ \A m \in Nodes : Len(chain[m]) <= Len(chain[Longest]))'
  BY LongestFacts, PTL
<1>2. \A m \in Nodes : Len(chain[m]) \in Nat
  BY DEF IndInv, TypeOK
<1>3. chain' \in [Nodes -> Seq(Block)]
  BY ApplyFacts DEF IndInv
<1>4. \A m \in Nodes : Len(chain'[m]) \in Nat
  BY <1>3
<1>5. Len(chain'[n]) = Len(chain[n]) + 1 /\ \A m \in Nodes \ {n} : chain'[m] = chain[m]
  BY ApplyFacts DEF IndInv
<1> QED
  BY <1>1, <1>2, <1>4, <1>5, LongestFacts

\* A block applied by a node that is not the longest changes no final block.
LEMMA StutterStep ==
    ASSUME GateHeight <= 2, IndInv, IndInv', Tallest, Tallest',
           NEW n \in Nodes, NEW b \in Block, Apply(n, b),
           Len(chain[n]) < Len(chain[Longest])
    PROVE  Final' = Final
<1> DEFINE L == Longest
           M == Longest'
           k == Len(chain[L])
<1>1. /\ L \in Nodes /\ M \in Nodes /\ k \in Nat /\ k > 0
      /\ chain'[L] = chain[L]
      /\ Len(chain'[M]) = k
  <2>1. L \in Nodes /\ M \in Nodes /\ k \in Nat /\ k > 0 /\ chain'[L] = chain[L]
    BY Lengths
  <2>2. Len(chain'[M]) >= k /\ Len(chain'[M]) \in Nat
    BY <2>1, Lengths
  <2>3. Len(chain'[M]) <= k
    <3>1. CASE M = n
      BY <3>1, Lengths
    <3>2. CASE M # n
      BY <3>2, <2>1, Lengths
    <3> QED
      BY <3>1, <3>2
  <2> QED
    BY <2>1, <2>2, <2>3
<1>2. (IndInv => Finality)' /\ (IndInv /\ Tallest => FinalIs(chain[Longest]))'
  BY FinalShared, FinalFacts, PTL
<1>3. ASSUME NEW i \in 1..(k - 1) PROVE chain'[M][i] = chain[L][i]
  <2>1. i \in 1..Len(chain'[M]) /\ i + 1 >= GateHeight /\ i < Len(chain'[M]) /\ i < Len(chain'[L])
    <3> HIDE DEF L, M
    <3> QED
      BY <1>1
  <2> QED
    BY <1>1, <1>2, <2>1 DEF Finality
<1>4. /\ Final \in Seq(Block) /\ Len(Final) = k - 1
      /\ \A i \in 1..(k - 1) : Final[i] = chain[L][i]
  BY <1>1, FinalFacts DEF FinalIs
<1>5. /\ Final' \in Seq(Block) /\ Len(Final') = k - 1
      /\ \A i \in 1..(k - 1) : Final'[i] = chain'[M][i]
  BY <1>1, <1>2 DEF FinalIs
<1> HIDE DEF L, M, k
<1> QED
  BY <1>1, <1>3, <1>4, <1>5, SeqEqual

\* A block applied on top of the longest chain makes its parent final.
LEMMA ExtendStep ==
    ASSUME GateHeight <= 2, IndInv, IndInv', Tallest, Tallest',
           NEW n \in Nodes, NEW b \in Block, Apply(n, b),
           Len(chain[n]) = Len(chain[Longest])
    PROVE  [Abstract!Extend]_Final
<1> DEFINE L == Longest
           M == Longest'
           k == Len(chain[n])
           x == chain[n][k]
<1>1. L \in Nodes /\ k \in Nat /\ M = n /\ Len(chain'[n]) = k + 1
  <2>1. L \in Nodes /\ k \in Nat /\ M \in Nodes /\ Len(chain'[n]) = k + 1
    BY Lengths
  <2>2. ASSUME M # n PROVE FALSE
    BY <2>1, <2>2, Lengths
  <2> QED
    BY <2>1, <2>2
<1>2. (IndInv /\ Tallest => FinalIs(chain[Longest]))'
  BY FinalFacts, PTL
<1>3. /\ Final' \in Seq(Block) /\ Len(Final') = k
      /\ \A i \in 1..k : Final'[i] = chain'[n][i]
  BY <1>1, <1>2 DEF FinalIs
<1>4. \A i \in 1..k : Final'[i] = chain[n][i]
  BY <1>3, ApplyFacts DEF IndInv
<1>5. Final \in Seq(Block)
  BY FinalFacts DEF FinalIs
<1>6. CASE k = 0
  <2>1. Len(Final) = 0
    BY <1>6, FinalFacts DEF FinalIs
  <2>2. Final' = Final
    BY <1>3, <1>5, <1>6, <2>1, SeqEqual
  <2> QED
    BY <2>2
<1>7. CASE k > 0
  <2>1. Len(Final) = k - 1 /\ \A i \in 1..(k - 1) : Final[i] = chain[L][i]
    BY <1>7, FinalFacts DEF FinalIs
  <2>2. ASSUME NEW i \in 1..(k - 1) PROVE chain[L][i] = chain[n][i]
    <3>1. i \in 1..Len(chain[L]) /\ i + 1 >= GateHeight /\ i < Len(chain[L]) /\ i < Len(chain[n])
      <4> HIDE DEF L
      <4> QED
        BY <1>1 DEF L
    <3> QED
      BY <1>1, <3>1, FinalShared DEF Finality
  <2>3. k \in 1..Len(chain[n]) /\ x \in Block
    <3>1. chain[n] \in Seq(Block) /\ k \in 1..Len(chain[n])
      BY <1>1, <1>7 DEF IndInv, TypeOK
    <3> QED
      BY <3>1
  <2>4. Parent[x] = IF k = 1 THEN Genesis ELSE chain[n][k - 1]
    BY <2>3 DEF IndInv, Linked
  <2>5. \A i \in 1..(k - 1) : Final[i] = chain[n][i]
    BY <2>1, <2>2
  <2> HIDE DEF k, x, L, M
  <2>6. Final' = Append(Final, x)
    <3>1. /\ Append(Final, x) \in Seq(Block) /\ Len(Append(Final, x)) = k
          /\ Append(Final, x)[k] = x
          /\ \A i \in 1..(k - 1) : Append(Final, x)[i] = Final[i]
      BY <1>1, <1>5, <1>7, <2>1, <2>3
    <3>2. ASSUME NEW i \in 1..k PROVE Final'[i] = Append(Final, x)[i]
      <4>1. CASE i = k
        BY <1>4, <3>1, <4>1 DEF x
      <4>2. CASE i # k
        <5>1. i \in 1..(k - 1)
          BY <1>1, <4>2
        <5> QED
          BY <1>4, <2>5, <3>1, <5>1
      <4> QED
        BY <4>1, <4>2
    <3> QED
      BY <1>3, <3>1, <3>2, SeqEqual
  <2>7. Parent[x] = Abstract!Last(Final)
    <3>1. CASE k = 1
      <4>1. Final = <<>>
        BY <1>5, <2>1, <3>1
      <4> QED
        BY <2>4, <3>1, <4>1 DEF Abstract!Last
    <3>2. CASE k # 1
      <4>1. Final # <<>> /\ Len(Final) = k - 1 /\ k - 1 \in 1..(k - 1)
        BY <1>1, <1>5, <1>7, <2>1, <3>2
      <4>2. Final[Len(Final)] = chain[n][k - 1]
        BY <2>5, <4>1
      <4> QED
        BY <2>4, <3>2, <4>1, <4>2 DEF Abstract!Last
    <3> QED
      BY <3>1, <3>2
  <2> QED
    BY <2>3, <2>6, <2>7 DEF Abstract!Extend
<1> QED
  BY <1>1, <1>6, <1>7

\* Applying a block leaves some chain the longest.
LEMMA TallestStep ==
    IndInv /\ Tallest /\ [Next]_vars => Tallest'
<1> SUFFICES ASSUME IndInv, Tallest, [Next]_vars PROVE Tallest'
  OBVIOUS
<1>1. UNCHANGED chain \/ \E n \in Nodes, b \in Block : Apply(n, b)
  BY DEF Next, NodeStep, TipAdvanced, ProposeTimeout, ProposeInTurn, Produce, EmitVote,
         ReceiveBlock, ReceiveVote, ReceiveFaultyVote, Crash, Restart, vars
<1>2. CASE UNCHANGED chain
  BY <1>2 DEF Tallest
<1>3. CASE \E n \in Nodes, b \in Block : Apply(n, b)
  <2>1. PICK n \in Nodes, b \in Block : Apply(n, b)
    BY <1>3
  <2>2. PICK l \in Nodes : \A m \in Nodes : Len(chain[m]) <= Len(chain[l])
    BY DEF Tallest
  <2>3. /\ \A m \in Nodes : Len(chain[m]) \in Nat
        /\ Len(chain'[n]) = Len(chain[n]) + 1
        /\ \A m \in Nodes \ {n} : Len(chain'[m]) = Len(chain[m])
    BY <2>1, ApplyFacts DEF IndInv, TypeOK
  <2>4. CASE Len(chain'[n]) <= Len(chain[l])
    <3>1. \A m \in Nodes : Len(chain'[m]) <= Len(chain'[l])
      BY <2>2, <2>3, <2>4
    <3> QED
      BY <3>1 DEF Tallest
  <2>5. CASE ~(Len(chain'[n]) <= Len(chain[l]))
    <3>1. \A m \in Nodes : Len(chain'[m]) <= Len(chain'[n])
      BY <2>2, <2>3, <2>5
    <3> QED
      BY <3>1 DEF Tallest
  <2> QED
    BY <2>4, <2>5
<1> QED
  BY <1>1, <1>2, <1>3

\* The network implements the one chain of FinalChain: what the longest node
\* holds below its tip only ever grows, by a child of its last block.
THEOREM Refinement ==
    ASSUME GateHeight <= 2
    PROVE  Spec => ImplementsFinalChain
<1>1. Init => Tallest
  <2> SUFFICES ASSUME Init PROVE Tallest
    OBVIOUS
  <2>1. \A n \in Nodes : Len(chain[n]) = 0
    BY DEF Init
  <2> QED
    BY <2>1, SomeNode DEF Tallest
<1>2. Init => Abstract!Init
  <2> SUFFICES ASSUME Init PROVE Final = <<>>
    BY DEF Abstract!Init
  <2>1. FinalIs(chain[Longest]) /\ Longest \in Nodes
    BY <1>1, InitInv, FinalFacts, LongestFacts
  <2>2. Len(Final) = 0 /\ Final \in Seq(Block)
    BY <2>1 DEF Init, FinalIs
  <2> QED
    BY <2>2
<1>3. IndInv /\ IndInv' /\ Tallest /\ Tallest' /\ [Next]_vars => [Abstract!Extend]_Final
  <2> SUFFICES ASSUME IndInv, IndInv', Tallest, Tallest', [Next]_vars
               PROVE  [Abstract!Extend]_Final
    OBVIOUS
  <2>1. UNCHANGED chain \/ \E n \in Nodes, b \in Block : Apply(n, b)
    BY DEF Next, NodeStep, TipAdvanced, ProposeTimeout, ProposeInTurn, Produce, EmitVote,
           ReceiveBlock, ReceiveVote, ReceiveFaultyVote, Crash, Restart, vars
  <2>2. CASE UNCHANGED chain
    <3>1. Longest' = Longest
      BY <2>2 DEF Longest
    <3>2. Final' = Final
      BY <2>2, <3>1 DEF Final
    <3> QED
      BY <3>2
  <2>3. CASE \E n \in Nodes, b \in Block : Apply(n, b)
    <3>1. PICK n \in Nodes, b \in Block : Apply(n, b)
      BY <2>3
    <3>2. Len(chain[n]) < Len(chain[Longest]) \/ Len(chain[n]) = Len(chain[Longest])
      BY <3>1, Lengths
    <3> QED
      BY <3>1, <3>2, StutterStep, ExtendStep
  <2> QED
    BY <2>1, <2>2, <2>3
<1>4. Spec => [](IndInv /\ Tallest)
  BY <1>1, InitInv, StepInv, TallestStep, PTL DEF Spec
<1> QED
  BY <1>2, <1>3, <1>4, PTL DEF Spec, ImplementsFinalChain, Abstract!Spec
=============================================================================
