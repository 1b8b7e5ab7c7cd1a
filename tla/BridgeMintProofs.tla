-------------------------- MODULE BridgeMintProofs --------------------------
(***************************************************************************)
(* For every number of signers, every threshold above the faulty ones and  *)
(* all caps: what is minted on BSC was locked on Zebvix and is minted      *)
(* once; a row that says confirmed tells of a mint; and the relayer's      *)
(* cursor passes no lock that it could still read.                         *)
(*                                                                         *)
(* Plan.  The relayer takes up only rows of locks of ours, and what waits  *)
(* in the pool of BSC is a request for one (Genuine), so a quorum behind   *)
(* any other request would be faulty signers alone, of whom there are too  *)
(* few.  A receipt that says ok is that of the row at hand (AtWork).  The  *)
(* cursor takes the end of a stretch only when the tick has recorded what  *)
(* the poll returned, newest first, and then the gap below it, oldest      *)
(* first (Filled); an event that the ring drops in between is out of       *)
(* reach (Got).                                                            *)
(***************************************************************************)
EXTENDS BridgeMint, FiniteSetTheorems, SequenceTheorems, WellFoundedInduction, TLAPS

Locks == {RequestFor(s) : s \in {x \in Seqs : OurLock(x)}}

\* The relayer works on locks of ours alone, and what it sends or anyone mints is one.
Genuine ==
    /\ \A s \in Seqs : Recorded(s) => OurLock(s)
    /\ \A r \in batch : OurLock(r.seq)
    /\ \A tx \in mempool : tx.req \in Locks
    /\ minted \subseteq Locks

\* A row is at hand while it is worked on, and its receipt tells the truth.
AtWork ==
    /\ pc \in {"check", "collect", "confirm"} => batch # {}
    /\ pc = "collect" => call.receipt = "none"
    /\ pc = "confirm" => call.tx # <<>> /\ call.tx.req.src = Current.seq
    /\ pc = "confirm" /\ call.receipt = "ok" => Current.seq \in Consumed

\* What the poll saw is a stretch of the chain, whose end the cursor is to take.
Polled ==
    /\ cursor > 0 => cursor < Len(outs)
    /\ pc \in {"ingest", "backfill", "advance"} =>
          /\ scan.low <= scan.total /\ scan.total <= Len(outs)
          /\ scan.seen >= -1 /\ scan.next >= 0
    /\ pc = "backfill" => scan.next < scan.low

Got(s) == OurLock(s) /\ Kept(s) => Recorded(s)

\* How far the tick has got in closing the gap.
Filled ==
    /\ pc = "ingest" =>
          /\ todo = [i \in 1 .. Len(todo) |-> scan.low + Len(todo) - i]
          /\ scan.low + Len(todo) <= scan.total
          /\ \A s \in scan.low + Len(todo) .. scan.total - 1 : Got(s)
    /\ pc = "backfill" =>
          /\ \A s \in scan.low .. scan.total - 1 : Got(s)
          /\ \A s \in 1 .. scan.next - 1 : Got(s)
    /\ pc = "advance" => \A s \in 1 .. scan.total - 1 : Got(s)

\* Every lock is a request.
LocksOK == Locks \subseteq Request

IInv == TypeOK /\ ConfirmedIsMinted /\ GapsClosed /\ Genuine /\ AtWork /\ Polled /\ Filled

-----------------------------------------------------------------------------
(* The row at hand. *)

\* A set of numbers that is not empty has a least one.
LEMMA LeastNumber ==
  ASSUME NEW S \in SUBSET Nat, S # {}
  PROVE  \E m \in S : \A n \in S : m <= n
<1>. DEFINE Less == {p \in Nat \X Nat : p[1] < p[2]}
<1>1. IsWellFoundedOn(Less, Nat)
  BY NatLessThanWellFounded DEF OpToRel
<1>. HIDE DEF Less
<1>2. PICK m \in S : \A n \in S : ~(<<n, m>> \in Less)
  BY <1>1, WFMin
<1>3. ASSUME NEW n \in S PROVE m <= n
  <2>1. m \in Nat /\ n \in Nat
    OBVIOUS
  <2>2. <<n, m>> \notin Less
    BY <1>2
  <2>3. ~(n < m)
    BY <2>1, <2>2 DEF Less
  <2>. QED BY <2>1, <2>3
<1>. QED BY <1>3

\* A batch that is not empty has a row to work on.
LEMMA CurrentRow ==
  ASSUME TypeOK, batch # {}
  PROVE  Current \in batch /\ Current.seq \in Seqs /\ Current.attempts \in Nat
<1>. DEFINE S == {r.seq : r \in batch}
<1>1. \A r \in batch : r.seq \in Seqs /\ r.seq \in Nat /\ r.attempts \in Nat
  BY BridgeBounds DEF TypeOK, Seqs
<1>2. S \in SUBSET Nat /\ S # {}
  BY <1>1
<1>. HIDE DEF S
<1>3. PICK m \in S : \A n \in S : m <= n
  BY <1>2, LeastNumber
<1>. USE DEF S
<1>4. \E r \in batch : \A q \in batch : r.seq <= q.seq
  BY <1>3
<1>5. Current \in batch
  BY <1>4 DEF Current
<1>. QED BY <1>1, <1>5

\* The rows that are left after it.
LEMMA NextRowMoves ==
  ASSUME TypeOK, batch # {}, NextRow
  PROVE  /\ pc' \in {"idle", "check"}
         /\ batch' \subseteq batch
         /\ pc' = "check" => batch' # {}
         /\ call' = NoCall
         /\ <<todo', scan'>> \in {<<todo, scan>>, <<<<>>, NoScan>>}
<1>1. CASE batch = {Current}
  BY <1>1 DEF NextRow, EndTick
<1>2. CASE batch # {Current}
  <2>1. pc' = "check" /\ batch' = batch \ {Current} /\ call' = NoCall /\ UNCHANGED <<todo, scan>>
    BY <1>2 DEF NextRow
  <2>2. batch \ {Current} # {}
    BY <1>2, CurrentRow
  <2>. QED BY <2>1, <2>2
<1>. QED BY <1>1, <1>2

-----------------------------------------------------------------------------
(* The database. *)

\* A first insert records the event, if it is ours, and changes no other row.
LEMMA Inserted ==
  ASSUME TypeOK, NEW s \in Seqs, db' = Insert(s)
  PROVE  /\ db' \in [Seqs -> Row]
         /\ At(s).ours => Recorded(s)'
         /\ \A t \in Seqs : /\ Recorded(t) => Recorded(t)'
                            /\ Recorded(t)' => Recorded(t) \/ (t = s /\ At(s).ours)
                            /\ db'[t].status = "confirmed" => db[t].status = "confirmed"
  BY DEF TypeOK, Insert, Recorded, Row, Statuses

\* A change of status erases no row.
LEMMA StatusSet ==
  ASSUME TypeOK, NEW s \in Seqs, NEW st \in Statuses \ {"none"}, db' = SetStatus(s, st)
  PROVE  /\ db' \in [Seqs -> Row]
         /\ \A t \in Seqs : /\ Recorded(t) => Recorded(t)'
                            /\ Recorded(t)' => Recorded(t) \/ t = s
                            /\ db'[t].status = "confirmed" =>
                                  \/ db[t].status = "confirmed"
                                  \/ t = s /\ st = "confirmed"
  BY DEF TypeOK, SetStatus, Recorded, Row, Statuses

\* The first of the polled events is the one below those already recorded.
LEMMA HeadOfTodo ==
  ASSUME TypeOK, Polled, Filled, pc = "ingest", todo # <<>>
  PROVE  /\ Head(todo) = scan.low + Len(todo) - 1
         /\ Head(todo) \in Seqs
         /\ Emitted(Head(todo))
         /\ Tail(todo) \in Seq(Seqs)
         /\ Len(Tail(todo)) = Len(todo) - 1
         /\ Tail(todo) = [i \in 1 .. Len(Tail(todo)) |-> scan.low + Len(Tail(todo)) - i]
<1>1. /\ todo \in Seq(Seqs) /\ Len(todo) \in Nat /\ Len(todo) > 0
      /\ scan.low \in Nat /\ scan.total \in Nat /\ Len(outs) \in Nat
  BY DEF TypeOK
<1>2. /\ todo = [i \in 1 .. Len(todo) |-> scan.low + Len(todo) - i]
      /\ scan.low + Len(todo) <= scan.total /\ scan.total <= Len(outs)
  BY DEF Polled, Filled
<1>3. Head(todo) = todo[1] /\ Head(todo) \in Seqs
  BY <1>1
<1>4. Head(todo) = scan.low + Len(todo) - 1
  BY <1>1, <1>2, <1>3
<1>5. Tail(todo) \in Seq(Seqs) /\ Len(Tail(todo)) = Len(todo) - 1
  BY <1>1
<1>6. /\ \A i \in 1 .. Len(todo) - 1 : Tail(todo)[i] = todo[i + 1]
      /\ Tail(todo) = [i \in 1 .. Len(todo) - 1 |-> Tail(todo)[i]]
  <2>1. Len(Tail(todo)) = Len(todo) - 1 /\ Tail(todo) \in Seq(Seqs)
        /\ \A i \in 1 .. Len(Tail(todo)) : Tail(todo)[i] = todo[i + 1]
    BY <1>1, HeadTailProperties
  <2>. DEFINE T == Tail(todo)
            n == Len(todo) - 1
  <2>2. T \in [1 .. n -> Seqs]
    <3>. HIDE DEF T
    <3>. QED BY <2>1, LenProperties DEF T
  <2>. HIDE DEF T
  <2>3. T = [i \in 1 .. n |-> T[i]]
    BY <2>2
  <2>. QED BY <2>1, <2>3 DEF T
<1>7. \A i \in 1 .. Len(todo) - 1 : todo[i + 1] = scan.low + (Len(todo) - 1) - i
  BY <1>1, <1>2
<1>8. Tail(todo) = [i \in 1 .. Len(todo) - 1 |-> scan.low + (Len(todo) - 1) - i]
  BY <1>6, <1>7
<1>. QED BY <1>1, <1>2, <1>3, <1>4, <1>5, <1>8 DEF Emitted

\* The catch of a row records a row of ours, which it does not confirm.
LEMMA RowFailsMoves ==
  ASSUME TypeOK, batch # {}, RowFails
  PROVE  /\ \E st \in Statuses \ {"none", "confirmed"} : db' = SetStatus(Current.seq, st)
         /\ NextRow
         /\ UNCHANGED <<outs, cursor, mempool, minted, crashes>>
  BY DEF RowFails, Statuses, chain, bsc

\* Rows are never erased; new ones are of locks of ours; and those that come to be
\* confirmed were minted.
LEMMA RowsStep ==
  ASSUME TypeOK, Genuine, AtWork, Polled, Filled, [Next]_vars
  PROVE  /\ db' \in [Seqs -> Row]
         /\ \A t \in Seqs : /\ Recorded(t) => Recorded(t)'
                            /\ Recorded(t)' => Recorded(t) \/ OurLock(t)
                            /\ db'[t].status = "confirmed" =>
                                  db[t].status = "confirmed" \/ t \in Consumed
<1>. DEFINE Good ==
        /\ db' \in [Seqs -> Row]
        /\ \A t \in Seqs : /\ Recorded(t) => Recorded(t)'
                           /\ Recorded(t)' => Recorded(t) \/ OurLock(t)
                           /\ db'[t].status = "confirmed" =>
                                 db[t].status = "confirmed" \/ t \in Consumed
<1>1. CASE db' = db
  BY <1>1 DEF TypeOK, Recorded
<1>2. ASSUME IngestEvent PROVE Good
  <2>1. pc = "ingest" /\ todo # <<>> /\ db' = Insert(Head(todo))
    BY <1>2 DEF IngestEvent
  <2>2. Head(todo) \in Seqs /\ Emitted(Head(todo))
    BY <2>1, HeadOfTodo
  <2>. QED BY <2>1, <2>2, Inserted DEF OurLock
<1>3. ASSUME Backfill PROVE Good
  <2>1. CASE ~Kept(scan.next)
    BY <1>1, <1>3, <2>1 DEF Backfill
  <2>2. CASE Kept(scan.next)
    <3>1. db' = Insert(scan.next) /\ Emitted(scan.next) /\ pc = "backfill"
      BY <1>3, <2>2 DEF Backfill, Kept
    <3>2. scan.next \in Seqs
      BY <3>1, BridgeBounds DEF Emitted, Seqs, TypeOK, Polled
    <3>. QED BY <3>1, <3>2, Inserted DEF OurLock
  <2>. QED BY <2>1, <2>2
<1>4. ASSUME NEW st \in Statuses \ {"none"}, batch # {}, db' = SetStatus(Current.seq, st),
             st = "confirmed" => Current.seq \in Consumed
      PROVE  Good
  <2>1. Current.seq \in Seqs /\ OurLock(Current.seq)
    BY <1>4, CurrentRow DEF Genuine
  <2>. QED BY <1>4, <2>1, StatusSet
<1>5. ASSUME CheckConsumed PROVE Good
  <2>1. batch # {}
    BY <1>5 DEF CheckConsumed, AtWork
  <2>2. CASE Current.seq \in Consumed
    <3>1. db' = SetStatus(Current.seq, "confirmed")
      BY <1>5, <2>2 DEF CheckConsumed
    <3>. QED BY <1>4, <2>1, <2>2, <3>1 DEF Statuses
  <2>3. CASE Current.seq \notin Consumed
    <3>1. db' = SetStatus(Current.seq, "signing")
      BY <1>5, <2>3 DEF CheckConsumed
    <3>. QED BY <1>4, <2>1, <3>1 DEF Statuses
  <2>. QED BY <2>2, <2>3
<1>6. ASSUME Receipt PROVE Good
  <2>1. batch # {} /\ Current.seq \in Consumed /\ db' = SetStatus(Current.seq, "confirmed")
    BY <1>6 DEF Receipt, AtWork
  <2>. QED BY <1>4, <2>1 DEF Statuses
<1>7. ASSUME pc \in {"check", "collect", "confirm"}, RowFails PROVE Good
  <2>1. batch # {}
    BY <1>7 DEF AtWork
  <2>2. PICK st \in Statuses \ {"none", "confirmed"} : db' = SetStatus(Current.seq, st)
    BY <1>7, <2>1, RowFailsMoves
  <2>. QED BY <1>4, <2>1, <2>2
<1>8. CASE Discover
  BY <1>1, <1>2, <1>3, <1>8
     DEF Discover, PollRecent, FindGap, AdvanceCursor, stored
<1>9. CASE Process
  <2>1. ASSUME NEW v \in Signers, SignMint(v) PROVE Good
    BY <1>1, <2>1 DEF SignMint, Answered, stored
  <2>. QED BY <1>1, <1>5, <1>6, <1>7, <1>9, <2>1
           DEF Process, ListPending, SubmitMint, SubmitRefused, Reverted, LostTimeout, stored
<1>10. CASE Faults
  <2>1. ASSUME NEW v \in Signers, SignerFails(v) PROVE Good
    BY <1>1, <2>1 DEF SignerFails, Answered, stored
  <2>2. ASSUME NEW tx \in mempool, LoseMint(tx) PROVE Good
    BY <1>1, <2>2 DEF LoseMint, stored
  <2>. QED BY <1>1, <1>7, <1>10, <2>1, <2>2
           DEF Faults, BackfillFails, ListFails, CheckFails, ConfirmTimeout, Crash, stored
<1>11. CASE UNCHANGED vars \/ (\E e \in Event : BridgeOut(e)) \/ (\E req \in Request : AnyoneMints(req))
           \/ (\E tx \in mempool : Mine(tx))
  BY <1>1, <1>11 DEF vars, BridgeOut, AnyoneMints, Mine, stored
<1>. QED BY <1>8, <1>9, <1>10, <1>11 DEF Next

-----------------------------------------------------------------------------
(* The chain and the contract. *)

\* The request for an event is well formed.
LEMMA RequestTyped ==
  ASSUME TypeOK, NEW s \in Seqs, Emitted(s)
  PROVE  At(s) \in Event /\ RequestFor(s) \in Request
<1>1. s \in Nat /\ s + 1 \in 1 .. Len(outs)
  BY BridgeBounds DEF TypeOK, Seqs, Emitted
<1>2. At(s) \in Event
  BY <1>1, LenProperties DEF At, TypeOK
<1>3. At(s).data \in Payload
  BY <1>2, EventAssumption
<1>. QED BY <1>2, <1>3 DEF RequestFor, Request

\* The chain grows, or stays as it is; when it grows nothing else moves.
LEMMA ChainMoves ==
  ASSUME [Next]_vars
  PROVE  \/ outs' = outs
         \/ \E e \in Event : /\ Len(outs) < MaxOuts /\ outs' = Append(outs, e)
                             /\ UNCHANGED <<stored, memory, bsc, bounds>>
<1>1. CASE \E e \in Event : BridgeOut(e)
  BY <1>1 DEF BridgeOut
<1>2. CASE (\E req \in Request : AnyoneMints(req)) \/ (\E tx \in mempool : Mine(tx)) \/ UNCHANGED vars
  BY <1>2 DEF AnyoneMints, Mine, vars, chain
<1>3. CASE Discover
  BY <1>3 DEF Discover, PollRecent, IngestEvent, FindGap, Backfill, AdvanceCursor, chain
<1>4. CASE Process
  BY <1>4 DEF Process, ListPending, CheckConsumed, SubmitMint, SubmitRefused, Receipt, Reverted,
              LostTimeout, RowFails, SignMint, Answered, chain
<1>5. CASE Faults
  BY <1>5 DEF Faults, BackfillFails, ListFails, CheckFails, ConfirmTimeout, Crash, RowFails,
              SignerFails, Answered, LoseMint, chain
<1>. QED BY <1>1, <1>2, <1>3, <1>4, <1>5 DEF Next

\* A lock stays a lock, and its request the same.
LEMMA ChainStep ==
  ASSUME TypeOK, [Next]_vars, NEW s \in Seqs
  PROVE  /\ Emitted(s) => Emitted(s)' /\ At(s)' = At(s)
         /\ OurLock(s) => OurLock(s)' /\ RequestFor(s)' = RequestFor(s)
         /\ Len(outs) <= Len(outs)'
         /\ Emitted(s) /\ Kept(s)' => Kept(s)
<1>1. outs \in Seq(Event) /\ Len(outs) \in Nat /\ s \in Nat /\ RingCap \in Nat
  BY BridgeBounds DEF TypeOK, Seqs
<1>2. CASE outs' = outs
  BY <1>1, <1>2 DEF Emitted, At, OurLock, RequestFor, Kept
<1>3. CASE \E e \in Event : outs' = Append(outs, e)
  <2>1. PICK e \in Event : outs' = Append(outs, e)
    BY <1>3
  <2>2. Len(outs') = Len(outs) + 1 /\ \A i \in 1 .. Len(outs) : outs'[i] = outs[i]
    BY <1>1, <2>1
  <2>3. Emitted(s) => Emitted(s)' /\ At(s)' = At(s)
    BY <1>1, <2>2 DEF Emitted, At
  <2>4. Emitted(s) /\ Kept(s)' => Kept(s)
    BY <1>1, <2>2 DEF Emitted, Kept
  <2>. QED BY <1>1, <2>2, <2>3, <2>4 DEF OurLock, RequestFor
<1>. QED BY <1>2, <1>3, ChainMoves

\* What has a quorum of signatures is a lock, however the request came about.
LEMMA QuorumBacks ==
  ASSUME NEW req \in Request, Accepts(req, Signatories(req))
  PROVE  req \in Locks
<1>1. SUFFICES ASSUME ~(OurLock(req.src) /\ At(req.src).data = req.data) PROVE FALSE
  BY DEF Locks, RequestFor, Request
<1>2. Cardinality(Signatories(req)) = Cardinality(Faulty)
  BY <1>1 DEF Signatories
<1>3. Cardinality(Faulty) \in Nat
  BY SignersAssumption, FS_Subset, FS_CardinalityType
<1>. QED BY <1>2, <1>3, SignersAssumption DEF Accepts

\* What is minted is a lock that was not minted before.
LEMMA MintStep ==
  ASSUME TypeOK, Genuine, [Next]_vars
  PROVE  \/ minted' = minted
         \/ \E req \in Request \cap Locks : /\ req \notin minted /\ minted' = minted \cup {req}
                                           /\ outs' = outs
<1>1. ASSUME NEW req \in Request, AnyoneMints(req)
      PROVE  \E r \in Request \cap Locks : r \notin minted /\ minted' = minted \cup {r} /\ outs' = outs
  <2>1. Accepts(req, Signatories(req)) /\ minted' = minted \cup {req} /\ outs' = outs
    BY <1>1 DEF AnyoneMints, chain
  <2>2. req \in Locks /\ req \notin minted
    BY <2>1, QuorumBacks DEF Accepts, Consumed
  <2>. QED BY <2>1, <2>2
<1>2. ASSUME NEW tx \in mempool, Mine(tx), minted' # minted
      PROVE  \E r \in Request \cap Locks : r \notin minted /\ minted' = minted \cup {r} /\ outs' = outs
  <2>1. Accepts(tx.req, tx.sigs) /\ minted' = minted \cup {tx.req} /\ outs' = outs
    BY <1>2 DEF Mine, chain
  <2>2. tx.req \in Request /\ tx.req \in Locks /\ tx.req \notin minted
    BY <2>1 DEF Accepts, Consumed, Genuine, TypeOK, TxOf
  <2>. QED BY <2>1, <2>2
<1>3. CASE (\E e \in Event : BridgeOut(e)) \/ UNCHANGED vars
  BY <1>3 DEF BridgeOut, vars, bsc
<1>4. CASE Discover
  BY <1>4 DEF Discover, PollRecent, IngestEvent, FindGap, Backfill, AdvanceCursor, bsc
<1>5. CASE Process
  BY <1>5 DEF Process, ListPending, CheckConsumed, SubmitMint, SubmitRefused, Receipt, Reverted,
              LostTimeout, RowFails, SignMint, Answered, bsc
<1>6. CASE Faults
  BY <1>6 DEF Faults, BackfillFails, ListFails, CheckFails, ConfirmTimeout, Crash, RowFails,
              SignerFails, Answered, LoseMint, bsc
<1>. QED BY <1>1, <1>2, <1>3, <1>4, <1>5, <1>6 DEF Next

-----------------------------------------------------------------------------
(* Types. *)

Pcs   == {"idle", "ingest", "backfill", "advance", "list", "check", "collect", "confirm"}
Scans == [low : Nat, total : Nat, seen : Int, next : Int]
Rows  == [seq : Seqs, attempts : Nat]
Calls == [waiting : SUBSET Signers, sigs : SUBSET Signers, bad : SUBSET Signers,
          tx : TxOf \cup {<<>>}, receipt : {"none", "ok", "revert"}]

\* The relayer's variables, and the pool of BSC.
MemoryOK ==
    /\ pc \in Pcs /\ todo \in Seq(Seqs) /\ scan \in Scans /\ batch \subseteq Rows /\ call \in Calls
    /\ cursor \in Nat /\ mempool \subseteq TxOf
    /\ crashes \in 0 .. MaxCrashes /\ faults \in 0 .. MaxFaults

LEMMA Idle == NoScan \in Scans /\ NoCall \in Calls
  BY DEF NoScan, Scans, NoCall, Calls

LEMMA TypeParts ==
  TypeOK <=> /\ outs \in Seq(Event) /\ Len(outs) <= MaxOuts
             /\ db \in [Seqs -> Row] /\ minted \subseteq Request /\ MemoryOK
  BY DEF TypeOK, MemoryOK, Pcs, Scans, Rows, Calls

\* What the end of a row leaves behind.
LEMMA NextRowTyped ==
  ASSUME TypeOK, batch # {}, NextRow
  PROVE  pc' \in Pcs /\ todo' \in Seq(Seqs) /\ scan' \in Scans /\ batch' \subseteq Rows /\ call' \in Calls
<1>1. todo \in Seq(Seqs) /\ scan \in Scans /\ batch \subseteq Rows
  BY TypeParts DEF MemoryOK
<1>2. <<>> \in Seq(Seqs)
  BY EmptySeq
<1>. QED BY <1>1, <1>2, NextRowMoves, Idle DEF Pcs

\* The end of a tick.
LEMMA EndTickTyped ==
  ASSUME EndTick
  PROVE  pc' \in Pcs /\ todo' \in Seq(Seqs) /\ scan' \in Scans /\ batch' \subseteq Rows /\ call' \in Calls
<1>1. <<>> \in Seq(Seqs)
  BY EmptySeq
<1>. QED BY <1>1, Idle DEF EndTick, Pcs

\* The newest events, newest first.
LEMMA PollTyped ==
  ASSUME TypeOK, PollRecent
  PROVE  /\ todo' \in Seq(Seqs) /\ scan' \in Scans
         /\ Len(todo') = Len(outs) - scan'.low
         /\ todo' = [i \in 1 .. Len(todo') |-> scan'.low + Len(todo') - i]
         /\ scan'.total = Len(outs) /\ scan'.low <= Len(outs)
         /\ scan'.seen = -1 /\ scan'.next = 0
<1>. DEFINE low == IF Len(outs) > RecentCap THEN Len(outs) - RecentCap ELSE 0
            n   == Len(outs) - low
<1>1. Len(outs) \in Nat /\ Len(outs) <= MaxOuts /\ RecentCap \in Nat /\ MaxOuts \in Nat
  BY BridgeBounds DEF TypeOK
<1>2. low \in Nat /\ n \in Nat /\ low + n = Len(outs)
  BY <1>1
<1>3. todo' = [i \in 1 .. n |-> Len(outs) - i] /\ scan' = [NoScan EXCEPT !.low = low, !.total = Len(outs)]
  BY DEF PollRecent
<1>. HIDE DEF n, low
<1>4. \A i \in 1 .. n : Len(outs) - i \in Seqs
  BY <1>1, <1>2 DEF Seqs
<1>5. todo' \in Seq(Seqs) /\ Len(todo') = n
  <2>1. todo' \in [1 .. n -> Seqs]
    BY <1>3, <1>4
  <2>. QED BY <1>2, <2>1
<1>6. \A i \in 1 .. n : Len(outs) - i = low + n - i
  BY <1>1, <1>2
<1>7. scan' = [low |-> low, total |-> Len(outs), seen |-> -1, next |-> 0]
  BY <1>3 DEF NoScan
<1>8. todo' = [i \in 1 .. n |-> low + n - i]
  BY <1>3, <1>6
<1>9. scan' \in Scans /\ scan'.low = low
  BY <1>1, <1>2, <1>7 DEF Scans
<1>10. Len(outs) - low = n
  BY <1>1, <1>2
<1>. QED BY <1>1, <1>2, <1>5, <1>7, <1>8, <1>9, <1>10

\* The oldest open rows are rows.
LEMMA OpenRowsTyped ==
  ASSUME TypeOK
  PROVE  OpenRows \subseteq Rows /\ \A r \in OpenRows : Recorded(r.seq)
<1>1. ASSUME NEW r \in OpenRows PROVE r \in Rows /\ Recorded(r.seq)
  <2>1. PICK s \in Seqs : Open(s) /\ r = [seq |-> s, attempts |-> db[s].attempts]
    BY DEF OpenRows
  <2>2. db[s] \in Row
    BY DEF TypeOK
  <2>. QED BY <2>1, <2>2 DEF Rows, Row, Open, Recorded
<1>. QED BY <1>1

\* The types of the relayer's variables, action by action.
LEMMA MemoryStep ==
  ASSUME TypeOK, Genuine, AtWork, Polled, Filled, [Next]_vars
  PROVE  MemoryOK'
<1>1. MemoryOK /\ outs \in Seq(Event) /\ Len(outs) <= MaxOuts /\ db \in [Seqs -> Row]
  BY TypeParts
<1>. USE BridgeBounds
<1>2. CASE UNCHANGED vars
  BY <1>1, <1>2 DEF MemoryOK, vars
<1>3. ASSUME NEW e \in Event, BridgeOut(e) PROVE MemoryOK'
  BY <1>1, <1>3 DEF MemoryOK, BridgeOut, stored, memory, bsc, bounds
<1>4. ASSUME NEW req \in Request, AnyoneMints(req) PROVE MemoryOK'
  BY <1>1, <1>4 DEF MemoryOK, AnyoneMints, stored, memory, bounds
<1>5. ASSUME NEW tx \in mempool, Mine(tx) PROVE MemoryOK'
  <2>1. call' \in Calls
    BY <1>1, <1>5 DEF MemoryOK, Mine, Calls
  <2>. QED BY <1>1, <1>5, <2>1 DEF MemoryOK, Mine, stored, bounds
<1>6. ASSUME PollRecent PROVE MemoryOK'
  BY <1>1, <1>6, PollTyped DEF MemoryOK, PollRecent, stored, bsc, bounds, Pcs
<1>7. ASSUME IngestEvent PROVE MemoryOK'
  <2>1. todo' \in Seq(Seqs)
    BY <1>1, <1>7, HeadOfTodo DEF IngestEvent
  <2>. QED BY <1>1, <1>7, <2>1 DEF MemoryOK, IngestEvent, bsc, bounds
<1>8. ASSUME FindGap PROVE MemoryOK'
  <2>1. scan' \in Scans /\ pc' \in Pcs
    <3>1. cursor \in Nat /\ scan \in Scans
      BY <1>1 DEF MemoryOK
    <3>. DEFINE seen   == IF HaveAny THEN cursor ELSE -1
                oldest == IF scan.total > RingCap THEN scan.total - RingCap ELSE 0
                from   == IF seen + 1 < oldest THEN oldest ELSE seen + 1
    <3>2. seen \in Int /\ oldest \in Int
      BY <3>1 DEF Scans
    <3>3. from \in Int
      BY <3>2
    <3>4. CASE scan.total = 0
      BY <1>8, <3>1, <3>4 DEF FindGap, Pcs
    <3>5. CASE scan.total # 0
      <4>1. scan' = [scan EXCEPT !.seen = seen, !.next = from] /\ pc' \in {"backfill", "advance"}
        BY <1>8, <3>5 DEF FindGap
      <4>. HIDE DEF seen, from
      <4>. QED BY <3>1, <3>2, <3>3, <4>1 DEF Scans, Pcs
    <3>. QED BY <3>4, <3>5
  <2>. QED BY <1>1, <1>8, <2>1 DEF MemoryOK, FindGap, stored, bsc, bounds
<1>9. ASSUME Backfill PROVE MemoryOK'
  <2>1. scan' \in Scans /\ pc' \in Pcs
    <3>1. scan \in Scans /\ scan' = [scan EXCEPT !.next = @ + 1]
      BY <1>1, <1>9 DEF MemoryOK, Backfill
    <3>2. scan.next + 1 \in Int
      BY <3>1 DEF Scans
    <3>3. scan' \in Scans
      BY <3>1, <3>2 DEF Scans
    <3>. QED BY <1>9, <3>3 DEF Backfill, Pcs
  <2>. QED BY <1>1, <1>9, <2>1 DEF MemoryOK, Backfill, bsc, bounds
<1>10. ASSUME AdvanceCursor PROVE MemoryOK'
  <2>1. cursor' \in Nat
    <3>1. scan.total \in Nat /\ scan.seen \in Int /\ scan.seen >= -1 /\ cursor \in Nat
      BY <1>1, <1>10 DEF MemoryOK, Scans, Polled, AdvanceCursor
    <3>. QED BY <3>1, <1>10 DEF AdvanceCursor
  <2>. QED BY <1>1, <1>10, <2>1, Idle DEF MemoryOK, AdvanceCursor, bsc, bounds, Pcs
<1>11. ASSUME ListPending PROVE MemoryOK'
  <2>1. CASE OpenRows = {}
    BY <1>1, <1>11, <2>1, EndTickTyped DEF MemoryOK, ListPending, stored, bsc, bounds
  <2>2. CASE OpenRows # {}
    BY <1>1, <1>11, <2>2, OpenRowsTyped DEF MemoryOK, ListPending, stored, bsc, bounds, Pcs
  <2>. QED BY <2>1, <2>2
<1>12. ASSUME CheckConsumed PROVE MemoryOK'
  <2>1. batch # {}
    BY <1>12 DEF CheckConsumed, AtWork
  <2>2. CASE Current.seq \in Consumed
    BY <1>1, <1>12, <2>1, <2>2, NextRowTyped DEF MemoryOK, CheckConsumed, bsc, bounds
  <2>3. CASE Current.seq \notin Consumed
    <3>1. pc' = "collect" /\ call' = [NoCall EXCEPT !.waiting = Signers] /\ UNCHANGED <<todo, scan, batch>>
      BY <1>12, <2>3 DEF CheckConsumed
    <3>2. call' \in Calls
      BY <3>1 DEF NoCall, Calls
    <3>. QED BY <1>1, <1>12, <3>1, <3>2 DEF MemoryOK, CheckConsumed, bsc, bounds, Pcs
  <2>. QED BY <2>2, <2>3
<1>13. ASSUME SubmitMint PROVE MemoryOK'
  <2>1. batch # {}
    BY <1>13 DEF SubmitMint, AtWork
  <2>2. Current.seq \in Seqs /\ Emitted(Current.seq)
    BY <2>1, CurrentRow DEF Genuine, OurLock
  <2>3. RequestFor(Current.seq) \in Request /\ db[Current.seq].attempts \in Nat
    BY <1>1, <2>2, RequestTyped DEF Row
  <2>4. PICK sigs \in Chosen :
          /\ mempool' = mempool \cup
                {[req |-> RequestFor(Current.seq), sigs |-> sigs, try |-> db[Current.seq].attempts]}
          /\ call' = [call EXCEPT !.tx =
                [req |-> RequestFor(Current.seq), sigs |-> sigs, try |-> db[Current.seq].attempts]]
    BY <1>13 DEF SubmitMint
  <2>. DEFINE tx == [req |-> RequestFor(Current.seq), sigs |-> sigs, try |-> db[Current.seq].attempts]
  <2>5. sigs \in SUBSET Signers
    BY <1>1 DEF Chosen, MemoryOK, Calls
  <2>6. tx \in TxOf
    BY <2>3, <2>5 DEF TxOf
  <2>7. mempool' = mempool \cup {tx} /\ call' = [call EXCEPT !.tx = tx]
    BY <2>4
  <2>. HIDE DEF tx
  <2>8. mempool' \subseteq TxOf /\ call' \in Calls
    BY <1>1, <2>6, <2>7 DEF MemoryOK, Calls
  <2>. QED BY <1>1, <1>13, <2>8 DEF MemoryOK, SubmitMint, stored, bounds, Pcs
<1>14. ASSUME pc \in {"check", "collect", "confirm"}, RowFails, faults' \in 0 .. MaxFaults
       PROVE  MemoryOK'
  <2>1. batch # {}
    BY <1>14 DEF AtWork
  <2>. QED BY <1>1, <1>14, <2>1, NextRowTyped, RowFailsMoves DEF MemoryOK
<1>15. ASSUME Receipt PROVE MemoryOK'
  <2>1. batch # {}
    BY <1>15 DEF Receipt, AtWork
  <2>. QED BY <1>1, <1>15, <2>1, NextRowTyped DEF MemoryOK, Receipt, bsc, bounds
<1>16. ASSUME NEW v \in Signers, NEW c \in Calls, Answered(v, c), faults' \in 0 .. MaxFaults
       PROVE  MemoryOK'
  <2>1. call' \in Calls
    BY <1>16 DEF Answered, Calls
  <2>. QED BY <1>1, <1>16, <2>1 DEF MemoryOK, Answered, stored, bsc
<1>17. faults' = faults => faults' \in 0 .. MaxFaults
  BY <1>1 DEF MemoryOK
<1>18. Fault => faults' \in 0 .. MaxFaults
  BY <1>1 DEF MemoryOK, Fault
<1>19. ASSUME NEW v \in Signers, SignMint(v) PROVE MemoryOK'
  <2>1. call \in Calls /\ [call EXCEPT !.sigs = @ \cup {v}] \in Calls
    BY <1>1 DEF MemoryOK, Calls
  <2>. QED BY <1>16, <1>17, <1>19, <2>1 DEF SignMint, NoFault
<1>20. ASSUME NEW v \in Signers, SignerFails(v) PROVE MemoryOK'
  <2>1. /\ call \in Calls
        /\ \A w \in Signers : [call EXCEPT !.sigs = @ \cup {w}, !.bad = @ \cup {w}] \in Calls
    BY <1>1 DEF MemoryOK, Calls
  <2>. QED BY <1>16, <1>18, <1>20, <2>1 DEF SignerFails
<1>21. ASSUME NEW tx \in mempool, LoseMint(tx) PROVE MemoryOK'
  BY <1>1, <1>18, <1>21 DEF MemoryOK, LoseMint, stored, memory
<1>22. ASSUME BackfillFails PROVE MemoryOK'
  BY <1>1, <1>18, <1>22, Idle DEF MemoryOK, BackfillFails, stored, bsc, Pcs
<1>23. ASSUME ListFails PROVE MemoryOK'
  BY <1>1, <1>18, <1>23, EndTickTyped DEF MemoryOK, ListFails, stored, bsc
<1>24. ASSUME Crash PROVE MemoryOK'
  BY <1>1, <1>24, EndTickTyped DEF MemoryOK, Crash, stored, bsc
<1>25. CASE Discover
  BY <1>6, <1>7, <1>8, <1>9, <1>10, <1>25 DEF Discover
<1>26. CASE Process
  BY <1>11, <1>12, <1>13, <1>14, <1>15, <1>17, <1>19, <1>26
     DEF Process, SubmitRefused, Reverted, LostTimeout, NoFault
<1>27. CASE Faults
  BY <1>14, <1>18, <1>20, <1>21, <1>22, <1>23, <1>24, <1>27
     DEF Faults, CheckFails, ConfirmTimeout
<1>. QED BY <1>2, <1>3, <1>4, <1>5, <1>25, <1>26, <1>27 DEF Next

\* Every step keeps the types.
LEMMA TypeStep ==
  ASSUME TypeOK, Genuine, AtWork, Polled, Filled, [Next]_vars
  PROVE  TypeOK'
<1>1. outs' \in Seq(Event) /\ Len(outs') <= MaxOuts
  <2>1. outs \in Seq(Event) /\ Len(outs) \in Nat /\ Len(outs) <= MaxOuts
    BY DEF TypeOK
  <2>. QED BY <2>1, ChainMoves, BridgeBounds
<1>2. minted' \subseteq Request
  BY MintStep DEF TypeOK
<1>3. db' \in [Seqs -> Row] /\ MemoryOK'
  BY RowsStep, MemoryStep
<1>. QED BY <1>1, <1>2, <1>3 DEF TypeOK, MemoryOK, Pcs, Scans, Rows, Calls

-----------------------------------------------------------------------------
(* What the relayer works on. *)

\* Rows are taken up because they are recorded.
LEMMA BatchStep ==
  ASSUME TypeOK, AtWork, [Next]_vars
  PROVE  \A r \in batch' : r \in batch \/ (r \in Rows /\ Recorded(r.seq))
<1>. DEFINE Good == \A r \in batch' : r \in batch \/ (r \in Rows /\ Recorded(r.seq))
<1>1. ASSUME pc \in {"check", "collect", "confirm"}, NextRow PROVE Good
  BY <1>1, NextRowMoves DEF AtWork
<1>2. EndTick => Good
  BY DEF EndTick
<1>3. CASE Discover
  BY <1>3 DEF Discover, PollRecent, IngestEvent, FindGap, Backfill, AdvanceCursor
<1>4. CASE Process
  <2>1. ListPending => Good
    BY <1>2, OpenRowsTyped DEF ListPending
  <2>2. CheckConsumed => Good
    BY <1>1 DEF CheckConsumed
  <2>. QED BY <1>1, <1>4, <2>1, <2>2
           DEF Process, SubmitMint, SubmitRefused, Receipt, Reverted, LostTimeout, RowFails,
               SignMint, Answered
<1>5. CASE Faults
  BY <1>1, <1>2, <1>5
     DEF Faults, BackfillFails, ListFails, CheckFails, ConfirmTimeout, Crash, RowFails,
         SignerFails, Answered, LoseMint, memory
<1>6. CASE (\E e \in Event : BridgeOut(e)) \/ UNCHANGED vars
           \/ (\E req \in Request : AnyoneMints(req)) \/ (\E tx \in mempool : Mine(tx))
  BY <1>6 DEF BridgeOut, AnyoneMints, Mine, memory, vars
<1>. QED BY <1>3, <1>4, <1>5, <1>6 DEF Next

\* What comes into the pool is a request for the row at hand.
LEMMA PoolStep ==
  ASSUME TypeOK, Genuine, AtWork, [Next]_vars
  PROVE  \A tx \in mempool' : tx.req \in Locks
<1>. DEFINE Good == \A tx \in mempool' : tx.req \in Locks
<1>1. mempool' \subseteq mempool => Good
  BY DEF Genuine
<1>2. ASSUME SubmitMint PROVE Good
  <2>1. batch # {}
    BY <1>2 DEF SubmitMint, AtWork
  <2>2. Current.seq \in Seqs /\ OurLock(Current.seq)
    BY <2>1, CurrentRow DEF Genuine
  <2>3. RequestFor(Current.seq) \in Locks
    BY <2>2 DEF Locks
  <2>4. \E tx : tx.req = RequestFor(Current.seq) /\ mempool' = mempool \cup {tx}
    BY <1>2 DEF SubmitMint
  <2>. QED BY <2>3, <2>4 DEF Genuine
<1>3. CASE Discover
  BY <1>1, <1>3 DEF Discover, PollRecent, IngestEvent, FindGap, Backfill, AdvanceCursor, bsc
<1>4. CASE Process
  BY <1>1, <1>2, <1>4
     DEF Process, ListPending, CheckConsumed, SubmitRefused, Receipt, Reverted, LostTimeout, RowFails,
         SignMint, Answered, bsc
<1>5. CASE Faults
  BY <1>1, <1>5
     DEF Faults, BackfillFails, ListFails, CheckFails, ConfirmTimeout, Crash, RowFails,
         SignerFails, Answered, LoseMint, bsc
<1>6. CASE (\E e \in Event : BridgeOut(e)) \/ UNCHANGED vars
           \/ (\E req \in Request : AnyoneMints(req)) \/ (\E tx \in mempool : Mine(tx))
  BY <1>1, <1>6 DEF BridgeOut, AnyoneMints, Mine, bsc, vars
<1>. QED BY <1>3, <1>4, <1>5, <1>6 DEF Next

\* Rows, batch, pool and mints stay genuine.
LEMMA GenuineStep ==
  ASSUME TypeOK, Genuine, AtWork, Polled, Filled, [Next]_vars
  PROVE  Genuine'
<1>1. \A s \in Seqs : OurLock(s) => OurLock(s)' /\ RequestFor(s)' = RequestFor(s)
  BY ChainStep
<1>2. Locks \subseteq Locks'
  BY <1>1 DEF Locks
<1>3. \A s \in Seqs : Recorded(s)' => OurLock(s)'
  BY <1>1, RowsStep DEF Genuine
<1>4. \A r \in batch' : OurLock(r.seq)'
  <2>1. \A r \in batch : r.seq \in Seqs
    BY TypeParts DEF MemoryOK, Rows
  <2>2. \A r \in Rows : r.seq \in Seqs
    BY DEF Rows
  <2>. QED BY <1>1, <2>1, <2>2, BatchStep DEF Genuine
<1>5. minted' \subseteq Locks'
  BY <1>2, MintStep DEF Genuine
<1>. QED BY <1>2, <1>3, <1>4, <1>5, PoolStep DEF Genuine

\* What was minted stays minted.
LEMMA ConsumedStays ==
  ASSUME TypeOK, Genuine, [Next]_vars
  PROVE  Consumed \subseteq Consumed'
  BY MintStep DEF Consumed

\* A row that says confirmed was minted before it said so.
LEMMA ConfirmedStep ==
  ASSUME TypeOK, ConfirmedIsMinted, Genuine, AtWork, Polled, Filled, [Next]_vars
  PROVE  ConfirmedIsMinted'
  BY RowsStep, ConsumedStays DEF ConfirmedIsMinted

\* The row at hand and its receipt.
LEMMA AtWorkStep ==
  ASSUME TypeOK, Genuine, AtWork, [Next]_vars
  PROVE  AtWork'
<1>1. ASSUME pc' \notin {"check", "collect", "confirm"} PROVE AtWork'
  BY <1>1 DEF AtWork
<1>2. ASSUME pc \in {"check", "collect", "confirm"}, NextRow PROVE AtWork'
  BY <1>2, NextRowMoves DEF AtWork
<1>3. ASSUME UNCHANGED memory PROVE AtWork'
  BY <1>3, ConsumedStays DEF AtWork, memory, Current
<1>4. EndTick => AtWork'
  BY <1>1 DEF EndTick
<1>5. ASSUME NEW tx \in mempool, Mine(tx) PROVE AtWork'
  <2>1. UNCHANGED <<pc, batch>>
    BY <1>5 DEF Mine
  <2>2. CASE ~(pc = "confirm" /\ call.tx = tx)
    BY <1>3, <1>5, <2>1, <2>2 DEF Mine, memory
  <2>3. CASE pc = "confirm" /\ call.tx = tx
    <3>1. call' = [call EXCEPT !.receipt = IF Accepts(tx.req, tx.sigs) THEN "ok" ELSE "revert"]
      BY <1>5, <2>3 DEF Mine
    <3>2. call \in Calls
      BY TypeParts DEF MemoryOK
    <3>3. call'.tx = call.tx /\ (call'.receipt = "ok" => Accepts(tx.req, tx.sigs))
      BY <3>1, <3>2 DEF Calls
    <3>4. Accepts(tx.req, tx.sigs) => tx.req.src \in Consumed'
      BY <1>5 DEF Mine, Consumed
    <3>5. Current' = Current
      BY <2>1 DEF Current
    <3>. QED BY <2>1, <2>3, <3>3, <3>4, <3>5 DEF AtWork
  <2>. QED BY <2>2, <2>3
<1>6. CASE Discover
  BY <1>1, <1>6 DEF Discover, PollRecent, IngestEvent, FindGap, Backfill, AdvanceCursor
<1>7. CASE Process
  <2>1. ASSUME ListPending PROVE AtWork'
    BY <1>4, <2>1 DEF ListPending, AtWork
  <2>2. ASSUME CheckConsumed PROVE AtWork'
    <3>1. CASE Current.seq \in Consumed
      BY <1>2, <2>2, <3>1 DEF CheckConsumed
    <3>2. CASE Current.seq \notin Consumed
      <4>1. pc' = "collect" /\ batch' = batch /\ call'.receipt = "none" /\ batch # {}
        BY <2>2, <3>2 DEF CheckConsumed, NoCall, AtWork
      <4>. QED BY <4>1 DEF AtWork
    <3>. QED BY <3>1, <3>2
  <2>3. ASSUME SubmitMint PROVE AtWork'
    <3>1. pc = "collect" /\ pc' = "confirm" /\ batch' = batch /\ batch # {} /\ call.receipt = "none"
      BY <2>3 DEF SubmitMint, AtWork
    <3>2. \E sigs : call' = [call EXCEPT !.tx =
              [req |-> RequestFor(Current.seq), sigs |-> sigs, try |-> db[Current.seq].attempts]]
      BY <2>3 DEF SubmitMint
    <3>3. call \in Calls
      BY TypeParts DEF MemoryOK
    <3>4. call'.receipt = "none" /\ call'.tx.req = RequestFor(Current.seq) /\ call'.tx # <<>>
      BY <3>1, <3>2, <3>3 DEF Calls
    <3>5. Current' = Current
      BY <3>1 DEF Current
    <3>. QED BY <3>1, <3>4, <3>5 DEF AtWork, RequestFor
  <2>4. ASSUME NEW v \in Signers, SignMint(v) PROVE AtWork'
    <3>1. pc = "collect" /\ UNCHANGED <<pc, batch>> /\ call'.receipt = call.receipt
      <4>1. call \in Calls
        BY TypeParts DEF MemoryOK
      <4>. QED BY <2>4, <4>1 DEF SignMint, Answered, Calls
    <3>. QED BY <3>1 DEF AtWork
  <2>. QED BY <1>2, <1>7, <2>1, <2>2, <2>3, <2>4
           DEF Process, SubmitRefused, Receipt, Reverted, LostTimeout, RowFails
<1>8. CASE Faults
  <2>1. ASSUME NEW v \in Signers, SignerFails(v) PROVE AtWork'
    <3>1. pc = "collect" /\ UNCHANGED <<pc, batch>> /\ call'.receipt = call.receipt
      <4>1. call \in Calls
        BY TypeParts DEF MemoryOK
      <4>. QED BY <2>1, <4>1 DEF SignerFails, Answered, Calls
    <3>. QED BY <3>1 DEF AtWork
  <2>. QED BY <1>1, <1>2, <1>3, <1>4, <1>8, <2>1
           DEF Faults, BackfillFails, ListFails, CheckFails, ConfirmTimeout, Crash, RowFails, LoseMint
<1>9. CASE (\E e \in Event : BridgeOut(e)) \/ UNCHANGED vars \/ (\E req \in Request : AnyoneMints(req))
  BY <1>3, <1>9 DEF BridgeOut, AnyoneMints, vars, memory
<1>. QED BY <1>5, <1>6, <1>7, <1>8, <1>9 DEF Next

-----------------------------------------------------------------------------
(* The gap. *)

\* What is recorded or out of reach stays so.
LEMMA GotStays ==
  ASSUME TypeOK, Genuine, AtWork, Polled, Filled, [Next]_vars,
         NEW s \in Seqs, Emitted(s), Got(s)
  PROVE  Got(s)'
<1>1. Recorded(s) => Recorded(s)'
  BY RowsStep
<1>2. OurLock(s)' => OurLock(s)
  BY ChainStep DEF OurLock
<1>3. Kept(s)' => Kept(s)
  BY ChainStep
<1>. QED BY <1>1, <1>2, <1>3 DEF Got

\* The numbers below the end of the chain are those of events.
LEMMA Below ==
  ASSUME TypeOK, NEW n \in Nat, n < Len(outs)
  PROVE  n \in Seqs /\ Emitted(n)
  BY BridgeBounds DEF TypeOK, Seqs, Emitted

\* Steps that leave the search for events alone, or end it.
LEMMA SearchMoves ==
  ASSUME AtWork, TypeOK, [Next]_vars, ~Discover
  PROVE  UNCHANGED cursor /\ (UNCHANGED <<pc, todo, scan>> \/ pc' \notin {"ingest", "backfill", "advance"})
<1>. DEFINE Good == UNCHANGED cursor /\
                    (UNCHANGED <<pc, todo, scan>> \/ pc' \notin {"ingest", "backfill", "advance"})
<1>1. ASSUME pc \in {"check", "collect", "confirm"}, NextRow
      PROVE  pc' \notin {"ingest", "backfill", "advance"}
  BY <1>1, NextRowMoves DEF AtWork
<1>2. CASE Process
  BY <1>1, <1>2
     DEF Process, ListPending, EndTick, CheckConsumed, SubmitMint, SubmitRefused, Receipt, Reverted,
         LostTimeout, RowFails, SignMint, Answered, stored
<1>3. CASE Faults
  BY <1>1, <1>3
     DEF Faults, BackfillFails, ListFails, EndTick, CheckFails, ConfirmTimeout, Crash, RowFails,
         SignerFails, Answered, LoseMint, stored, memory
<1>4. CASE (\E e \in Event : BridgeOut(e)) \/ UNCHANGED vars
           \/ (\E req \in Request : AnyoneMints(req)) \/ (\E tx \in mempool : Mine(tx))
  BY <1>4 DEF BridgeOut, AnyoneMints, Mine, stored, memory, vars
<1>. QED BY <1>2, <1>3, <1>4 DEF Next

\* While the relayer searches, the chain stays as it is.
LEMMA SearchAlone ==
  ASSUME Discover
  PROVE  outs' = outs
  BY DEF Discover, PollRecent, IngestEvent, FindGap, Backfill, AdvanceCursor, chain

\* Where the gap starts: all that is below is recorded or out of reach.
LEMMA GapFound ==
  ASSUME TypeOK, Genuine, GapsClosed, Polled, Filled, FindGap, scan.total # 0
  PROVE  /\ scan'.low = scan.low /\ scan'.total = scan.total
         /\ scan'.seen \in Int /\ scan'.seen >= -1 /\ scan'.next \in Nat
         /\ pc' = IF scan'.next < scan.low THEN "backfill" ELSE "advance"
         /\ \A s \in 1 .. scan'.next - 1 : Got(s)
<1>. DEFINE seen   == IF HaveAny THEN cursor ELSE -1
            oldest == IF scan.total > RingCap THEN scan.total - RingCap ELSE 0
            from   == IF seen + 1 < oldest THEN oldest ELSE seen + 1
<1>1. /\ scan' = [scan EXCEPT !.seen = seen, !.next = from]
      /\ pc' = IF from < scan.low THEN "backfill" ELSE "advance"
  BY DEF FindGap
<1>2. scan \in Scans /\ cursor \in Nat
  BY TypeParts DEF MemoryOK
<1>3. seen \in Int /\ seen >= -1 /\ oldest \in Nat
  BY <1>2, BridgeBounds DEF Scans
<1>4. from \in Nat
  BY <1>3
<1>5. scan'.low = scan.low /\ scan'.total = scan.total /\ scan'.seen = seen /\ scan'.next = from
  BY <1>1, <1>2 DEF Scans
<1>6. ASSUME NEW s \in 1 .. from - 1 PROVE Got(s)
  <2>1. SUFFICES ASSUME OurLock(s), Kept(s) PROVE Recorded(s)
    BY DEF Got
  <2>2. s \in 1 .. MaxOuts - 1
    BY <1>4, <2>1, BridgeBounds DEF OurLock, Emitted, TypeOK
  <2>3. CASE s < oldest
    <3>1. s < scan.total - RingCap /\ scan.total <= Len(outs)
      BY <1>2, <1>4, <2>3, BridgeBounds DEF FindGap, Polled, Scans
    <3>. QED BY <1>2, <1>4, <2>1, <3>1, BridgeBounds DEF Kept, TypeOK, Scans
  <2>4. CASE ~(s < oldest)
    <3>1. s <= seen
      BY <1>3, <1>4, <2>4
    <3>2. s <= cursor
      BY <1>2, <1>3, <2>2, <3>1, BridgeBounds
    <3>. QED BY <2>1, <2>2, <3>2 DEF GapsClosed
  <2>. QED BY <2>3, <2>4
<1>. HIDE DEF seen, oldest, from
<1>. QED BY <1>1, <1>3, <1>4, <1>5, <1>6

\* The poll stays a stretch of the chain.
LEMMA PolledStep ==
  ASSUME TypeOK, GapsClosed, Genuine, AtWork, Polled, Filled, [Next]_vars
  PROVE  Polled'
<1>1. /\ Len(outs) \in Nat /\ Len(outs') \in Nat /\ Len(outs) <= Len(outs')
      /\ scan \in Scans /\ cursor \in Nat
  <2>1. outs \in Seq(Event) /\ outs' \in Seq(Event)
    BY TypeStep DEF TypeOK
  <2>2. Len(outs) <= Len(outs')
    BY <2>1, ChainMoves
  <2>. QED BY <2>1, <2>2, TypeParts DEF MemoryOK
<1>2. CASE ~Discover
  BY <1>1, <1>2, SearchMoves DEF Polled, Scans
<1>3. ASSUME PollRecent PROVE Polled'
  BY <1>1, <1>3, PollTyped DEF Polled, PollRecent, stored, chain, Scans
<1>4. ASSUME IngestEvent PROVE Polled'
  BY <1>1, <1>4 DEF Polled, IngestEvent, chain, Scans
<1>5. ASSUME FindGap PROVE Polled'
  <2>1. UNCHANGED <<cursor, outs>> /\ pc = "ingest"
    BY <1>5 DEF FindGap, stored, chain
  <2>2. CASE scan.total = 0
    BY <1>5, <2>1, <2>2 DEF FindGap, Polled
  <2>3. CASE scan.total # 0
    BY <1>1, <1>5, <2>1, <2>3, GapFound DEF Polled, Scans
  <2>. QED BY <2>2, <2>3
<1>6. ASSUME Backfill PROVE Polled'
  <2>1. /\ scan'.low = scan.low /\ scan'.total = scan.total /\ scan'.seen = scan.seen
        /\ scan'.next = scan.next + 1
        /\ pc' = IF scan'.next < scan.low THEN "backfill" ELSE "advance"
    BY <1>1, <1>6 DEF Backfill, Scans
  <2>. QED BY <1>1, <1>6, <2>1 DEF Polled, Backfill, chain, Scans
<1>7. ASSUME AdvanceCursor PROVE Polled'
  BY <1>1, <1>7 DEF Polled, AdvanceCursor, chain, Scans
<1>. QED BY <1>2, <1>3, <1>4, <1>5, <1>6, <1>7 DEF Discover

\* The tick closes the gap from both ends.
LEMMA FilledStep ==
  ASSUME TypeOK, GapsClosed, Genuine, AtWork, Polled, Filled, [Next]_vars
  PROVE  Filled'
<1>1. scan \in Scans /\ todo \in Seq(Seqs) /\ Len(todo) \in Nat /\ Len(outs) \in Nat
  BY TypeParts DEF MemoryOK
<1>2. ASSUME NEW s \in Nat, s < Len(outs), Got(s) PROVE Got(s)'
  BY <1>2, Below, GotStays
<1>3. CASE UNCHANGED <<pc, todo, scan>> /\ pc \in {"ingest", "backfill", "advance"}
  <2>1. scan.total <= Len(outs)
    BY <1>3 DEF Polled
  <2>2. CASE pc = "ingest"
    BY <1>1, <1>2, <1>3, <2>1, <2>2 DEF Filled, Scans
  <2>3. CASE pc = "backfill"
    <3>1. scan.next < scan.low /\ scan.low <= scan.total /\ scan.next >= 0
      BY <2>3 DEF Polled
    <3>. QED BY <1>1, <1>2, <1>3, <2>1, <2>3, <3>1 DEF Filled, Scans
  <2>4. CASE pc = "advance"
    BY <1>1, <1>2, <1>3, <2>1, <2>4 DEF Filled, Scans
  <2>. QED BY <1>3, <2>2, <2>3, <2>4
<1>4. ASSUME pc' \notin {"ingest", "backfill", "advance"} PROVE Filled'
  BY <1>4 DEF Filled
<1>5. CASE ~Discover
  BY <1>3, <1>4, <1>5, SearchMoves
<1>6. ASSUME PollRecent PROVE Filled'
  <2>1. pc' = "ingest" /\ scan'.low + Len(todo') = scan'.total
    <3>1. Len(todo') = Len(outs) - scan'.low /\ scan'.total = Len(outs) /\ scan'.low \in Nat
      BY <1>6, PollTyped DEF Scans
    <3>2. scan'.low + Len(todo') = scan'.total
      BY <1>1, <3>1
    <3>. QED BY <1>6, <3>2 DEF PollRecent
  <2>2. scan'.low + Len(todo') .. scan'.total - 1 = {}
    BY <1>1, <1>6, <2>1, PollTyped
  <2>3. scan'.low + Len(todo') <= scan'.total
    BY <1>1, <1>6, <2>1, PollTyped
  <2>. QED BY <1>6, <2>1, <2>2, <2>3, PollTyped DEF Filled
<1>7. ASSUME IngestEvent PROVE Filled'
  <2>0. PICK h : h = Head(todo)
    OBVIOUS
  <2>1. /\ pc = "ingest" /\ pc' = "ingest" /\ todo # <<>> /\ scan' = scan
        /\ todo' = Tail(todo) /\ db' = Insert(h)
    BY <1>7, <2>0 DEF IngestEvent
  <2>2. /\ h = scan.low + Len(todo) - 1 /\ h \in Seqs /\ Emitted(h)
        /\ Len(todo') = Len(todo) - 1
        /\ todo' = [i \in 1 .. Len(todo') |-> scan.low + Len(todo') - i]
    BY <2>0, <2>1, HeadOfTodo
  <2>3. Got(h)'
    <3>1. At(h)' = At(h)
      BY <2>2, ChainStep
    <3>2. At(h).ours => Recorded(h)'
      BY <2>1, <2>2, Inserted
    <3>. QED BY <3>1, <3>2 DEF Got, OurLock
  <2>4. scan.low + Len(todo) <= scan.total /\ scan.total <= Len(outs)
    BY <2>1 DEF Filled, Polled
  <2>5. ASSUME NEW s \in scan.low + Len(todo') .. scan.total - 1 PROVE Got(s)'
    <3>1. CASE s = h
      BY <2>3, <3>1
    <3>2. CASE s # h
      <4>1. s \in scan.low + Len(todo) .. scan.total - 1 /\ s \in Nat /\ s < Len(outs)
        BY <1>1, <2>2, <2>4, <3>2 DEF Scans
      <4>2. Got(s)
        BY <2>1, <4>1 DEF Filled
      <4>. QED BY <1>2, <4>1, <4>2
    <3>. QED BY <3>1, <3>2
  <2>6. scan.low + Len(todo') <= scan.total
    BY <1>1, <2>2, <2>4 DEF Scans
  <2>. QED BY <2>1, <2>2, <2>5, <2>6 DEF Filled
<1>8. ASSUME FindGap PROVE Filled'
  <2>1. CASE scan.total = 0
    BY <1>4, <1>8, <2>1 DEF FindGap
  <2>2. CASE scan.total # 0
    <3>1. pc = "ingest" /\ Len(todo) = 0 /\ scan.low <= scan.total /\ scan.total <= Len(outs)
      BY <1>1, <1>8 DEF FindGap, Polled
    <3>2. \A s \in scan.low .. scan.total - 1 : Got(s)
      BY <1>1, <3>1 DEF Filled, Scans
    <3>3. /\ scan'.low = scan.low /\ scan'.total = scan.total /\ scan'.next \in Nat
          /\ pc' = IF scan'.next < scan.low THEN "backfill" ELSE "advance"
          /\ \A s \in 1 .. scan'.next - 1 : Got(s)
      BY <1>8, <2>2, GapFound
    <3>4. \A s \in scan.low .. scan.total - 1 : Got(s)'
      BY <1>1, <1>2, <3>1, <3>2 DEF Scans
    <3>5. CASE scan'.next < scan.low
      <4>1. \A s \in 1 .. scan'.next - 1 : Got(s)'
        BY <1>1, <1>2, <3>1, <3>3, <3>5 DEF Scans
      <4>. QED BY <3>3, <3>4, <3>5, <4>1 DEF Filled
    <3>6. CASE ~(scan'.next < scan.low)
      <4>1. \A s \in 1 .. scan.total - 1 : Got(s)
        BY <1>1, <3>1, <3>2, <3>3, <3>6 DEF Scans
      <4>2. \A s \in 1 .. scan.total - 1 : Got(s)'
        BY <1>1, <1>2, <3>1, <4>1 DEF Scans
      <4>. QED BY <3>3, <3>6, <4>2 DEF Filled
    <3>. QED BY <3>5, <3>6
  <2>. QED BY <2>1, <2>2
<1>9. ASSUME Backfill PROVE Filled'
  <2>0. PICK n : n = scan.next
    OBVIOUS
  <2>1. /\ scan'.low = scan.low /\ scan'.total = scan.total /\ scan'.next = n + 1
        /\ pc' = IF n + 1 < scan.low THEN "backfill" ELSE "advance"
        /\ pc = "backfill" /\ db' = IF Kept(n) THEN Insert(n) ELSE db
    BY <1>1, <1>9, <2>0 DEF Backfill, Scans
  <2>2. /\ scan.total <= Len(outs) /\ scan.low <= scan.total /\ n \in Nat /\ n < scan.low
    BY <1>1, <2>0, <2>1 DEF Polled, Scans
  <2>3. n < Len(outs) /\ n \in Seqs /\ Emitted(n)
    BY <1>1, <2>2, Below DEF Scans
  <2>4. Got(n)'
    <3>1. CASE Kept(n)
      <4>1. At(n)' = At(n)
        BY <2>3, ChainStep
      <4>2. At(n).ours => Recorded(n)'
        BY <2>1, <2>3, <3>1, Inserted
      <4>. QED BY <4>1, <4>2 DEF Got, OurLock
    <3>2. CASE ~Kept(n)
      BY <1>2, <2>2, <2>3, <3>2 DEF Got
    <3>. QED BY <3>1, <3>2
  <2>5. /\ \A s \in scan.low .. scan.total - 1 : Got(s)
        /\ \A s \in 1 .. n - 1 : Got(s)
    BY <2>0, <2>1 DEF Filled
  <2>6. \A s \in scan.low .. scan.total - 1 : Got(s)'
    BY <1>1, <1>2, <2>2, <2>5 DEF Scans
  <2>7. \A s \in 1 .. n - 1 : Got(s)'
    BY <1>1, <1>2, <2>2, <2>3, <2>5 DEF Scans
  <2>8. \A s \in 1 .. n : Got(s)'
    BY <2>2, <2>4, <2>7
  <2>9. CASE n + 1 < scan.low
    <3>1. \A s \in 1 .. scan'.next - 1 : Got(s)'
      BY <2>1, <2>2, <2>8
    <3>. QED BY <2>1, <2>6, <2>9, <3>1 DEF Filled
  <2>10. CASE ~(n + 1 < scan.low)
    <3>1. \A s \in 1 .. scan.total - 1 : Got(s)'
      BY <1>1, <2>2, <2>6, <2>8, <2>10 DEF Scans
    <3>. QED BY <2>1, <2>10, <3>1 DEF Filled
  <2>. QED BY <2>9, <2>10
<1>10. AdvanceCursor => Filled'
  BY <1>4 DEF AdvanceCursor
<1>. QED BY <1>5, <1>6, <1>7, <1>8, <1>9, <1>10 DEF Discover

\* The cursor moves over a closed gap alone.
LEMMA GapsStep ==
  ASSUME TypeOK, GapsClosed, Genuine, AtWork, Polled, Filled, [Next]_vars
  PROVE  GapsClosed'
<1>1. cursor \in Nat /\ scan \in Scans /\ Len(outs) \in Nat
  BY TypeParts DEF MemoryOK
<1>2. ASSUME NEW s \in 1 .. MaxOuts - 1, s <= cursor PROVE Got(s)'
  <2>1. s \in Nat /\ s < Len(outs)
    BY <1>1, <1>2, BridgeBounds DEF Polled
  <2>2. Got(s)
    BY <1>2 DEF GapsClosed, Got
  <2>. QED BY <2>1, <2>2, Below, GotStays
<1>3. CASE cursor' = cursor
  BY <1>2, <1>3 DEF GapsClosed, Got
<1>4. CASE cursor' # cursor
  <2>1. AdvanceCursor
    BY <1>4, SearchMoves
       DEF Discover, PollRecent, IngestEvent, FindGap, Backfill, stored
  <2>2. /\ pc = "advance" /\ cursor' = scan.total - 1 /\ scan.total <= Len(outs)
    BY <1>4, <2>1 DEF AdvanceCursor, Polled
  <2>3. ASSUME NEW s \in 1 .. MaxOuts - 1, s <= cursor' PROVE Got(s)'
    <3>1. s \in 1 .. scan.total - 1 /\ s \in Nat /\ s < Len(outs)
      BY <1>1, <2>2, <2>3, BridgeBounds DEF Scans
    <3>2. Got(s)
      BY <2>2, <3>1 DEF Filled
    <3>. QED BY <3>1, <3>2, Below, GotStays
  <2>. QED BY <2>3 DEF GapsClosed, Got
<1>. QED BY <1>3, <1>4

-----------------------------------------------------------------------------
(* The theorems. *)

LEMMA InitInv == Init => IInv
<1>. SUFFICES ASSUME Init PROVE IInv
  OBVIOUS
<1>. USE BridgeBounds
<1>1. /\ outs = <<>> /\ Len(outs) = 0 /\ minted = {} /\ mempool = {} /\ batch = {}
      /\ cursor = 0 /\ pc = "idle" /\ \A s \in Seqs : ~Recorded(s)
  BY DEF Init, Recorded
<1>2. MemoryOK
  BY EmptySeq, Idle DEF Init, MemoryOK, Pcs
<1>3. db \in [Seqs -> Row] /\ outs \in Seq(Event)
  BY EmptySeq DEF Init, Row, Statuses
<1>4. TypeOK
  BY <1>1, <1>2, <1>3, TypeParts
<1>5. \A s \in Seqs : ~OurLock(s)
  BY <1>1 DEF OurLock, Emitted, Seqs
<1>6. GapsClosed
  BY <1>5 DEF GapsClosed, Seqs
<1>7. ConfirmedIsMinted
  BY <1>1 DEF ConfirmedIsMinted, Recorded
<1>8. Genuine /\ AtWork /\ Polled /\ Filled
  BY <1>1 DEF Genuine, AtWork, Polled, Filled
<1>. QED BY <1>4, <1>6, <1>7, <1>8 DEF IInv

\* The inductive invariant.
LEMMA Invariance == Spec => []IInv
<1>1. IInv /\ [Next]_vars => IInv'
  BY TypeStep, ConfirmedStep, GapsStep, GenuineStep, AtWorkStep, PolledStep, FilledStep DEF IInv
<1>. QED BY InitInv, <1>1, PTL DEF Spec

\* The rows keep their types, and a row that says confirmed was minted: timeouts,
\* crashes and second transactions included (setZebvixEventStatus, processPending).
THEOREM RowsAreTrue == Spec => []RowsTrue
<1>1. IInv => RowsTrue
  BY DEF IInv, RowsTrue
<1>. QED BY Invariance, <1>1, PTL

\* The cursor passes no lock of ours that is not recorded and could still be read
\* (discoverNewEvents).
THEOREM NoGapLeft == Spec => []GapsClosed
<1>1. IInv => GapsClosed
  BY DEF IInv
<1>. QED BY Invariance, <1>1, PTL

\* Minting implements the transfer of what was locked, once and as it was locked,
\* as long as fewer signers are faulty than a mint takes (mintFromZebvix).
THEOREM MintsAreTransfers == Spec => ImplementsTransfers
<1>1. Init => Promise!Init
  <2>. SUFFICES ASSUME Init PROVE Promise!Init
    OBVIOUS
  <2>1. \A s \in Seqs : ~OurLock(s)
    BY BridgeBounds DEF Init, OurLock, Emitted, Seqs
  <2>. QED BY <2>1 DEF Init, Promise!Init
<1>2. IInv => LocksOK
  BY RequestTyped DEF IInv, LocksOK, Locks, OurLock
<1>3. IInv /\ LocksOK' /\ [Next]_vars => [Promise!Next]_(Promise!vars)
  <2>. SUFFICES ASSUME IInv, LocksOK', [Next]_vars
                PROVE  Promise!Next \/ UNCHANGED Promise!vars
    OBVIOUS
  <2>1. TypeOK /\ Genuine
    BY DEF IInv
  <2>2. Locks \subseteq Locks'
    BY <2>1, ChainStep DEF Locks
  <2>3. Locks' \subseteq Request
    BY DEF LocksOK
  <2>4. CASE minted' = minted
    BY <2>2, <2>3, <2>4 DEF Promise!Next, Promise!Send, Locks
  <2>5. CASE \E req \in Request \cap Locks : /\ req \notin minted /\ minted' = minted \cup {req}
                                            /\ outs' = outs
    <3>1. PICK req \in Request \cap Locks : /\ req \notin minted /\ minted' = minted \cup {req}
                                           /\ outs' = outs
      BY <2>5
    <3>2. Locks' = Locks
      BY <3>1 DEF Locks, OurLock, Emitted, At, RequestFor
    <3>. QED BY <3>1, <3>2 DEF Promise!Next, Promise!Receive, Locks
  <2>. QED BY <2>1, <2>4, <2>5, MintStep
<1>. QED BY <1>1, <1>2, <1>3, Invariance, PTL DEF Spec, ImplementsTransfers, Promise!Spec
=============================================================================
