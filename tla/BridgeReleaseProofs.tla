------------------------ MODULE BridgeReleaseProofs -------------------------
(***************************************************************************)
(* For every set of burns, every depth of confirmation and every length of *)
(* a chunk: what is released on Zebvix was burnt in a block of BSC that no *)
(* reorganisation took back, and is released once, to its account unless   *)
(* that is the admin's; the watcher's cursor passes no burn; and a row     *)
(* says confirmed only after a claim of its BSC transaction.               *)
(*                                                                         *)
(* Plan.  Blocks that are deep enough stay (DeepStays), the watcher reads  *)
(* no others (Deep), and so rows, batch, claims and releases are of burns  *)
(* in such blocks (Genuine).  The cursor advances over a chunk that was    *)
(* read at an earlier moment, and reads the same now for the same reason   *)
(* (ChunkRead).                                                            *)
(***************************************************************************)
EXTENDS BridgeRelease, SumProofs, SequenceTheorems

\* BSC is at most Confirmations blocks shorter than it once was.
Shallow == Len(blocks) <= top /\ Len(blocks) >= top - Confirmations

\* The watcher has passed and works on deep blocks alone.
Deep ==
    /\ cursor >= StartBlock
    /\ cursor > StartBlock => cursor <= top - Confirmations + 1
    /\ pc \in {"fetch", "advance"} => scan.safe <= top - Confirmations
    /\ pc = "advance" => cursor <= scan.to /\ scan.to <= scan.safe

\* Rows, batch, claims and releases are of burns in deep blocks.
Genuine ==
    /\ \A b \in Burn : Recorded(b) => b \in Final
    /\ \A r \in batch : Recorded(r.burn)
    /\ \A t \in mempool : t.burn \in Final
    /\ released \subseteq Final

\* There is a row at hand.
AtWork == pc \in {"nonce", "submit", "send", "sent"} => batch # {}

\* What the cursor is about to pass is recorded.
ChunkRead ==
    pc = "advance" => \A n \in cursor .. scan.to : \A b \in blocks[n] : Recorded(b)

IInv == TypeOK /\ NoBurnSkipped /\ Shallow /\ Deep /\ Genuine /\ AtWork /\ ChunkRead

-----------------------------------------------------------------------------
(* The row at hand. *)

Rows == [burn : Burn, attempts : 0 .. GiveUp]

\* A batch that is not empty has a row to work on: the least transaction, and in it
\* the least log.
LEMMA CurrentRow ==
  ASSUME TypeOK, batch # {}
  PROVE  Row \in batch /\ Row.burn \in Burn /\ Row.attempts \in 0 .. GiveUp
<1>. DEFINE Txs == {r.burn.tx : r \in batch}
<1>1. \A r \in batch : /\ r.burn \in Burn /\ r.attempts \in 0 .. GiveUp
                       /\ r.burn.tx \in Nat /\ r.burn.log \in Nat
  BY BurnAssumption DEF TypeOK
<1>2. Txs \in SUBSET Nat /\ Txs # {}
  BY <1>1
<1>. HIDE DEF Txs
<1>3. PICK m \in Txs : \A n \in Txs : m <= n
  BY <1>2, LeastNumber
<1>. DEFINE Logs == {r.burn.log : r \in {q \in batch : q.burn.tx = m}}
<1>4. Logs \in SUBSET Nat /\ Logs # {}
  BY <1>1, <1>3 DEF Txs
<1>. HIDE DEF Logs
<1>5. PICK l \in Logs : \A n \in Logs : l <= n
  BY <1>4, LeastNumber
<1>6. PICK r \in batch : r.burn.tx = m /\ r.burn.log = l
  BY <1>5 DEF Logs
<1>7. ASSUME NEW q \in batch PROVE ~Before(q, r)
  <2>1. q.burn.tx \in Nat /\ m \in Nat /\ m <= q.burn.tx
    BY <1>1, <1>2, <1>3 DEF Txs
  <2>2. q.burn.tx = m => q.burn.log \in Nat /\ l \in Nat /\ l <= q.burn.log
    BY <1>1, <1>4, <1>5 DEF Logs
  <2>. QED BY <1>6, <2>1, <2>2 DEF Before
<1>8. Row \in batch
  BY <1>7 DEF Row
<1>. QED BY <1>1, <1>8

\* What the end of a row leaves.
LEMMA RowDoneMoves ==
  ASSUME TypeOK, batch # {}, RowDone
  PROVE  /\ pc' \in {"idle", "submit"}
         /\ batch' \subseteq batch
         /\ pc' = "submit" => batch' # {}
         /\ <<scan', nonce'>> \in {<<scan, nonce>>, <<NoScan, 0>>}
<1>1. CASE batch = {Row}
  BY <1>1 DEF RowDone, EndTick
<1>2. CASE batch # {Row}
  <2>1. batch' = batch \ {Row} /\ pc' = "submit" /\ UNCHANGED <<scan, nonce>>
    BY <1>2 DEF RowDone
  <2>2. batch \ {Row} # {}
    BY <1>2, CurrentRow
  <2>. QED BY <2>1, <2>2
<1>. QED BY <1>1, <1>2

-----------------------------------------------------------------------------
(* BSC. *)

\* Blocks that are deep enough stay, and what is deep is a block.
LEMMA DeepStays ==
  ASSUME TypeOK, Shallow, [Next]_vars
  PROVE  /\ blocks' \in Seq(SUBSET Burn) /\ Len(blocks') <= MaxBlocks /\ top' \in 0 .. MaxBlocks
         /\ Shallow'
         /\ top' >= top
         /\ \A n \in 1 .. top - Confirmations : n \in 1 .. Len(blocks) /\ blocks'[n] = blocks[n]
         /\ \A n \in 1 .. Len(blocks') : n <= top - Confirmations => n \in 1 .. Len(blocks)
<1>1. /\ blocks \in Seq(SUBSET Burn) /\ Len(blocks) \in Nat /\ Len(blocks) <= MaxBlocks
      /\ top \in Nat /\ top <= MaxBlocks /\ Confirmations \in Nat /\ Confirmations > 0 /\ MaxBlocks \in Nat
      /\ Len(blocks) <= top /\ Len(blocks) >= top - Confirmations
  BY ReleaseBounds DEF TypeOK, Shallow
<1>2. CASE UNCHANGED ethereum
  BY <1>1, <1>2 DEF ethereum, Shallow
<1>3. ASSUME NEW burnt \in SUBSET Burn, MineBlock(burnt)
      PROVE  /\ blocks' \in Seq(SUBSET Burn) /\ Len(blocks') <= MaxBlocks /\ top' \in 0 .. MaxBlocks
             /\ Shallow' /\ top' >= top
             /\ \A n \in 1 .. top - Confirmations : n \in 1 .. Len(blocks) /\ blocks'[n] = blocks[n]
             /\ \A n \in 1 .. Len(blocks') : n <= top - Confirmations => n \in 1 .. Len(blocks)
  <2>1. blocks' = Append(blocks, burnt) /\ Len(blocks) < MaxBlocks
        /\ top' = IF Len(blocks') > top THEN Len(blocks') ELSE top
    BY <1>3 DEF MineBlock
  <2>2. /\ blocks' \in Seq(SUBSET Burn) /\ Len(blocks') = Len(blocks) + 1
        /\ \A n \in 1 .. Len(blocks) : blocks'[n] = blocks[n]
    BY <1>1, <2>1
  <2>3. top' \in 0 .. MaxBlocks /\ Shallow' /\ top' >= top /\ Len(blocks') <= MaxBlocks
    BY <1>1, <2>1, <2>2 DEF Shallow
  <2>. QED BY <1>1, <2>2, <2>3
<1>4. ASSUME NEW n \in 0 .. MaxBlocks, Reorg(n)
      PROVE  /\ blocks' \in Seq(SUBSET Burn) /\ Len(blocks') <= MaxBlocks /\ top' \in 0 .. MaxBlocks
             /\ Shallow' /\ top' >= top
             /\ \A m \in 1 .. top - Confirmations : m \in 1 .. Len(blocks) /\ blocks'[m] = blocks[m]
             /\ \A m \in 1 .. Len(blocks') : m <= top - Confirmations => m \in 1 .. Len(blocks)
  <2>1. n < Len(blocks) /\ n >= top - Confirmations /\ blocks' = SubSeq(blocks, 1, n) /\ top' = top
    BY <1>4 DEF Reorg
  <2>2. n \in Nat
    BY <1>4
  <2>3. /\ blocks' \in Seq(SUBSET Burn) /\ Len(blocks') = n
        /\ \A m \in 1 .. n : blocks'[m] = blocks[m]
    BY <1>1, <2>1, <2>2
  <2>4. top' \in 0 .. MaxBlocks /\ Shallow' /\ top' >= top /\ Len(blocks') <= MaxBlocks
    BY <1>1, <2>1, <2>2, <2>3 DEF Shallow
  <2>. QED BY <1>1, <2>1, <2>2, <2>3, <2>4
<1>5. \A b \in Burn : LogsOf(b.tx) \in SUBSET Burn
  BY DEF LogsOf
<1>6. CASE Discover \/ Confirm \/ (\E t \in mempool : BridgeIn(t)) \/ UNCHANGED vars
  BY <1>2, <1>6
     DEF Discover, ReadHead, FetchBurns, AdvanceCursor, FetchDone, Confirm, ListSubmitted, CheckClaim,
         Requeue, BridgeIn, vars, ethereum
<1>7. CASE Process \/ Faults
  BY <1>2, <1>7
     DEF Process, ListPending, ReadNonce, MarkSubmitted, PreCheck, Submit, SubmitRefused,
         Faults, FetchFails, NonceFails, Crash, CheckFails, SubmitFails, Refuse, Drop
<1>. QED BY <1>3, <1>4, <1>5, <1>6, <1>7 DEF Next

\* Deep stays deep.
LEMMA Depths ==
  ASSUME NEW t \in Nat, NEW u \in Nat, NEW c \in Nat, NEW s \in Nat, s > 0, u >= t
  PROVE  /\ t - c \in Int /\ u - c \in Int /\ t - c <= u - c
         /\ \A n \in s .. t - c : n \in 1 .. t - c /\ n \in s .. u - c
         /\ \A l \in Nat : l >= u - c => \A n \in s .. u - c : n \in 1 .. l
  OBVIOUS

\* The burns of deep blocks are burns, and stay.
LEMMA FinalStep ==
  ASSUME TypeOK, Shallow, [Next]_vars
  PROVE  Final \subseteq Burn /\ Final \subseteq Final' /\ Final' \subseteq Burn
<1>1. /\ StartBlock \in Nat /\ StartBlock > 0 /\ Confirmations \in Nat
      /\ top \in Nat /\ top' \in Nat /\ top' >= top
  BY DeepStays, ReleaseBounds DEF TypeOK
<1>2. /\ \A n \in StartBlock .. top - Confirmations :
            n \in 1 .. top - Confirmations /\ n \in StartBlock .. top' - Confirmations
      /\ \A l \in Nat : l >= top' - Confirmations =>
            \A n \in StartBlock .. top' - Confirmations : n \in 1 .. l
  BY <1>1, Depths
<1>3. \A n \in StartBlock .. top - Confirmations :
         n \in 1 .. Len(blocks) /\ blocks'[n] = blocks[n] /\ n \in StartBlock .. top' - Confirmations
  BY <1>2, DeepStays
<1>4. Final \subseteq Burn
  <2>1. \A n \in StartBlock .. top - Confirmations : blocks[n] \in SUBSET Burn
    BY <1>3, ElementOfSeq DEF TypeOK
  <2>. QED BY <2>1 DEF Final
<1>5. Final \subseteq Final'
  BY <1>3 DEF Final
<1>6. Final' \subseteq Burn
  <2>1. Len(blocks') >= top' - Confirmations /\ Len(blocks') \in Nat
        /\ blocks' \in Seq(SUBSET Burn)
    BY DeepStays DEF Shallow
  <2>2. \A n \in StartBlock .. top' - Confirmations : n \in 1 .. Len(blocks')
    BY <1>2, <2>1
  <2>3. \A n \in StartBlock .. top' - Confirmations : blocks'[n] \in SUBSET Burn
    BY <2>1, <2>2, ElementOfSeq
  <2>. QED BY <2>3 DEF Final
<1>. QED BY <1>4, <1>5, <1>6

-----------------------------------------------------------------------------
(* The database, the claims and the releases. *)

DbRow == [status : Statuses, attempts : 0 .. GiveUp]

\* A change of status erases no row.
LEMMA StatusSet ==
  ASSUME TypeOK, NEW b \in Burn, NEW st \in Statuses \ {"none"}, db' = SetStatus(b, st)
  PROVE  /\ db' \in [Burn -> DbRow]
         /\ \A c \in Burn : /\ Recorded(c) => Recorded(c)'
                            /\ Recorded(c)' => Recorded(c) \/ c = b
                            /\ db'[c].status = "confirmed" =>
                                  db[c].status = "confirmed" \/ (c = b /\ st = "confirmed")
<1>1. db \in [Burn -> DbRow] /\ GiveUp \in Nat
  BY ReleaseBounds DEF TypeOK, DbRow
<1>2. PICK a : a = IF db[b].attempts < GiveUp THEN db[b].attempts + 1 ELSE GiveUp
  OBVIOUS
<1>3. a \in 0 .. GiveUp
  BY <1>1, <1>2 DEF DbRow
<1>4. db' = [db EXCEPT ![b] = [status |-> st, attempts |-> a]]
  BY <1>2 DEF SetStatus
<1>5. [status |-> st, attempts |-> a] \in DbRow
  BY <1>3 DEF DbRow
<1>. QED BY <1>1, <1>4, <1>5 DEF Recorded

\* What the catch of a row does.
LEMMA RowFailsMoves ==
  ASSUME RowFails
  PROVE  /\ \E st \in Statuses \ {"none", "confirmed"} : db' = SetStatus(Row.burn, st)
         /\ RowDone /\ cursor' = cursor
  BY DEF RowFails, Statuses

\* Rows are never erased; new ones are of deep burns; and those that come to be
\* confirmed were claimed.
LEMMA RowsStep ==
  ASSUME TypeOK, Deep, Genuine, AtWork, [Next]_vars
  PROVE  /\ db' \in [Burn -> DbRow]
         /\ \A b \in Burn : /\ Recorded(b) => Recorded(b)'
                            /\ Recorded(b)' => Recorded(b) \/ b \in Final
                            /\ db'[b].status = "confirmed" =>
                                  db[b].status = "confirmed" \/ Claimed(b.tx)
<1>. DEFINE Good ==
        /\ db' \in [Burn -> DbRow]
        /\ \A b \in Burn : /\ Recorded(b) => Recorded(b)'
                           /\ Recorded(b)' => Recorded(b) \/ b \in Final
                           /\ db'[b].status = "confirmed" =>
                                 db[b].status = "confirmed" \/ Claimed(b.tx)
<1>1. CASE db' = db
  BY <1>1 DEF TypeOK, Recorded, DbRow
<1>2. ASSUME FetchBurns PROVE Good
  <2>1. PICK to : to = IF cursor + Chunk - 1 < scan.safe THEN cursor + Chunk - 1 ELSE scan.safe
    OBVIOUS
  <2>2. PICK logs : logs = UNION {blocks[n] : n \in DOMAIN blocks \cap (cursor .. to)}
    OBVIOUS
  <2>3. db' = [b \in Burn |-> IF b \in logs /\ ~Recorded(b)
                              THEN [status |-> "pending", attempts |-> 0] ELSE db[b]]
    BY <1>2, <2>1, <2>2 DEF FetchBurns
  <2>4. /\ cursor \in Nat /\ scan.safe \in Nat /\ top \in Nat /\ Confirmations \in Nat
        /\ StartBlock \in Nat /\ Chunk \in Nat
    BY ReleaseBounds DEF TypeOK
  <2>5. cursor .. to \subseteq StartBlock .. top - Confirmations
    <3>1. to \in Int /\ to <= scan.safe
      BY <2>1, <2>4
    <3>2. scan.safe <= top - Confirmations /\ cursor >= StartBlock
      BY <1>2 DEF FetchBurns, Deep
    <3>3. to <= top - Confirmations
      BY <2>4, <3>1, <3>2
    <3>. QED BY <2>4, <3>1, <3>2, <3>3
  <2>6. \A b \in logs : b \in Final
    BY <2>2, <2>5 DEF Final
  <2>7. [status |-> "pending", attempts |-> 0] \in DbRow
    BY ReleaseBounds DEF DbRow, Statuses
  <2>. QED BY <2>3, <2>6, <2>7 DEF Recorded, TypeOK, DbRow
<1>3. ASSUME NEW st \in Statuses \ {"none"}, batch # {}, db' = SetStatus(Row.burn, st),
             st = "confirmed" => Claimed(Row.burn.tx)
      PROVE  Good
  <2>1. Row.burn \in Burn /\ Recorded(Row.burn)
    BY <1>3, CurrentRow DEF Genuine
  <2>. QED BY <1>3, <2>1, StatusSet
<1>4. ASSUME batch # {}, RowFails PROVE Good
  <2>1. PICK st \in Statuses \ {"none", "confirmed"} : db' = SetStatus(Row.burn, st)
    BY <1>4, RowFailsMoves
  <2>. QED BY <1>3, <1>4, <2>1
<1>5. ASSUME CheckClaim PROVE Good
  <2>1. CASE Claimed(Row.burn.tx)
    BY <1>3, <1>5, <2>1 DEF CheckClaim, Statuses
  <2>2. CASE ~Claimed(Row.burn.tx)
    BY <1>1, <1>5, <2>2 DEF CheckClaim
  <2>. QED BY <2>1, <2>2
<1>6. ASSUME Requeue PROVE Good
  BY <1>3, <1>6 DEF Requeue, Statuses
<1>7. ASSUME PreCheck PROVE Good
  <2>1. batch # {}
    BY <1>7 DEF PreCheck, AtWork
  <2>2. CASE Claimed(Row.burn.tx)
    BY <1>3, <1>7, <2>1, <2>2 DEF PreCheck, Statuses
  <2>3. CASE ~Claimed(Row.burn.tx)
    BY <1>1, <1>7, <2>3 DEF PreCheck
  <2>. QED BY <2>2, <2>3
<1>8. ASSUME MarkSubmitted PROVE Good
  <2>1. batch # {}
    BY <1>8 DEF MarkSubmitted, AtWork
  <2>. QED BY <1>3, <1>8, <2>1 DEF MarkSubmitted, Statuses
<1>9. ASSUME SubmitRefused \/ SubmitFails PROVE Good
  BY <1>4, <1>9 DEF SubmitRefused, SubmitFails, AtWork
<1>10. CASE Discover
  BY <1>1, <1>2, <1>10 DEF Discover, ReadHead, AdvanceCursor, FetchDone, stored
<1>11. CASE Confirm \/ Process
  BY <1>1, <1>5, <1>6, <1>7, <1>8, <1>9, <1>11
     DEF Confirm, ListSubmitted, Process, ListPending, ReadNonce, Submit, stored
<1>12. CASE Faults
  BY <1>1, <1>9, <1>12
     DEF Faults, FetchFails, NonceFails, Crash, CheckFails, Refuse, Drop, stored
<1>13. CASE \/ \E burnt \in {{}} \cup {LogsOf(b.tx) : b \in Burn} : MineBlock(burnt)
            \/ \E n \in 0 .. MaxBlocks : Reorg(n)
            \/ \E t \in mempool : BridgeIn(t)
            \/ UNCHANGED vars
  BY <1>1, <1>13 DEF MineBlock, Reorg, BridgeIn, vars, stored
<1>. QED BY <1>10, <1>11, <1>12, <1>13 DEF Next

\* What is released is a claim's burn, which was not released before.
LEMMA ReleasedStep ==
  ASSUME TypeOK, Genuine, [Next]_vars
  PROVE  \/ released' = released
         \/ \E b \in Final : b \notin released /\ released' = released \cup {b} /\ UNCHANGED ethereum
<1>1. ASSUME NEW t \in mempool, BridgeIn(t), released' # released
      PROVE  \E b \in Final : b \notin released /\ released' = released \cup {b} /\ UNCHANGED ethereum
  BY <1>1 DEF BridgeIn, Release, Claimed, Genuine
<1>2. CASE Discover \/ Confirm
  BY <1>2
     DEF Discover, ReadHead, FetchBurns, AdvanceCursor, FetchDone, Confirm, ListSubmitted, CheckClaim,
         Requeue, zebvix
<1>3. CASE Process \/ Faults
  BY <1>3
     DEF Process, ListPending, ReadNonce, MarkSubmitted, PreCheck, Submit, SubmitRefused, zebvix,
         Faults, FetchFails, NonceFails, Crash, CheckFails, SubmitFails, Refuse, Drop
<1>4. CASE \/ \E burnt \in {{}} \cup {LogsOf(b.tx) : b \in Burn} : MineBlock(burnt)
           \/ \E n \in 0 .. MaxBlocks : Reorg(n)
           \/ UNCHANGED vars
  BY <1>4 DEF MineBlock, Reorg, vars, zebvix
<1>. QED BY <1>1, <1>2, <1>3, <1>4 DEF Next

\* Rows are taken up because they are recorded.
LEMMA BatchStep ==
  ASSUME TypeOK, AtWork, [Next]_vars
  PROVE  \A r \in batch' : r \in batch \/ (r \in Rows /\ Recorded(r.burn))
<1>. DEFINE Good == \A r \in batch' : r \in batch \/ (r \in Rows /\ Recorded(r.burn))
<1>1. ASSUME batch # {}, RowDone PROVE Good
  BY <1>1, RowDoneMoves
<1>2. EndTick => Good
  BY DEF EndTick
<1>3. ASSUME NEW st \in {"submitted", "pending"}, batch' = RowsIn(st) PROVE Good
  <2>1. ASSUME NEW r \in RowsIn(st) PROVE r \in Rows /\ Recorded(r.burn)
    <3>1. PICK b \in Burn : db[b].status = st /\ r = [burn |-> b, attempts |-> db[b].attempts]
      BY DEF RowsIn
    <3>2. db[b].attempts \in 0 .. GiveUp
      BY DEF TypeOK
    <3>. QED BY <3>1, <3>2 DEF Rows, Recorded
  <2>. QED BY <1>3, <2>1
<1>4. CASE Discover
  BY <1>4 DEF Discover, ReadHead, FetchBurns, AdvanceCursor, FetchDone
<1>5. CASE Confirm
  BY <1>3, <1>5 DEF Confirm, ListSubmitted, CheckClaim, Requeue
<1>6. CASE Process
  <2>1. ListPending => Good
    BY <1>2, <1>3 DEF ListPending
  <2>2. PreCheck => Good
    BY <1>1 DEF PreCheck, AtWork
  <2>. QED BY <1>1, <1>6, <2>1, <2>2
           DEF Process, ReadNonce, MarkSubmitted, Submit, SubmitRefused, RowFails, AtWork
<1>7. CASE Faults
  BY <1>1, <1>2, <1>7
     DEF Faults, FetchFails, NonceFails, Crash, CheckFails, SubmitFails, RowFails, Refuse, Drop, memory,
         AtWork
<1>8. CASE \/ \E burnt \in {{}} \cup {LogsOf(b.tx) : b \in Burn} : MineBlock(burnt)
           \/ \E n \in 0 .. MaxBlocks : Reorg(n)
           \/ \E t \in mempool : BridgeIn(t)
           \/ UNCHANGED vars
  BY <1>8 DEF MineBlock, Reorg, BridgeIn, vars, memory
<1>. QED BY <1>4, <1>5, <1>6, <1>7, <1>8 DEF Next

\* A new claim is for the row at hand.
LEMMA PoolStep ==
  ASSUME TypeOK, Genuine, AtWork, [Next]_vars
  PROVE  \A t \in mempool' : \/ t \in mempool
                             \/ t \in [nonce : Nat, burn : Burn] /\ t.burn \in Final
<1>. DEFINE Good == \A t \in mempool' : \/ t \in mempool
                                        \/ t \in [nonce : Nat, burn : Burn] /\ t.burn \in Final
<1>1. mempool' \subseteq mempool => Good
  OBVIOUS
<1>2. ASSUME pc = "send", mempool' = mempool \cup {Claim} PROVE Good
  <2>1. Row.burn \in Burn /\ Row.burn \in Final /\ nonce \in Nat
    BY <1>2, CurrentRow DEF AtWork, Genuine, TypeOK
  <2>. QED BY <1>2, <2>1 DEF Claim
<1>3. CASE Discover \/ Confirm
  BY <1>1, <1>3
     DEF Discover, ReadHead, FetchBurns, AdvanceCursor, FetchDone, Confirm, ListSubmitted, CheckClaim,
         Requeue, zebvix
<1>4. CASE Process \/ Faults
  BY <1>1, <1>2, <1>4
     DEF Process, ListPending, ReadNonce, MarkSubmitted, PreCheck, Submit, SubmitRefused, zebvix,
         Faults, FetchFails, NonceFails, Crash, CheckFails, SubmitFails, Refuse, Drop, Spend
<1>5. CASE \/ \E burnt \in {{}} \cup {LogsOf(b.tx) : b \in Burn} : MineBlock(burnt)
           \/ \E n \in 0 .. MaxBlocks : Reorg(n)
           \/ \E t \in mempool : BridgeIn(t)
           \/ UNCHANGED vars
  BY <1>1, <1>5 DEF MineBlock, Reorg, BridgeIn, Spend, vars, zebvix
<1>. QED BY <1>3, <1>4, <1>5 DEF Next

-----------------------------------------------------------------------------
(* Types. *)

Pcs   == {"idle", "fetch", "advance", "confirm", "check", "nonce", "submit", "send", "sent"}
Scans == [safe : Nat, to : Nat]

\* The variables that no lemma above speaks of.
RestOK ==
    /\ cursor \in Nat /\ nonce \in Nat /\ admin \in Nat /\ pc \in Pcs /\ scan \in Scans
    /\ locked \in Nat /\ balance \in [Account -> Nat]

\* The coins of a release leave the lock for the account of the burn, unless that is the
\* admin's.
LEMMA ReleasePays ==
  ASSUME TypeOK, NEW b \in Burn, locked >= b.amount, Release(b)
  PROVE  /\ released' = released \cup {b}
         /\ locked' = locked - b.amount /\ locked' \in Nat
         /\ balance' \in [Account -> Nat]
         /\ \A a \in Account \ {Admin} :
               balance'[a] = IF a = b.to THEN balance[a] + b.amount ELSE balance[a]
<1>1. PICK n \in Nat : n = b.amount
  BY BurnAssumption
<1>2. b.to \in Account /\ Admin \in Account /\ locked \in Nat /\ balance \in [Account -> Nat]
  BY BurnAssumption DEF TypeOK
<1>3. PICK m \in Nat : m = balance[b.to] + n
  BY <1>1, <1>2
<1>4. PICK credited : credited = [balance EXCEPT ![b.to] = m]
  OBVIOUS
<1>5. balance' = [credited EXCEPT ![Admin] = balance[Admin]]
  BY <1>1, <1>3, <1>4 DEF Release
<1>6. /\ credited \in [Account -> Nat]
      /\ \A a \in Account : credited[a] = IF a = b.to THEN m ELSE balance[a]
  BY <1>2, <1>4
<1>7. /\ balance' \in [Account -> Nat]
      /\ \A a \in Account \ {Admin} : balance'[a] = credited[a]
  BY <1>2, <1>5, <1>6
<1>8. released' = released \cup {b} /\ locked' = locked - n
  BY <1>1 DEF Release
<1>9. locked' \in Nat
  BY <1>1, <1>2, <1>8
<1>. QED BY <1>1, <1>3, <1>6, <1>7, <1>8, <1>9

LEMMA RestStep ==
  ASSUME TypeOK, Deep, AtWork, [Next]_vars
  PROVE  RestOK'
<1>1. RestOK
  BY DEF TypeOK, RestOK, Pcs, Scans
<1>2. NoScan \in Scans
  BY DEF NoScan, Scans
<1>3. EndTick => pc' \in Pcs /\ scan' \in Scans /\ nonce' \in Nat
  BY <1>2 DEF EndTick, Pcs
<1>4. ASSUME batch # {}, RowDone PROVE pc' \in Pcs /\ scan' \in Scans /\ nonce' \in Nat
  BY <1>1, <1>2, <1>4, RowDoneMoves DEF RestOK, Pcs
<1>5. ASSUME NEW t \in mempool, BridgeIn(t) PROVE RestOK'
  <2>1. t.burn \in Burn /\ t.burn.amount \in Nat /\ locked \in Nat
    BY BurnAssumption DEF TypeOK
  <2>2. locked' \in Nat /\ balance' \in [Account -> Nat]
    <3>1. CASE Claimed(t.burn.tx) \/ locked < t.burn.amount
      BY <1>1, <1>5, <3>1 DEF BridgeIn, RestOK
    <3>2. CASE ~(Claimed(t.burn.tx) \/ locked < t.burn.amount)
      BY <1>5, <2>1, <3>2, ReleasePays DEF BridgeIn
    <3>. QED BY <3>1, <3>2
  <2>3. admin' \in Nat
    BY <1>1, <1>5 DEF BridgeIn, Spend, RestOK
  <2>. QED BY <1>1, <1>5, <2>2, <2>3 DEF BridgeIn, RestOK, stored, memory
<1>6. ASSUME NEW t \in mempool, Refuse(t) \/ Drop(t) PROVE RestOK'
  BY <1>1, <1>6 DEF Refuse, Drop, Spend, RestOK, stored, memory
<1>7. ASSUME ReadHead PROVE RestOK'
  <2>1. PICK safe : safe = Len(blocks) - Confirmations
    OBVIOUS
  <2>2. safe \in Int
    BY <2>1, ReleaseBounds DEF TypeOK
  <2>3. scan' \in Scans /\ pc' \in Pcs
    <3>1. CASE safe < 0
      BY <1>1, <1>7, <2>1, <3>1 DEF ReadHead, RestOK, Pcs
    <3>2. CASE ~(safe < 0)
      <4>1. scan' = [NoScan EXCEPT !.safe = safe] /\ pc' = "fetch"
        BY <1>7, <2>1, <3>2 DEF ReadHead
      <4>. QED BY <2>2, <3>2, <4>1 DEF NoScan, Scans, Pcs
    <3>. QED BY <3>1, <3>2
  <2>. QED BY <1>1, <1>7, <2>3 DEF ReadHead, RestOK, stored, zebvix
<1>8. ASSUME FetchBurns PROVE RestOK'
  <2>1. PICK to : to = IF cursor + Chunk - 1 < scan.safe THEN cursor + Chunk - 1 ELSE scan.safe
    OBVIOUS
  <2>2. to \in Nat
    BY <1>1, <2>1, ReleaseBounds DEF RestOK, Scans
  <2>3. scan' = [scan EXCEPT !.to = to]
    BY <1>8, <2>1 DEF FetchBurns
  <2>4. scan' \in Scans
    BY <1>1, <2>2, <2>3 DEF RestOK, Scans
  <2>. QED BY <1>1, <1>8, <2>4 DEF FetchBurns, RestOK, zebvix, Pcs
<1>9. ASSUME AdvanceCursor PROVE RestOK'
  <2>1. cursor' \in Nat
    BY <1>1, <1>9 DEF AdvanceCursor, RestOK, Scans
  <2>. QED BY <1>1, <1>9, <2>1 DEF AdvanceCursor, RestOK, zebvix, Pcs
<1>10. ASSUME FetchDone PROVE RestOK'
  BY <1>1, <1>2, <1>10 DEF FetchDone, RestOK, stored, zebvix, Pcs
<1>11. CASE Confirm
  BY <1>1, <1>11
     DEF Confirm, ListSubmitted, CheckClaim, Requeue, RestOK, stored, zebvix, Pcs
<1>12. CASE Process
  <2>1. ListPending => RestOK'
    BY <1>1, <1>3 DEF ListPending, RestOK, stored, zebvix, Pcs
  <2>2. ReadNonce => RestOK'
    BY <1>1 DEF ReadNonce, RestOK, stored, zebvix, Pcs
  <2>3. MarkSubmitted => RestOK'
    BY <1>1, <1>4 DEF MarkSubmitted, RestOK, zebvix, AtWork
  <2>4. PreCheck => RestOK'
    BY <1>1, <1>4 DEF PreCheck, RestOK, zebvix, AtWork, Pcs
  <2>5. Submit => RestOK'
    BY <1>1 DEF Submit, RestOK, stored, Pcs
  <2>6. SubmitRefused => RestOK'
    BY <1>1, <1>4 DEF SubmitRefused, RowFails, RestOK, zebvix, AtWork
  <2>. QED BY <1>12, <2>1, <2>2, <2>3, <2>4, <2>5, <2>6 DEF Process
<1>13. CASE Faults
  <2>1. FetchFails \/ NonceFails \/ Crash => RestOK'
    BY <1>1, <1>3 DEF FetchFails, NonceFails, Crash, RestOK, stored, zebvix
  <2>2. CheckFails => RestOK'
    BY <1>1 DEF CheckFails, RestOK, stored, zebvix
  <2>3. SubmitFails => RestOK'
    BY <1>1, <1>4 DEF SubmitFails, RowFails, RestOK, AtWork
  <2>. QED BY <1>6, <1>13, <2>1, <2>2, <2>3 DEF Faults
<1>14. CASE \/ \E burnt \in {{}} \cup {LogsOf(b.tx) : b \in Burn} : MineBlock(burnt)
            \/ \E n \in 0 .. MaxBlocks : Reorg(n)
            \/ UNCHANGED vars
  BY <1>1, <1>14 DEF MineBlock, Reorg, RestOK, vars, stored, memory, zebvix
<1>. QED BY <1>5, <1>7, <1>8, <1>9, <1>10, <1>11, <1>12, <1>13, <1>14 DEF Next, Discover

\* Every step keeps the types.
LEMMA TypeStep ==
  ASSUME TypeOK, Shallow, Deep, Genuine, AtWork, [Next]_vars
  PROVE  TypeOK'
<1>1. blocks' \in Seq(SUBSET Burn) /\ Len(blocks') <= MaxBlocks /\ top' \in 0 .. MaxBlocks
  BY DeepStays
<1>2. db' \in [Burn -> DbRow] /\ RestOK'
  BY RowsStep, RestStep
<1>3. batch' \subseteq Rows
  BY BatchStep DEF TypeOK, Rows
<1>4. mempool' \subseteq [nonce : Nat, burn : Burn]
  BY PoolStep DEF TypeOK
<1>5. released' \subseteq Burn
  BY ReleasedStep, FinalStep DEF TypeOK
<1>. QED BY <1>1, <1>2, <1>3, <1>4, <1>5 DEF TypeOK, RestOK, Pcs, Scans, Rows, DbRow

-----------------------------------------------------------------------------
(* The invariant. *)

\* Rows, batch, claims and releases stay those of deep burns.
LEMMA GenuineStep ==
  ASSUME TypeOK, Shallow, Deep, Genuine, AtWork, [Next]_vars
  PROVE  Genuine'
<1>1. Final \subseteq Final'
  BY FinalStep
<1>2. \A b \in Burn : Recorded(b)' => b \in Final'
  BY <1>1, RowsStep DEF Genuine
<1>3. \A r \in batch' : Recorded(r.burn)'
  <2>1. \A r \in batch' : r.burn \in Burn /\ Recorded(r.burn)
    BY BatchStep DEF Genuine, TypeOK, Rows
  <2>. QED BY <2>1, RowsStep
<1>4. \A t \in mempool' : t.burn \in Final'
  BY <1>1, PoolStep DEF Genuine
<1>5. released' \subseteq Final'
  BY <1>1, ReleasedStep DEF Genuine
<1>. QED BY <1>2, <1>3, <1>4, <1>5 DEF Genuine

\* There is a row at hand after every step.
LEMMA AtWorkStep ==
  ASSUME TypeOK, AtWork, [Next]_vars
  PROVE  AtWork'
<1>1. ASSUME batch # {}, RowDone PROVE AtWork'
  BY <1>1, RowDoneMoves DEF AtWork
<1>2. EndTick => AtWork'
  BY DEF EndTick, AtWork
<1>3. CASE Discover \/ Confirm
  BY <1>3
     DEF Discover, ReadHead, FetchBurns, AdvanceCursor, FetchDone, Confirm, ListSubmitted, CheckClaim,
         Requeue, AtWork
<1>4. CASE Process
  <2>1. ListPending \/ ReadNonce \/ Submit => AtWork'
    BY <1>2 DEF ListPending, ReadNonce, Submit, AtWork
  <2>2. PreCheck \/ MarkSubmitted \/ SubmitRefused => AtWork'
    <3>1. PreCheck \/ MarkSubmitted \/ SubmitRefused => batch # {}
      BY DEF PreCheck, MarkSubmitted, SubmitRefused, AtWork
    <3>2. PreCheck => RowDone \/ (batch' = batch /\ pc' = "send")
      BY DEF PreCheck
    <3>3. MarkSubmitted \/ SubmitRefused => RowDone
      BY DEF MarkSubmitted, SubmitRefused, RowFails
    <3>. QED BY <1>1, <3>1, <3>2, <3>3 DEF AtWork
  <2>. QED BY <1>4, <2>1, <2>2 DEF Process
<1>5. CASE Faults
  <2>1. FetchFails \/ NonceFails \/ Crash \/ CheckFails => AtWork'
    BY <1>2 DEF FetchFails, NonceFails, Crash, CheckFails, AtWork
  <2>2. SubmitFails => batch # {} /\ RowDone
    BY DEF SubmitFails, RowFails, AtWork
  <2>3. (\E t \in mempool : Refuse(t) \/ Drop(t)) => AtWork'
    BY DEF Refuse, Drop, memory, AtWork
  <2>. QED BY <1>1, <1>5, <2>1, <2>2, <2>3 DEF Faults
<1>6. CASE \/ \E burnt \in {{}} \cup {LogsOf(b.tx) : b \in Burn} : MineBlock(burnt)
           \/ \E n \in 0 .. MaxBlocks : Reorg(n)
           \/ \E t \in mempool : BridgeIn(t)
           \/ UNCHANGED vars
  BY <1>6 DEF MineBlock, Reorg, BridgeIn, vars, memory, AtWork
<1>. QED BY <1>3, <1>4, <1>5, <1>6 DEF Next

\* Only the search for burns moves the cursor and reads blocks.
LEMMA SearchMoves ==
  ASSUME TypeOK, AtWork, [Next]_vars, ~Discover
  PROVE  UNCHANGED cursor /\ (UNCHANGED <<pc, scan>> \/ pc' \notin {"fetch", "advance"})
<1>1. ASSUME batch # {}, RowDone PROVE pc' \notin {"fetch", "advance"}
  BY <1>1, RowDoneMoves
<1>2. EndTick => pc' \notin {"fetch", "advance"}
  BY DEF EndTick
<1>3. CASE Confirm
  BY <1>3 DEF Confirm, ListSubmitted, CheckClaim, Requeue, stored
<1>4. CASE Process
  BY <1>1, <1>2, <1>4
     DEF Process, ListPending, ReadNonce, MarkSubmitted, PreCheck, Submit, SubmitRefused, RowFails,
         stored, AtWork
<1>5. CASE Faults
  BY <1>1, <1>2, <1>5
     DEF Faults, FetchFails, NonceFails, Crash, CheckFails, SubmitFails, RowFails, Refuse, Drop,
         stored, memory, AtWork
<1>6. CASE \/ \E burnt \in {{}} \cup {LogsOf(b.tx) : b \in Burn} : MineBlock(burnt)
           \/ \E n \in 0 .. MaxBlocks : Reorg(n)
           \/ \E t \in mempool : BridgeIn(t)
           \/ UNCHANGED vars
  BY <1>6 DEF MineBlock, Reorg, BridgeIn, vars, stored, memory
<1>. QED BY <1>3, <1>4, <1>5, <1>6 DEF Next

\* The search leaves BSC alone.
LEMMA SearchAlone ==
  ASSUME Discover
  PROVE  UNCHANGED ethereum
  BY DEF Discover, ReadHead, FetchBurns, AdvanceCursor, FetchDone

\* The chunk that a query reads.
LEMMA ChunkMoves ==
  ASSUME TypeOK, Deep, FetchBurns
  PROVE  /\ cursor <= scan'.to /\ scan'.to <= scan.safe /\ scan'.safe = scan.safe
         /\ scan'.to \in Nat /\ cursor' = cursor /\ pc' = "advance"
         /\ \A n \in cursor .. scan'.to : n \in DOMAIN blocks => \A b \in blocks[n] \cap Burn : Recorded(b)'
<1>1. PICK to : to = IF cursor + Chunk - 1 < scan.safe THEN cursor + Chunk - 1 ELSE scan.safe
  OBVIOUS
<1>2. PICK logs : logs = UNION {blocks[n] : n \in DOMAIN blocks \cap (cursor .. to)}
  OBVIOUS
<1>3. /\ db' = [b \in Burn |-> IF b \in logs /\ ~Recorded(b)
                               THEN [status |-> "pending", attempts |-> 0] ELSE db[b]]
      /\ scan' = [scan EXCEPT !.to = to] /\ cursor <= scan.safe /\ cursor' = cursor /\ pc' = "advance"
  BY <1>1, <1>2 DEF FetchBurns
<1>4. scan \in Scans /\ cursor \in Nat /\ Chunk \in Nat /\ Chunk > 0
  BY ReleaseBounds DEF TypeOK, Scans
<1>5. scan'.to = to /\ scan'.safe = scan.safe
  BY <1>3, <1>4 DEF Scans
<1>6. scan.safe \in Nat
  BY <1>4 DEF Scans
<1>7. cursor <= to /\ to <= scan.safe /\ to \in Nat
  BY <1>1, <1>3, <1>4, <1>6
<1>8. \A b \in logs \cap Burn : Recorded(b)'
  BY <1>3 DEF Recorded
<1>9. \A n \in cursor .. to : n \in DOMAIN blocks => blocks[n] \subseteq logs
  BY <1>2
<1>. QED BY <1>3, <1>5, <1>7, <1>8, <1>9

\* The watcher stays with deep blocks.
LEMMA DeepStep ==
  ASSUME TypeOK, Shallow, Deep, Genuine, AtWork, [Next]_vars
  PROVE  Deep'
<1>1. /\ cursor \in Nat /\ scan \in Scans /\ top \in Nat /\ top' \in Nat /\ top' >= top
      /\ Confirmations \in Nat /\ StartBlock \in Nat
  BY DeepStays, ReleaseBounds DEF TypeOK, Scans
<1>2. /\ cursor <= top - Confirmations + 1 => cursor <= top' - Confirmations + 1
      /\ scan.safe <= top - Confirmations => scan.safe <= top' - Confirmations
  <2>1. PICK u : u = top'
    OBVIOUS
  <2>2. u \in Nat /\ u >= top /\ scan.safe \in Nat
    BY <1>1, <2>1 DEF Scans
  <2>3. /\ cursor <= top - Confirmations + 1 => cursor <= u - Confirmations + 1
        /\ scan.safe <= top - Confirmations => scan.safe <= u - Confirmations
    BY <1>1, <2>2
  <2>. QED BY <2>1, <2>3
<1>3. CASE ~Discover
  <2>1. cursor' = cursor
    BY <1>3, SearchMoves
  <2>2. cursor' >= StartBlock
    BY <2>1 DEF Deep
  <2>3. cursor' > StartBlock => cursor' <= top' - Confirmations + 1
    <3>1. ASSUME cursor > StartBlock PROVE cursor <= top' - Confirmations + 1
      <4>1. cursor <= top - Confirmations + 1
        BY <3>1 DEF Deep
      <4>. QED BY <1>2, <4>1
    <3>. QED BY <2>1, <3>1
  <2>4. CASE UNCHANGED <<pc, scan>>
    <3>1. pc \in {"fetch", "advance"} => scan.safe <= top' - Confirmations
      <4>1. ASSUME pc \in {"fetch", "advance"} PROVE scan.safe <= top' - Confirmations
        <5>1. scan.safe <= top - Confirmations /\ scan.safe \in Nat
          BY <1>1, <4>1 DEF Deep, Scans
        <5>. QED BY <1>2, <5>1
      <4>. QED BY <4>1
    <3>. QED BY <2>1, <2>2, <2>3, <2>4, <3>1 DEF Deep
  <2>5. CASE pc' \notin {"fetch", "advance"}
    BY <2>2, <2>3, <2>5 DEF Deep
  <2>. QED BY <1>3, <2>4, <2>5, SearchMoves
<1>4. ASSUME Discover PROVE top' = top
  BY <1>4, SearchAlone DEF ethereum
<1>5. ASSUME ReadHead PROVE Deep'
  <2>1. top' = top /\ cursor' = cursor
    BY <1>4, <1>5 DEF Discover, ReadHead, stored
  <2>2. CASE pc' = "confirm"
    BY <2>1, <2>2 DEF Deep
  <2>3. CASE pc' # "confirm"
    <3>1. pc' = "fetch" /\ scan' = [NoScan EXCEPT !.safe = Len(blocks) - Confirmations]
      BY <1>5, <2>3 DEF ReadHead
    <3>2. scan'.safe = Len(blocks) - Confirmations
      BY <3>1 DEF NoScan
    <3>3. Len(blocks) <= top /\ Len(blocks) \in Nat
      BY DEF Shallow, TypeOK
    <3>4. scan'.safe <= top - Confirmations
      BY <1>1, <3>2, <3>3
    <3>. QED BY <2>1, <3>1, <3>4 DEF Deep
  <2>. QED BY <2>2, <2>3
<1>6. ASSUME FetchBurns PROVE Deep'
  <2>1. top' = top /\ pc = "fetch"
    BY <1>4, <1>6 DEF Discover, FetchBurns
  <2>. QED BY <1>6, <2>1, ChunkMoves DEF Deep
<1>7. ASSUME AdvanceCursor PROVE Deep'
  <2>1. top' = top /\ pc = "advance" /\ pc' = "fetch" /\ cursor' = scan.to + 1 /\ scan' = scan
    BY <1>4, <1>7 DEF Discover, AdvanceCursor
  <2>2. /\ cursor <= scan.to /\ scan.to <= scan.safe /\ scan.safe <= top - Confirmations
        /\ cursor >= StartBlock /\ scan.to \in Nat /\ scan.safe \in Nat
    BY <1>1, <2>1 DEF Deep, Scans
  <2>3. cursor' >= StartBlock /\ cursor' <= top - Confirmations + 1
    BY <1>1, <2>1, <2>2
  <2>. QED BY <2>1, <2>2, <2>3 DEF Deep
<1>8. ASSUME FetchDone PROVE Deep'
  <2>1. top' = top /\ cursor' = cursor /\ pc' = "confirm"
    BY <1>4, <1>8 DEF Discover, FetchDone, stored
  <2>. QED BY <2>1 DEF Deep
<1>. QED BY <1>3, <1>5, <1>6, <1>7, <1>8 DEF Discover

\* A block the watcher has passed, or is about to pass, is deep and stays as it is.
LEMMA PassedStays ==
  ASSUME TypeOK, Shallow, [Next]_vars,
         NEW n \in Nat, n >= StartBlock, n <= top - Confirmations
  PROVE  n \in 1 .. Len(blocks) /\ blocks'[n] = blocks[n] /\ blocks[n] \subseteq Burn
<1>1. n \in 1 .. top - Confirmations
  BY ReleaseBounds DEF TypeOK
<1>2. n \in 1 .. Len(blocks) /\ blocks'[n] = blocks[n]
  BY <1>1, DeepStays
<1>. QED BY <1>2, ElementOfSeq DEF TypeOK

\* The chunk that was read stays recorded.
LEMMA ChunkReadStep ==
  ASSUME TypeOK, Shallow, Deep, Genuine, AtWork, ChunkRead, [Next]_vars
  PROVE  ChunkRead'
<1>1. /\ cursor \in Nat /\ scan \in Scans /\ top \in Nat /\ StartBlock \in Nat /\ Confirmations \in Nat
  BY ReleaseBounds DEF TypeOK, Scans
<1>2. ASSUME pc' # "advance" PROVE ChunkRead'
  BY <1>2 DEF ChunkRead
<1>3. CASE ~Discover
  <2>1. CASE UNCHANGED <<pc, scan>> /\ pc = "advance"
    <3>1. cursor' = cursor
      BY <1>3, SearchMoves
    <3>2. ASSUME NEW n \in cursor .. scan.to, NEW b \in blocks'[n] PROVE Recorded(b)'
      <4>1. /\ cursor >= StartBlock /\ scan.to <= scan.safe /\ scan.safe <= top - Confirmations
            /\ scan.to \in Nat /\ scan.safe \in Nat
        BY <1>1, <2>1 DEF Deep, Scans
      <4>2. n \in Nat /\ n >= StartBlock /\ n <= top - Confirmations
        BY <1>1, <4>1
      <4>3. blocks'[n] = blocks[n] /\ blocks[n] \subseteq Burn
        BY <4>2, PassedStays
      <4>4. Recorded(b) /\ b \in Burn
        BY <2>1, <3>2, <4>3 DEF ChunkRead
      <4>. QED BY <4>4, RowsStep
    <3>. QED BY <2>1, <3>1, <3>2 DEF ChunkRead
  <2>. QED BY <1>2, <1>3, <2>1, SearchMoves
<1>4. ASSUME FetchBurns PROVE ChunkRead'
  <2>1. blocks' = blocks /\ pc = "fetch"
    BY <1>4, SearchAlone DEF ethereum, Discover, FetchBurns
  <2>2. ASSUME NEW n \in cursor .. scan'.to, NEW b \in blocks[n] PROVE Recorded(b)'
    <3>1. /\ cursor >= StartBlock /\ scan'.to <= scan.safe /\ scan.safe <= top - Confirmations
          /\ scan'.to \in Nat /\ scan.safe \in Nat
      BY <1>1, <1>4, <2>1, ChunkMoves DEF Deep, Scans
    <3>2. n \in Nat /\ n >= StartBlock /\ n <= top - Confirmations
      BY <1>1, <3>1
    <3>3. n \in DOMAIN blocks /\ blocks[n] \subseteq Burn
      BY <3>2, PassedStays DEF TypeOK
    <3>. QED BY <1>4, <2>2, <3>3, ChunkMoves
  <2>. QED BY <1>4, <2>1, <2>2, ChunkMoves DEF ChunkRead
<1>5. ReadHead \/ AdvanceCursor \/ FetchDone => pc' # "advance"
  BY DEF ReadHead, AdvanceCursor, FetchDone
<1>. QED BY <1>2, <1>3, <1>4, <1>5 DEF Discover

\* The cursor moves over a chunk that was read.
LEMMA SkippedStep ==
  ASSUME TypeOK, NoBurnSkipped, Shallow, Deep, Genuine, AtWork, ChunkRead, [Next]_vars
  PROVE  NoBurnSkipped'
<1>1. /\ cursor \in Nat /\ scan \in Scans /\ top \in Nat /\ StartBlock \in Nat /\ Confirmations \in Nat
      /\ Len(blocks) \in Nat
  BY ReleaseBounds DEF TypeOK, Scans
<1>2. ASSUME NEW n \in Nat, n >= StartBlock, n < cursor, NEW b \in blocks'[n] PROVE Recorded(b)'
  <2>1. cursor <= top - Confirmations + 1
    BY <1>1, <1>2 DEF Deep
  <2>2. n <= top - Confirmations
    BY <1>1, <1>2, <2>1
  <2>3. n \in 1 .. Len(blocks) /\ blocks'[n] = blocks[n] /\ blocks[n] \subseteq Burn
    BY <1>2, <2>2, PassedStays
  <2>4. n \in StartBlock .. Len(blocks)
    BY <1>1, <1>2, <2>3
  <2>5. Recorded(b) /\ b \in Burn
    BY <1>2, <2>3, <2>4 DEF NoBurnSkipped
  <2>. QED BY <2>5, RowsStep
<1>3. \A n \in StartBlock .. Len(blocks') : n \in Nat /\ n >= StartBlock
  <2>1. Len(blocks') \in Nat
    BY DeepStays
  <2>. QED BY <1>1, <2>1
<1>4. CASE cursor' = cursor
  BY <1>2, <1>3, <1>4 DEF NoBurnSkipped
<1>5. CASE cursor' # cursor
  <2>1. AdvanceCursor
    BY <1>5, SearchMoves DEF Discover, ReadHead, FetchBurns, FetchDone, stored
  <2>2. pc = "advance" /\ cursor' = scan.to + 1 /\ blocks' = blocks /\ db' = db /\ scan.to \in Nat
    BY <1>1, <2>1 DEF AdvanceCursor, ethereum, Scans
  <2>3. ASSUME NEW n \in Nat, n >= StartBlock, n < cursor', NEW b \in blocks'[n] PROVE Recorded(b)'
    <3>1. CASE n < cursor
      BY <1>2, <2>3, <3>1
    <3>2. CASE ~(n < cursor)
      <4>1. n \in cursor .. scan.to
        BY <1>1, <2>2, <2>3, <3>2
      <4>2. Recorded(b)
        BY <2>2, <2>3, <4>1 DEF ChunkRead
      <4>. QED BY <2>2, <4>2 DEF Recorded
    <3>. QED BY <3>1, <3>2
  <2>. QED BY <1>3, <2>3 DEF NoBurnSkipped
<1>. QED BY <1>4, <1>5

-----------------------------------------------------------------------------
(* The theorems. *)

LEMMA InitInv == Init => IInv
<1>. SUFFICES ASSUME Init PROVE IInv
  OBVIOUS
<1>. USE ReleaseBounds
<1>1. /\ blocks = <<>> /\ Len(blocks) = 0 /\ top = 0 /\ mempool = {} /\ batch = {} /\ released = {}
      /\ cursor = StartBlock /\ pc = "idle" /\ \A b \in Burn : ~Recorded(b)
  BY DEF Init, Recorded
<1>2. TypeOK
  <2>1. blocks \in Seq(SUBSET Burn) /\ Len(blocks) <= MaxBlocks /\ top \in 0 .. MaxBlocks
    BY <1>1, EmptySeq
  <2>2. db \in [Burn -> [status : Statuses, attempts : 0 .. GiveUp]]
    BY DEF Init, Statuses
  <2>3. /\ cursor \in Nat /\ nonce \in Nat /\ admin \in Nat /\ locked \in Nat
        /\ balance \in [Account -> Nat] /\ scan \in [safe : Nat, to : Nat]
    BY DEF Init, NoScan
  <2>. QED BY <1>1, <2>1, <2>2, <2>3 DEF TypeOK
<1>3. NoBurnSkipped
  BY <1>1 DEF NoBurnSkipped
<1>4. Shallow /\ Deep
  BY <1>1 DEF Shallow, Deep
<1>5. Genuine /\ AtWork /\ ChunkRead
  BY <1>1 DEF Genuine, AtWork, ChunkRead
<1>. QED BY <1>2, <1>3, <1>4, <1>5 DEF IInv

\* The inductive invariant.
LEMMA Invariance == Spec => []IInv
<1>1. IInv /\ [Next]_vars => IInv'
  BY TypeStep, SkippedStep, DeepStays, DeepStep, GenuineStep, AtWorkStep, ChunkReadStep DEF IInv
<1>. QED BY InitInv, <1>1, PTL DEF Spec

\* The cursor is a block that was read, and passes no burn, whatever is reorganised
\* between two reads and wherever the watcher is killed (discoverBurns).
THEOREM CursorIsTrue == Spec => []CursorTrue
<1>1. IInv => CursorTrue
  BY DEF IInv, CursorTrue
<1>. QED BY Invariance, <1>1, PTL

\* Releasing implements the transfer of burns in deep blocks, each once, whatever
\* was submitted twice (BridgeIn, processPending).
THEOREM ReleasesAreTransfers == Spec => ReleasesTransfers
<1>1. Init => Promise!Init
  <2>. SUFFICES ASSUME Init PROVE Promise!Init
    OBVIOUS
  <2>1. top - Confirmations < StartBlock /\ top - Confirmations \in Int /\ StartBlock \in Int
    BY ReleaseBounds DEF Init
  <2>2. StartBlock .. top - Confirmations = {}
    BY <2>1
  <2>3. Final = {}
    BY <2>2 DEF Final
  <2>. QED BY <2>3 DEF Init, Promise!Init
<1>2. IInv /\ [Next]_vars => [Promise!Next]_(Promise!vars)
  <2>. SUFFICES ASSUME IInv, [Next]_vars
                PROVE  Promise!Next \/ UNCHANGED Promise!vars
    OBVIOUS
  <2>1. TypeOK /\ Shallow /\ Genuine
    BY DEF IInv
  <2>2. Final \subseteq Final' /\ Final' \subseteq Burn /\ Final \subseteq Burn
    BY <2>1, FinalStep
  <2>3. CASE released' = released
    BY <2>2, <2>3 DEF Promise!Next, Promise!Send
  <2>4. CASE \E b \in Final : b \notin released /\ released' = released \cup {b} /\ UNCHANGED ethereum
    <3>1. PICK b \in Final : b \notin released /\ released' = released \cup {b} /\ UNCHANGED ethereum
      BY <2>4
    <3>2. Final' = Final
      BY <3>1 DEF Final, ethereum
    <3>. QED BY <2>2, <3>1, <3>2 DEF Promise!Next, Promise!Receive
  <2>. QED BY <2>1, <2>3, <2>4, ReleasedStep
<1>. QED BY <1>1, <1>2, Invariance, PTL DEF Spec, ReleasesTransfers, Promise!Spec

-----------------------------------------------------------------------------
(* The coins behind the burns. *)

\* What was released has left the locked coins, and BSC never burns more than was minted.
Backed ==
    /\ locked + Sum(released) = Locked
    /\ Sum(OnBsc) <= Locked

\* Sums over burns.
LEMMA BurnSums ==
  ASSUME NEW S \in SUBSET Burn
  PROVE  /\ IsFiniteSet(S) /\ Sum(S) \in Nat
         /\ \A T \in SUBSET S : /\ Sum(T) \in Nat /\ Sum(T) <= Sum(S)
                                /\ Sum(S) = Sum(T) + Sum(S \ T)
         /\ \A b \in Burn \ S : b.amount \in Nat /\ Sum(S \cup {b}) = Sum(S) + b.amount
<1> DEFINE F == [b \in Burn |-> b.amount]
<1>1. IsFiniteSet(S) /\ \A b \in Burn : b.amount \in Nat
  BY BurnAssumption, FS_Subset
<1>2. \A b \in Burn : F[b] = b.amount /\ F[b] \in Nat
  BY <1>1
<1> HIDE DEF F
<1>3. \A s : Sum(s) = SumFunctionOnSet(F, s)
  BY DEF Sum, F
<1>4. SumFunctionOnSet(F, S) \in Nat
  BY <1>1, <1>2, SumNat
<1>5. ASSUME NEW T \in SUBSET S
      PROVE  /\ SumFunctionOnSet(F, T) \in Nat /\ SumFunctionOnSet(F, T) <= SumFunctionOnSet(F, S)
             /\ SumFunctionOnSet(F, S) = SumFunctionOnSet(F, T) + SumFunctionOnSet(F, S \ T)
  <2>1. \A y \in S : F[y] \in Nat
    BY <1>2
  <2>2. /\ SumFunctionOnSet(F, S) = SumFunctionOnSet(F, T) + SumFunctionOnSet(F, S \ T)
        /\ SumFunctionOnSet(F, T) <= SumFunctionOnSet(F, S)
        /\ SumFunctionOnSet(F, T) \in Nat
    <3> USE <1>1, <2>1
    <3>. QED BY SumPart
  <2>. QED BY <2>2
<1>6. ASSUME NEW b \in Burn \ S
      PROVE  SumFunctionOnSet(F, S \cup {b}) = SumFunctionOnSet(F, S) + F[b]
  BY <1>1, <1>2, SumAdd
<1>. QED BY <1>1, <1>2, <1>3, <1>4, <1>5, <1>6

LEMMA AllBurns ==
  ASSUME NEW s \in Seq(SUBSET Burn)
  PROVE  UNION {s[n] : n \in DOMAIN s} \subseteq Burn
<1>1. \A n \in DOMAIN s : s[n] \in SUBSET Burn
  BY ElementOfSeq
<1>. QED BY <1>1

\* The burns of all blocks are burns; those of deep blocks are among them.
LEMMA OnBscBurns ==
  ASSUME TypeOK, Shallow
  PROVE  OnBsc \subseteq Burn /\ Final \subseteq OnBsc
<1>1. OnBsc \subseteq Burn
  BY AllBurns DEF TypeOK, OnBsc
<1>2. \A n \in StartBlock .. top - Confirmations : n \in DOMAIN blocks
  <2>1. /\ StartBlock \in Nat /\ StartBlock > 0 /\ Confirmations \in Nat /\ top \in Nat
        /\ Len(blocks) \in Nat /\ DOMAIN blocks = 1 .. Len(blocks)
    BY ReleaseBounds DEF TypeOK
  <2>. QED BY <2>1 DEF Shallow
<1>. QED BY <1>1, <1>2 DEF OnBsc, Final

\* New burns are of coins that were minted, and a reorganisation takes burns away.
LEMMA OnBscStep ==
  ASSUME TypeOK, [Next]_vars
  PROVE  OnBsc' \subseteq OnBsc \/ Sum(OnBsc') <= Locked
<1>1. CASE UNCHANGED blocks
  BY <1>1 DEF OnBsc
<1>2. ASSUME NEW burnt, MineBlock(burnt) PROVE Sum(OnBsc') <= Locked
  <2>1. blocks' = Append(blocks, burnt) /\ Sum(OnBsc \cup burnt) <= Locked
    BY <1>2 DEF MineBlock
  <2>2. OnBsc' = OnBsc \cup burnt
    <3>1. /\ DOMAIN blocks = 1 .. Len(blocks) /\ Len(blocks) \in Nat
          /\ DOMAIN blocks' = 1 .. Len(blocks) + 1 /\ blocks'[Len(blocks) + 1] = burnt
          /\ \A n \in 1 .. Len(blocks) : blocks'[n] = blocks[n]
      BY <2>1 DEF TypeOK
    <3>2. 1 .. Len(blocks) + 1 = (1 .. Len(blocks)) \cup {Len(blocks) + 1}
      BY <3>1
    <3>. QED BY <3>1, <3>2 DEF OnBsc
  <2>. QED BY <2>1, <2>2
<1>3. ASSUME NEW n \in 0 .. MaxBlocks, Reorg(n) PROVE OnBsc' \subseteq OnBsc
  <2>1. blocks' = SubSeq(blocks, 1, n) /\ n < Len(blocks) /\ n \in Nat /\ Len(blocks) \in Nat
    BY <1>3 DEF Reorg, TypeOK
  <2>2. \A i \in DOMAIN blocks' : i \in DOMAIN blocks /\ blocks'[i] = blocks[i]
    BY <2>1, SubSeqProperties DEF TypeOK
  <2>. QED BY <2>2 DEF OnBsc
<1>4. CASE \E t \in mempool : BridgeIn(t)
  BY <1>1, <1>4 DEF BridgeIn, ethereum
<1>5. CASE Discover \/ Confirm \/ Process
  BY <1>1, <1>5
     DEF Discover, ReadHead, FetchBurns, AdvanceCursor, FetchDone, Confirm, ListSubmitted, CheckClaim,
         Requeue, Process, ListPending, ReadNonce, MarkSubmitted, PreCheck, Submit, SubmitRefused, ethereum
<1>6. CASE Faults
  BY <1>1, <1>6 DEF Faults, FetchFails, NonceFails, Crash, CheckFails, SubmitFails, Refuse, Drop, ethereum
<1>7. CASE UNCHANGED vars
  BY <1>1, <1>7 DEF vars
<1>. QED BY <1>2, <1>3, <1>4, <1>5, <1>6, <1>7 DEF Next

\* Coins are unlocked for a burn that was not released, and only then, and go to its
\* account, unless that is the admin's.
Pays(b) ==
    \A a \in Account \ {Admin} :
        balance'[a] = IF a = b.to THEN balance[a] + b.amount ELSE balance[a]

LEMMA LockedStep ==
  ASSUME TypeOK, Genuine, [Next]_vars
  PROVE  \/ UNCHANGED <<locked, released, balance>>
         \/ \E b \in Final : /\ b \notin released /\ released' = released \cup {b}
                             /\ locked >= b.amount /\ locked' = locked - b.amount /\ Pays(b)
<1>1. ASSUME NEW t \in mempool, BridgeIn(t)
      PROVE  \/ UNCHANGED <<locked, released, balance>>
             \/ \E b \in Final : /\ b \notin released /\ released' = released \cup {b}
                                 /\ locked >= b.amount /\ locked' = locked - b.amount /\ Pays(b)
  <2>1. t.burn \in Final /\ t.burn \in Burn /\ t.burn.amount \in Nat /\ locked \in Nat
    BY BurnAssumption DEF Genuine, TypeOK
  <2>2. CASE Claimed(t.burn.tx) \/ locked < t.burn.amount
    BY <1>1, <2>2 DEF BridgeIn
  <2>3. CASE ~(Claimed(t.burn.tx) \/ locked < t.burn.amount)
    <3>1. t.burn \notin released /\ locked >= t.burn.amount
      BY <2>1, <2>3 DEF Claimed
    <3>2. Release(t.burn)
      BY <1>1, <2>3 DEF BridgeIn
    <3>3. released' = released \cup {t.burn} /\ locked' = locked - t.burn.amount /\ Pays(t.burn)
      BY <2>1, <3>1, <3>2, ReleasePays DEF Pays
    <3>. QED BY <2>1, <3>1, <3>3
  <2>. QED BY <2>2, <2>3
<1>2. CASE Discover \/ Confirm \/ Process
  BY <1>2
     DEF Discover, ReadHead, FetchBurns, AdvanceCursor, FetchDone, Confirm, ListSubmitted, CheckClaim,
         Requeue, Process, ListPending, ReadNonce, MarkSubmitted, PreCheck, Submit, SubmitRefused, zebvix
<1>3. CASE Faults
  BY <1>3 DEF Faults, FetchFails, NonceFails, Crash, CheckFails, SubmitFails, Refuse, Drop, zebvix
<1>4. CASE \/ \E burnt \in {{}} \cup {LogsOf(b.tx) : b \in Burn} : MineBlock(burnt)
           \/ \E n \in 0 .. MaxBlocks : Reorg(n)
           \/ UNCHANGED vars
  BY <1>4 DEF MineBlock, Reorg, vars, zebvix
<1>. QED BY <1>1, <1>2, <1>3, <1>4 DEF Next

LEMMA BackedInit == Init => Backed
<1> SUFFICES ASSUME Init PROVE Backed
  OBVIOUS
<1>1. OnBsc = {} /\ released = {} /\ locked = Locked /\ Locked \in Nat
  BY ReleaseBounds DEF Init, OnBsc
<1>2. Sum({}) = 0
  BY SumEmpty DEF Sum
<1>. QED BY <1>1, <1>2 DEF Backed

LEMMA BackedStep ==
  ASSUME IInv, IInv', Backed, [Next]_vars
  PROVE  Backed'
<1>1. OnBsc \subseteq Burn /\ OnBsc' \subseteq Burn /\ Final \subseteq Burn /\ released \subseteq Burn
      /\ Locked \in Nat /\ locked \in Nat
  <2>1. OnBsc' \subseteq Burn
    BY AllBurns DEF IInv, TypeOK, OnBsc
  <2>. QED BY <2>1, OnBscBurns, ReleaseBounds DEF IInv, TypeOK
<1>2. Sum(OnBsc') <= Locked
  <2>1. CASE OnBsc' \subseteq OnBsc
    <3>1. Sum(OnBsc') <= Sum(OnBsc) /\ Sum(OnBsc) \in Nat /\ Sum(OnBsc') \in Nat
      BY <1>1, <2>1, BurnSums
    <3>. QED BY <1>1, <3>1 DEF Backed
  <2>. QED BY <2>1, OnBscStep DEF IInv
<1>3. locked' + Sum(released') = Locked
  <2>1. CASE UNCHANGED <<locked, released>>
    BY <2>1 DEF Backed
  <2>2. CASE \E b \in Final : /\ b \notin released /\ released' = released \cup {b}
                              /\ locked >= b.amount /\ locked' = locked - b.amount
    <3>1. PICK b \in Final : /\ b \notin released /\ released' = released \cup {b}
                             /\ locked >= b.amount /\ locked' = locked - b.amount
      BY <2>2
    <3>2. Sum(released \cup {b}) = Sum(released) + b.amount /\ Sum(released) \in Nat /\ b.amount \in Nat
      <4>1. b \in Burn \ released
        BY <1>1, <3>1
      <4>. QED BY <1>1, <4>1, BurnSums
    <3>. QED BY <1>1, <3>1, <3>2 DEF Backed
  <2>. QED BY <2>1, <2>2, LockedStep DEF IInv
<1>. QED BY <1>2, <1>3 DEF Backed, Sum

\* The coins locked on Zebvix always cover the burns still to be released, whatever was
\* reorganised, submitted twice or refused: no burn waits for coins another one took
\* (BridgeIn).
THEOREM AlwaysSolvent == Spec => []Solvent
<1>1. IInv /\ Backed => Solvent
  <2> SUFFICES ASSUME IInv, Backed PROVE Solvent
    OBVIOUS
  <2>1. OnBsc \subseteq Burn /\ released \subseteq OnBsc
    BY OnBscBurns DEF IInv, Genuine
  <2>2. /\ Sum(OnBsc) = Sum(released) + Sum(OnBsc \ released) /\ Sum(OnBsc) \in Nat /\ Sum(released) \in Nat
        /\ Sum(OnBsc \ released) \in Nat
    <3>1. OnBsc \ released \in SUBSET OnBsc
      OBVIOUS
    <3>. QED BY <2>1, <3>1, BurnSums
  <2>3. locked \in Nat /\ Locked \in Nat
    BY ReleaseBounds DEF IInv, TypeOK
  <2>. QED BY <2>2, <2>3 DEF Backed, Solvent
<1>2. Init => Backed
  BY BackedInit
<1>3. IInv /\ IInv' /\ Backed /\ [Next]_vars => Backed'
  BY BackedStep
<1>. QED BY <1>1, <1>2, <1>3, Invariance, PTL DEF Spec

-----------------------------------------------------------------------------
(* What accounts get. *)

Got(a) == {b \in released : b.to = a}

\* A release adds its burn to what its account was to get, and its coins to what it has.
LEMMA PaidStep ==
  ASSUME TypeOK, TypeOK', Genuine, Final \subseteq Burn, [Next]_vars, NEW a \in Account \ {Admin},
         balance[a] = Sum(Got(a))
  PROVE  balance'[a] = Sum(Got(a)')
<1>1. CASE UNCHANGED <<locked, released, balance>>
  BY <1>1 DEF Got
<1>2. CASE \E b \in Final : /\ b \notin released /\ released' = released \cup {b}
                           /\ locked >= b.amount /\ locked' = locked - b.amount /\ Pays(b)
  <2>1. PICK b \in Burn : b \notin released /\ released' = released \cup {b} /\ Pays(b)
    BY <1>2
  <2>2. CASE a = b.to
    <3>1. Got(a)' = Got(a) \cup {b} /\ balance'[a] = balance[a] + b.amount
      BY <2>1, <2>2 DEF Got, Pays
    <3>2. Got(a) \in SUBSET Burn /\ b \in Burn \ Got(a)
      BY <2>1 DEF Got, TypeOK
    <3>3. Sum(Got(a) \cup {b}) = Sum(Got(a)) + b.amount
      BY <3>2, BurnSums
    <3>. QED BY <3>1, <3>3
  <2>3. CASE a # b.to
    <3>1. Got(a)' = Got(a) /\ balance'[a] = balance[a]
      BY <2>1, <2>3 DEF Got, Pays
    <3>. QED BY <3>1
  <2>. QED BY <2>2, <2>3
<1>. QED BY <1>1, <1>2, LockedStep

\* A user gets the coins of each burn to it that was released, once and in full, and
\* nothing else; and a row says confirmed only after a claim of its BSC transaction was
\* executed.  Nothing is assumed of the burns: several in one transaction, and burns to
\* the admin, are among them (confirmSubmitted, BridgeIn).
THEOREM ConfirmedAndPaid == Spec => []ConfirmedPays
<1> DEFINE Told == \A b \in Burn : db[b].status = "confirmed" => Claimed(b.tx)
           Books == \A a \in Account \ {Admin} : balance[a] = Sum(Got(a))
<1>1. Init => Told /\ Books
  <2> SUFFICES ASSUME Init PROVE Told /\ Books
    OBVIOUS
  <2>1. Told
    BY DEF Init
  <2>2. released = {} /\ \A a \in Account : balance[a] = 0
    BY DEF Init
  <2>3. Sum({}) = 0
    BY SumEmpty DEF Sum
  <2>4. \A a \in Account : Got(a) = {}
    BY <2>2 DEF Got
  <2>. QED BY <2>1, <2>2, <2>3, <2>4
<1>2. IInv /\ IInv' /\ Told /\ Books /\ [Next]_vars => Told' /\ Books'
  <2> SUFFICES ASSUME IInv, IInv', Told, Books, [Next]_vars PROVE Told' /\ Books'
    OBVIOUS
  <2>1. TypeOK /\ TypeOK' /\ Shallow /\ Deep /\ Genuine /\ AtWork
    BY DEF IInv
  <2>2. Told'
    <3>1. \A b \in Burn : db'[b].status = "confirmed" => db[b].status = "confirmed" \/ Claimed(b.tx)
      BY <2>1, RowsStep
    <3>2. released \subseteq released'
      BY <2>1, ReleasedStep
    <3>. QED BY <3>1, <3>2 DEF Claimed
  <2>3. Books'
    <3>1. Final \subseteq Burn
      BY <2>1, FinalStep
    <3>2. \A a \in Account \ {Admin} : balance'[a] = Sum(Got(a)')
      BY <2>1, <3>1, PaidStep
    <3>. QED BY <3>2 DEF Sum
  <2>. QED BY <2>2, <2>3
<1>3. IInv /\ Told /\ Books => ConfirmedPays
  <2> SUFFICES ASSUME IInv, Told, Books PROVE ConfirmedPays
    OBVIOUS
  <2>1. \A b \in Burn : Claimed(b.tx) => \E c \in LogsOf(b.tx) : c \in released
    BY DEF Claimed, LogsOf, IInv, TypeOK
  <2>. QED BY <2>1 DEF ConfirmedPays, Got
<1>. HIDE DEF Told, Books
<1>. QED BY <1>1, <1>2, <1>3, Invariance, PTL DEF Spec
=============================================================================
