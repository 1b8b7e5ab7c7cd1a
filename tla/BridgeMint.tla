----------------------------- MODULE BridgeMint -----------------------------
(* From the Zebvix chain to BSC: the events of locked coins, kept in a ring
   buffer, the relayer that finds and records them, the validators' signers that
   check each of them against the chain, and the contract that mints against a
   quorum of signatures.  The relayer runs one tick at a time; between two of its
   awaits the chain grows, transactions are mined and the process may be killed,
   which leaves what it has written to its database.

   The hash of a lock is its sequence number, which is as unique.  A payload
   stands for the recipient, the amount and the block height, which travel
   together.  Another asset's events share the buffer.  Honest signers sign for
   whoever asks, so what somebody else can mint at any time is what the honest
   signers would have signed (Signatories). *)
EXTENDS Integers, Sequences, FiniteSets

CONSTANTS
    Signers,      \* the validators whose signatures the contract accepts
    Faulty,       \* the signers who sign anything
    Threshold,    \* signatures a mint takes
    Payload,      \* recipient, amount and height of a lock
    Event,        \* the locks that may be made: of our asset or not, and a payload
    RecentCap,    \* events the chain returns to a poll (500)
    RingCap,      \* events the chain keeps (MAX_OUT_EVENTS, 4096)
    BatchCap,     \* rows a tick takes up (20)
    GiveUp,       \* status changes after which a failure is final (10)
    MaxOuts,      \* bound: locks
    MaxCrashes,   \* bound: kills of the relayer
    MaxFaults     \* bound: failed calls, useless answers, timeouts, lost transactions

ASSUME SignersAssumption ==
    /\ IsFiniteSet(Signers)
    /\ Faulty \subseteq Signers
    /\ Threshold \in Nat
    /\ Cardinality(Faulty) < Threshold
ASSUME EventAssumption == Event \subseteq [ours : BOOLEAN, data : Payload]
ASSUME BridgeBounds ==
    /\ RecentCap \in Nat \ {0}
    /\ RingCap \in Nat \ {0}
    /\ RecentCap <= RingCap
    /\ BatchCap \in Nat \ {0}
    /\ GiveUp \in Nat
    /\ MaxOuts \in Nat
    /\ MaxCrashes \in Nat
    /\ MaxFaults \in Nat

VARIABLES
    outs,      \* the chain: every BridgeOut event so far
    db,        \* the relayer's database: a row per event
    cursor,    \* and the highest sequence number it has seen
    pc,        \* where the tick is
    todo,      \* the polled events still to be recorded
    scan,      \* what the poll said, and the gap it leaves
    batch,     \* the rows this tick works on, as it read them
    call,      \* the mint under way: answers, transaction, receipt
    mempool,   \* BSC: mint transactions not mined yet
    minted,    \* BSC: the requests that were minted
    crashes, faults

chain  == outs
stored == <<db, cursor>>
memory == <<pc, todo, scan, batch, call>>
bsc    == <<mempool, minted>>
bounds == <<crashes, faults>>
vars   == <<outs, db, cursor, pc, todo, scan, batch, call, mempool, minted, crashes, faults>>

Seqs    == 0 .. MaxOuts - 1
Request == [src : Seqs, data : Payload]
Statuses == {"none", "pending", "signing", "confirmed", "failed"}
Row     == [status : Statuses, attempts : Nat]

At(s)         == outs[s + 1]
Emitted(s)    == s < Len(outs)
OurLock(s)    == Emitted(s) /\ At(s).ours
Kept(s)       == Emitted(s) /\ s >= Len(outs) - RingCap
RequestFor(s) == [src |-> s, data |-> At(s).data]
Recorded(s)   == db[s].status # "none"
Consumed      == {r.src : r \in minted}

-----------------------------------------------------------------------------
(* The chain. *)

BridgeOut(e) ==
    /\ Len(outs) < MaxOuts
    /\ outs' = Append(outs, e)
    /\ UNCHANGED <<stored, memory, bsc, bounds>>

\* A signer looks for the lock among the recent events, and compares all of it.
Verified(req) ==
    /\ Emitted(req.src) /\ req.src >= Len(outs) - RecentCap
    /\ At(req.src).ours
    /\ At(req.src).data = req.data

\* Mutant: a signer compares the sequence number alone.
SignatoriesUnchecked(req) == Faulty \cup IF OurLock(req.src) THEN Signers ELSE {}

\* Whose signatures on a request can be had: a lock is recent when it is made.
Signatories(req) ==
    Faulty \cup IF OurLock(req.src) /\ At(req.src).data = req.data THEN Signers ELSE {}

-----------------------------------------------------------------------------
(* The contract. *)

Accepts(req, sigs) == req.src \notin Consumed /\ Cardinality(sigs) >= Threshold

AnyoneMints(req) ==
    /\ Accepts(req, Signatories(req))
    /\ minted' = minted \cup {req}
    /\ UNCHANGED <<chain, stored, memory, mempool, bounds>>

Mine(tx) ==
    /\ tx \in mempool
    /\ mempool' = mempool \ {tx}
    /\ LET ok == Accepts(tx.req, tx.sigs)
       IN /\ minted' = IF ok THEN minted \cup {tx.req} ELSE minted
          /\ call' = IF pc = "confirm" /\ call.tx = tx
                     THEN [call EXCEPT !.receipt = IF ok THEN "ok" ELSE "revert"] ELSE call
    /\ UNCHANGED <<chain, stored, pc, todo, scan, batch, bounds>>

-----------------------------------------------------------------------------
(* The relayer's memory and database. *)

NoScan == [low |-> 0, total |-> 0, seen |-> -1, next |-> 0]
NoCall == [waiting |-> {}, sigs |-> {}, bad |-> {}, tx |-> <<>>, receipt |-> "none"]

Init ==
    /\ outs = <<>>
    /\ db = [s \in Seqs |-> [status |-> "none", attempts |-> 0]] /\ cursor = 0
    /\ pc = "idle" /\ todo = <<>> /\ scan = NoScan /\ batch = {} /\ call = NoCall
    /\ mempool = {} /\ minted = {}
    /\ crashes = 0 /\ faults = 0

\* recordZebvixEvent: the first insert stays, and other assets are filtered out.
Insert(s) ==
    IF At(s).ours /\ ~Recorded(s)
    THEN [db EXCEPT ![s] = [status |-> "pending", attempts |-> 0]] ELSE db

\* setZebvixEventStatus: every change of status counts as an attempt.
SetStatus(s, st) == [db EXCEPT ![s] = [status |-> st, attempts |-> @.attempts + 1]]

Fault == faults < MaxFaults /\ faults' = faults + 1
NoFault == UNCHANGED faults

\* finally: the tick is over and its variables with it.
EndTick == pc' = "idle" /\ todo' = <<>> /\ scan' = NoScan /\ batch' = {} /\ call' = NoCall

-----------------------------------------------------------------------------
(* discoverNewEvents *)

\* The newest events, newest first, and their total; a failed call ends the tick.
PollRecent ==
    /\ pc = "idle"
    /\ LET low == IF Len(outs) > RecentCap THEN Len(outs) - RecentCap ELSE 0
       IN /\ todo' = [i \in 1 .. Len(outs) - low |-> Len(outs) - i]
          /\ scan' = [NoScan EXCEPT !.low = low, !.total = Len(outs)]
    /\ pc' = "ingest"
    /\ UNCHANGED <<chain, stored, batch, call, bsc, bounds>>

IngestEvent ==
    /\ pc = "ingest" /\ todo # <<>>
    /\ db' = Insert(Head(todo))
    /\ todo' = Tail(todo)
    /\ UNCHANGED <<chain, cursor, pc, scan, batch, call, bsc, bounds>>

\* The cursor 0 of a fresh database means that nothing was seen; it is told from
\* a cursor on event 0 by the rows, which the loop above has just inserted.
HaveAny == cursor > 0 \/ \E s \in Seqs : Recorded(s)

FindGap ==
    /\ pc = "ingest" /\ todo = <<>>
    /\ LET seen   == IF HaveAny THEN cursor ELSE -1
           oldest == IF scan.total > RingCap THEN scan.total - RingCap ELSE 0
           from   == IF seen + 1 < oldest THEN oldest ELSE seen + 1
       IN IF scan.total = 0 THEN pc' = "list" /\ UNCHANGED scan
          ELSE /\ scan' = [scan EXCEPT !.seen = seen, !.next = from]
               /\ pc' = IF from < scan.low THEN "backfill" ELSE "advance"
    /\ UNCHANGED <<chain, stored, todo, batch, call, bsc, bounds>>

\* An event evicted in the meantime is given up.
Backfill ==
    /\ pc = "backfill"
    /\ db' = IF Kept(scan.next) THEN Insert(scan.next) ELSE db
    /\ scan' = [scan EXCEPT !.next = @ + 1]
    /\ pc' = IF scan.next + 1 < scan.low THEN "backfill" ELSE "advance"
    /\ UNCHANGED <<chain, cursor, todo, batch, call, bsc, bounds>>

\* Mutant: the cursor advances over what the failed call did not read.
BackfillSkips ==
    /\ pc = "backfill" /\ Fault
    /\ pc' = "advance"
    /\ UNCHANGED <<chain, stored, todo, scan, batch, call, bsc, crashes>>

\* A failed call leaves the cursor where it is and goes on to the pending rows.
BackfillFails ==
    /\ pc = "backfill" /\ Fault
    /\ pc' = "list" /\ scan' = NoScan
    /\ UNCHANGED <<chain, stored, todo, batch, call, bsc, crashes>>

AdvanceCursor ==
    /\ pc = "advance"
    /\ cursor' = IF scan.total - 1 > scan.seen THEN scan.total - 1 ELSE cursor
    /\ pc' = "list" /\ scan' = NoScan
    /\ UNCHANGED <<chain, db, todo, batch, call, bsc, bounds>>

-----------------------------------------------------------------------------
(* processPending *)

\* Mutant: a row whose tick died while signing is not taken up again.
OpenPending(s) == db[s].status = "pending"

Open(s) == db[s].status \in {"pending", "signing"}

\* The oldest open rows, a batch of them.
OpenRows ==
    LET open == {s \in Seqs : Open(s)}
        due  == {s \in open : Cardinality({t \in open : t < s}) < BatchCap}
    IN {[seq |-> s, attempts |-> db[s].attempts] : s \in due}

ListPending ==
    /\ pc = "list"
    /\ IF OpenRows = {} THEN EndTick
       ELSE pc' = "check" /\ batch' = OpenRows /\ UNCHANGED <<todo, scan, call>>
    /\ UNCHANGED <<chain, stored, bsc, bounds>>

\* The threshold cannot be read: processPending throws.
ListFails ==
    /\ pc = "list" /\ OpenRows # {} /\ Fault
    /\ EndTick
    /\ UNCHANGED <<chain, stored, bsc, crashes>>

\* Rows are taken in the order of their sequence numbers.
Current == CHOOSE r \in batch : \A q \in batch : r.seq <= q.seq

NextRow ==
    IF batch = {Current} THEN EndTick
    ELSE pc' = "check" /\ batch' = batch \ {Current} /\ call' = NoCall /\ UNCHANGED <<todo, scan>>

\* The catch of a row: its attempts are those the row was read with.
RowFails ==
    /\ db' = SetStatus(Current.seq, IF Current.attempts >= GiveUp THEN "failed" ELSE "pending")
    /\ NextRow
    /\ UNCHANGED <<chain, cursor, bsc, crashes>>

CheckConsumed ==
    /\ pc = "check"
    /\ IF Current.seq \in Consumed
       THEN db' = SetStatus(Current.seq, "confirmed") /\ NextRow
       ELSE /\ db' = SetStatus(Current.seq, "signing")
            /\ pc' = "collect" /\ call' = [NoCall EXCEPT !.waiting = Signers]
            /\ UNCHANGED <<todo, scan, batch>>
    /\ UNCHANGED <<chain, cursor, bsc, bounds>>

CheckFails == pc = "check" /\ Fault /\ RowFails

\* Every signer is asked at once; each looks at the chain when it gets to it.
Answered(v, c) ==
    call' = [c EXCEPT !.waiting = @ \ {v}] /\ UNCHANGED <<chain, stored, pc, todo, scan, batch, bsc, crashes>>

SignMint(v) ==
    /\ pc = "collect" /\ v \in call.waiting
    /\ Answered(v, IF v \in Faulty \/ Verified(RequestFor(Current.seq))
                   THEN [call EXCEPT !.sigs = @ \cup {v}] ELSE call)
    /\ NoFault

\* No answer; or, from a faulty signer, a signature that is none, under any name.
SignerFails(v) ==
    /\ pc = "collect" /\ v \in call.waiting /\ Fault
    /\ \/ Answered(v, call)
       \/ /\ v \in Faulty
          /\ \E w \in Signers :
                Answered(v, [call EXCEPT !.sigs = @ \cup {w}, !.bad = @ \cup {w}])

\* Any of the signatures that were collected, as many as it takes.
Chosen == {sigs \in SUBSET call.sigs : Cardinality(sigs) = Threshold}
Sendable(sigs) == sigs \cap call.bad = {} /\ Accepts(RequestFor(Current.seq), sigs)

\* The call is simulated before it is sent, so what would revert now is not sent.
SubmitMint ==
    /\ pc = "collect" /\ call.waiting = {}
    /\ \E sigs \in Chosen :
          /\ Sendable(sigs)
          /\ LET tx == [req |-> RequestFor(Current.seq), sigs |-> sigs, try |-> db[Current.seq].attempts]
             IN /\ mempool' = mempool \cup {tx}
                /\ call' = [call EXCEPT !.tx = tx]
    /\ pc' = "confirm"
    /\ UNCHANGED <<chain, stored, todo, scan, batch, minted, bounds>>

SubmitRefused ==
    /\ pc = "collect" /\ call.waiting = {}
    /\ Chosen = {} \/ \E sigs \in Chosen : ~Sendable(sigs)
    /\ RowFails /\ NoFault

\* Mutant: what was sent counts as mined.
ReceiptOfSent ==
    /\ pc = "confirm"
    /\ db' = SetStatus(Current.seq, "confirmed")
    /\ NextRow
    /\ UNCHANGED <<chain, cursor, bsc, bounds>>

Receipt ==
    /\ pc = "confirm" /\ call.receipt = "ok"
    /\ db' = SetStatus(Current.seq, "confirmed")
    /\ NextRow
    /\ UNCHANGED <<chain, cursor, bsc, bounds>>

Reverted == pc = "confirm" /\ call.receipt = "revert" /\ RowFails /\ NoFault

\* The relayer stops waiting; the transaction stays where it is.
ConfirmTimeout == pc = "confirm" /\ Fault /\ RowFails

\* It was lost: the wait is bound to end.
LostTimeout ==
    /\ pc = "confirm" /\ call.receipt = "none" /\ call.tx \notin mempool
    /\ RowFails /\ NoFault

LoseMint(tx) ==
    /\ tx \in mempool /\ Fault
    /\ mempool' = mempool \ {tx}
    /\ UNCHANGED <<chain, stored, memory, minted, crashes>>

Crash ==
    /\ crashes < MaxCrashes /\ crashes' = crashes + 1
    /\ pc # "idle"
    /\ EndTick
    /\ UNCHANGED <<chain, stored, bsc, faults>>

-----------------------------------------------------------------------------
Discover == PollRecent \/ IngestEvent \/ FindGap \/ Backfill \/ AdvanceCursor
Process  == \/ ListPending \/ CheckConsumed \/ SubmitMint \/ SubmitRefused
            \/ Receipt \/ Reverted \/ LostTimeout \/ \E v \in Signers : SignMint(v)
Faults   == \/ BackfillFails \/ ListFails \/ CheckFails \/ ConfirmTimeout \/ Crash
            \/ \E v \in Signers : SignerFails(v)
            \/ \E tx \in mempool : LoseMint(tx)

Next ==
    \/ \E e \in Event : BridgeOut(e)
    \/ \E req \in Request : AnyoneMints(req)
    \/ \E tx \in mempool : Mine(tx)
    \/ Discover \/ Process \/ Faults

Spec == Init /\ [][Next]_vars

\* The poll timer restarts an idle relayer, its calls answer or time out, and
\* miners take what is in the pool.
FairSpec == Spec /\ WF_vars(Discover \/ Process) /\ WF_vars(\E tx \in mempool : Mine(tx))

-----------------------------------------------------------------------------
TxOf == [req : Request, sigs : SUBSET Signers, try : Nat]

\* The variables keep their types: one row per event, a call per tick.
TypeOK ==
    /\ outs \in Seq(Event) /\ Len(outs) <= MaxOuts
    /\ db \in [Seqs -> Row]
    /\ cursor \in Nat
    /\ pc \in {"idle", "ingest", "backfill", "advance", "list", "check", "collect", "confirm"}
    /\ todo \in Seq(Seqs)
    /\ scan \in [low : Nat, total : Nat, seen : Int, next : Int]
    /\ batch \subseteq [seq : Seqs, attempts : Nat]
    /\ call \in [waiting : SUBSET Signers, sigs : SUBSET Signers, bad : SUBSET Signers,
                 tx : TxOf \cup {<<>>}, receipt : {"none", "ok", "revert"}]
    /\ mempool \subseteq TxOf
    /\ minted \subseteq Request
    /\ crashes \in 0 .. MaxCrashes /\ faults \in 0 .. MaxFaults

\* Whatever the relayer, the faulty signers or anyone else submit, and however
\* often: what is minted on BSC was locked on Zebvix, with this recipient and
\* amount, and is minted once (verifyAgainstZebvix, mintFromZebvix).
Promise == INSTANCE Transfers WITH
    Transfer <- Request,
    sent     <- {RequestFor(s) : s \in {x \in Seqs : OurLock(x)}},
    received <- minted
ImplementsTransfers == Promise!Spec

\* A row closed as confirmed was minted, although the relayer may have stopped
\* waiting, crashed, or sent a second transaction (processPending).
ConfirmedIsMinted ==
    \A s \in Seqs : db[s].status = "confirmed" => s \in Consumed

\* The relayer database (db.ts): its rows are well formed, and one that says confirmed
\* tells of a mint that happened.
RowsTrue == TypeOK /\ ConfirmedIsMinted

\* The cursor never passes an event of ours that the relayer has not recorded and
\* could still read, but for event 0: polls, backfills, failures and crashes in
\* any order (discoverNewEvents).
GapsClosed ==
    \A s \in 1 .. MaxOuts - 1 : OurLock(s) /\ Kept(s) /\ s <= cursor => Recorded(s)

\* A recorded lock is minted in the end, through crashes, timeouts and useless
\* answers, unless it grows too old for the signers first (processPending).
InSignersReach(s) == s >= Len(outs) - RecentCap
Delivered ==
    \A s \in Seqs : Recorded(s) ~> (s \in Consumed \/ ~InSignersReach(s))
=============================================================================
