--------------------------- MODULE BridgeRelease ---------------------------
(* From BSC back to the Zebvix chain: burns in the blocks of BSC, which may be
   reorganised near the head; the watcher that records them once they are deep
   enough and submits a claim for each, as the bridge's admin account; and the
   chain that releases the locked coins.  The watcher runs one tick at a time and
   may be killed between two of its awaits.

   A burn is a log of a BSC transaction, and names the account that is to have the
   coins; transactions are numbered in the order of burnSeq.  Of an account only the
   coins it has by the bridge are kept.  The limit of a list (20 or 50 rows) is above
   the number of burns here, and the admin can always pay the fee. *)
EXTENDS Integers, Sequences, FiniteSets, Functions

CONSTANTS
    Account,        \* accounts of Zebvix
    Admin,          \* the bridge's, which sends the claims
    Burn,           \* what may be burnt: records [tx, log, amount, to]
    Locked,         \* coins locked on Zebvix, and minted on BSC, at the start
    StartBlock,     \* BSC_START_BLOCK
    Confirmations,  \* BSC_BURN_CONFIRMATIONS
    Chunk,          \* blocks per query (CHUNK)
    GiveUp,         \* status changes after which a failure is final (10)
    MaxBlocks,      \* bound: blocks of BSC
    MaxReorgs,      \* bound: reorganisations
    MaxCrashes,     \* bound: kills of the relayer
    MaxFaults       \* bound: failed calls, refused claims and lost transactions

ASSUME BurnAssumption ==
    /\ Burn \subseteq [tx : Nat, log : Nat, amount : Nat \ {0}, to : Account]
    /\ IsFiniteSet(Burn) /\ Admin \in Account
    /\ \A b, c \in Burn : b.tx = c.tx /\ b.log = c.log => b = c
ASSUME ReleaseBounds ==
    /\ Locked \in Nat /\ StartBlock \in Nat \ {0} /\ Confirmations \in Nat \ {0}
    /\ Chunk \in Nat \ {0} /\ GiveUp \in Nat /\ MaxBlocks \in Nat
    /\ MaxReorgs \in Nat /\ MaxCrashes \in Nat /\ MaxFaults \in Nat

VARIABLES
    blocks,    \* BSC: the burns of each block
    top,       \* the longest BSC has been
    db,        \* the relayer's database: a row per burn
    cursor,    \* and the next block to look at
    pc,        \* where the tick is
    scan,      \* the blocks it reads: safe head, end of the chunk
    batch,     \* the rows it works on, with the attempts they were read with
    nonce,     \* the next nonce it uses
    admin,     \* Zebvix: the nonce of the admin account
    mempool,   \* Zebvix: claims not applied yet
    locked,    \* Zebvix: coins still locked
    released,  \* Zebvix: the burns whose claim was executed
    balance,   \* Zebvix: what each account got
    reorgs, crashes, faults

ethereum == <<blocks, top>>
stored   == <<db, cursor>>
memory   == <<pc, scan, batch, nonce>>
zebvix   == <<admin, mempool, locked, released, balance>>
bounds   == <<reorgs, crashes, faults>>
vars     == <<blocks, top, db, cursor, pc, scan, batch, nonce, admin, mempool, locked, released,
              balance, reorgs, crashes, faults>>

Statuses == {"none", "pending", "submitted", "confirmed", "failed"}
Sum(S)   == SumFunctionOnSet([b \in Burn |-> b.amount], S)
OnBsc    == UNION {blocks[n] : n \in DOMAIN blocks}
Final    == UNION {blocks[n] : n \in StartBlock .. top - Confirmations}
Recorded(b) == db[b].status # "none"
Claimed(tx) == \E b \in released : b.tx = tx

Fault   == faults < MaxFaults /\ faults' = faults + 1
NoFault == UNCHANGED faults

-----------------------------------------------------------------------------
(* BSC: a transaction burns what is left of the minted coins. *)

LogsOf(tx) == {b \in Burn : b.tx = tx}

MineBlock(burnt) ==
    /\ Len(blocks) < MaxBlocks
    /\ burnt \cap OnBsc = {}
    /\ \A b \in burnt : {c \in Burn : c.tx < b.tx} \subseteq OnBsc
    /\ Sum(OnBsc \cup burnt) <= Locked
    /\ blocks' = Append(blocks, burnt)
    /\ top' = IF Len(blocks') > top THEN Len(blocks') ELSE top
    /\ UNCHANGED <<stored, memory, zebvix, bounds>>

\* A block may be undone until it is Confirmations deep.
Reorg(n) ==
    /\ reorgs < MaxReorgs /\ reorgs' = reorgs + 1
    /\ n < Len(blocks) /\ n >= top - Confirmations
    /\ blocks' = SubSeq(blocks, 1, n)
    /\ UNCHANGED <<top, stored, memory, zebvix, crashes, faults>>

-----------------------------------------------------------------------------
(* Zebvix: a claim is applied when its nonce is due, and spends it whether the
   coins are released or the claim is refused. *)

Due(t) == t \in mempool /\ t.nonce = admin
Spend(t) == admin' = admin + 1 /\ mempool' = mempool \ {t}

\* The recipient is credited; the row of the admin, as it was read before, is written
\* last.
Release(b) ==
    LET credited == [balance EXCEPT ![b.to] = @ + b.amount]
    IN /\ locked' = locked - b.amount
       /\ released' = released \cup {b}
       /\ balance' = [credited EXCEPT ![Admin] = balance[Admin]]

\* Mutant: the claim is not looked up.
BridgeInAgain(t) ==
    /\ Due(t) /\ Spend(t)
    /\ IF locked < t.burn.amount
       THEN UNCHANGED <<locked, released, balance>>
       ELSE Release(t.burn)
    /\ UNCHANGED <<ethereum, stored, memory, bounds>>

BridgeIn(t) ==
    /\ Due(t) /\ Spend(t)
    /\ IF Claimed(t.burn.tx) \/ locked < t.burn.amount
       THEN UNCHANGED <<locked, released, balance>>
       ELSE Release(t.burn)
    /\ UNCHANGED <<ethereum, stored, memory, bounds>>

\* The bridge is paused, or the asset disabled, at that moment.
Refuse(t) ==
    /\ Due(t) /\ Spend(t) /\ Fault
    /\ UNCHANGED <<ethereum, stored, memory, locked, released, balance, reorgs, crashes>>

\* Evicted, or of a nonce that is spent.
Drop(t) ==
    /\ t \in mempool /\ mempool' = mempool \ {t}
    /\ IF t.nonce < admin THEN NoFault ELSE Fault
    /\ UNCHANGED <<ethereum, stored, memory, admin, locked, released, balance, reorgs, crashes>>

-----------------------------------------------------------------------------
NoScan == [safe |-> 0, to |-> 0]

Init ==
    /\ blocks = <<>> /\ top = 0
    /\ db = [b \in Burn |-> [status |-> "none", attempts |-> 0]] /\ cursor = StartBlock
    /\ pc = "idle" /\ scan = NoScan /\ batch = {} /\ nonce = 0
    /\ admin = 0 /\ mempool = {} /\ locked = Locked /\ released = {}
    /\ balance = [a \in Account |-> 0]
    /\ reorgs = 0 /\ crashes = 0 /\ faults = 0

\* Attempts are compared with GiveUp alone.
SetStatus(b, st) ==
    [db EXCEPT ![b] = [status |-> st, attempts |-> IF @.attempts < GiveUp THEN @.attempts + 1 ELSE GiveUp]]

EndTick == pc' = "idle" /\ scan' = NoScan /\ batch' = {} /\ nonce' = 0

-----------------------------------------------------------------------------
(* discoverBurns *)

\* Mutant: the head is taken for safe.
ReadHeadUnsafe ==
    /\ pc = "idle"
    /\ pc' = "fetch" /\ scan' = [NoScan EXCEPT !.safe = Len(blocks)]
    /\ UNCHANGED <<ethereum, stored, batch, nonce, zebvix, bounds>>

ReadHead ==
    /\ pc = "idle"
    /\ LET safe == Len(blocks) - Confirmations
       IN IF safe < 0 THEN pc' = "confirm" /\ UNCHANGED scan
          ELSE pc' = "fetch" /\ scan' = [NoScan EXCEPT !.safe = safe]
    /\ UNCHANGED <<ethereum, stored, batch, nonce, zebvix, bounds>>

\* The logs of a chunk; those a reorganisation took away are not there.
FetchBurns ==
    /\ pc = "fetch" /\ cursor <= scan.safe
    /\ LET to   == IF cursor + Chunk - 1 < scan.safe THEN cursor + Chunk - 1 ELSE scan.safe
           logs == UNION {blocks[n] : n \in DOMAIN blocks \cap (cursor .. to)}
       IN /\ db' = [b \in Burn |-> IF b \in logs /\ ~Recorded(b)
                                   THEN [status |-> "pending", attempts |-> 0] ELSE db[b]]
          /\ scan' = [scan EXCEPT !.to = to]
    /\ pc' = "advance"
    /\ UNCHANGED <<ethereum, cursor, batch, nonce, zebvix, bounds>>

\* Mutant: the cursor jumps to the head after the first chunk.
AdvanceToHead ==
    /\ pc = "advance"
    /\ cursor' = scan.safe + 1 /\ pc' = "fetch"
    /\ UNCHANGED <<ethereum, db, scan, batch, nonce, zebvix, bounds>>

AdvanceCursor ==
    /\ pc = "advance"
    /\ cursor' = scan.to + 1 /\ pc' = "fetch"
    /\ UNCHANGED <<ethereum, db, scan, batch, nonce, zebvix, bounds>>

FetchDone ==
    /\ pc = "fetch" /\ cursor > scan.safe
    /\ pc' = "confirm" /\ scan' = NoScan
    /\ UNCHANGED <<ethereum, stored, batch, nonce, zebvix, bounds>>

\* The call throws out of the tick.
FetchFails ==
    /\ pc = "fetch" /\ Fault /\ EndTick
    /\ UNCHANGED <<ethereum, stored, zebvix, reorgs, crashes>>

-----------------------------------------------------------------------------
(* confirmSubmitted *)

Before(r, s) == r.burn.tx < s.burn.tx \/ (r.burn.tx = s.burn.tx /\ r.burn.log < s.burn.log)
RowsIn(st) == {[burn |-> b, attempts |-> db[b].attempts] : b \in {x \in Burn : db[x].status = st}}

\* Rows are taken in the order of their burns.
Row == CHOOSE r \in batch : \A q \in batch : ~Before(q, r)

ListSubmitted ==
    /\ pc = "confirm"
    /\ batch' = RowsIn("submitted")
    /\ pc' = "check"
    /\ UNCHANGED <<ethereum, stored, scan, nonce, zebvix, bounds>>

\* Claimed: done.  Not yet: wait.
CheckClaim ==
    /\ pc = "check" /\ batch # {}
    /\ db' = IF Claimed(Row.burn.tx) THEN SetStatus(Row.burn, "confirmed") ELSE db
    /\ batch' = batch \ {Row}
    /\ UNCHANGED <<ethereum, cursor, pc, scan, nonce, zebvix, bounds>>

\* Mutant: a late row is marked submitted again, without submitting it.
RequeueAsSubmitted ==
    /\ pc = "check" /\ batch # {} /\ ~Claimed(Row.burn.tx)
    /\ db' = SetStatus(Row.burn, "submitted")
    /\ batch' = batch \ {Row}
    /\ UNCHANGED <<ethereum, cursor, pc, scan, nonce, zebvix, bounds>>

\* Submitted too long ago (SUBMIT_RETRY_AFTER_MS): submit again, though the claim
\* may still be on its way.
Requeue ==
    /\ pc = "check" /\ batch # {} /\ ~Claimed(Row.burn.tx)
    /\ db' = SetStatus(Row.burn, "pending")
    /\ batch' = batch \ {Row}
    /\ UNCHANGED <<ethereum, cursor, pc, scan, nonce, zebvix, bounds>>

CheckFails ==
    /\ pc = "check" /\ batch # {} /\ Fault
    /\ batch' = batch \ {Row}
    /\ UNCHANGED <<ethereum, stored, pc, scan, nonce, zebvix, reorgs, crashes>>

-----------------------------------------------------------------------------
(* processPending *)

ListPending ==
    /\ pc = "check" /\ batch = {}
    /\ IF RowsIn("pending") = {} THEN EndTick
       ELSE pc' = "nonce" /\ batch' = RowsIn("pending") /\ UNCHANGED <<scan, nonce>>
    /\ UNCHANGED <<ethereum, stored, zebvix, bounds>>

\* The nonce of the account on the chain: claims in the mempool do not count.
ReadNonce ==
    /\ pc = "nonce" /\ nonce' = admin /\ pc' = "submit"
    /\ UNCHANGED <<ethereum, stored, scan, batch, zebvix, bounds>>

NonceFails ==
    /\ pc = "nonce" /\ Fault /\ EndTick
    /\ UNCHANGED <<ethereum, stored, zebvix, reorgs, crashes>>

RowDone ==
    IF batch = {Row} THEN EndTick
    ELSE batch' = batch \ {Row} /\ pc' = "submit" /\ UNCHANGED <<scan, nonce>>

RowFails ==
    /\ db' = SetStatus(Row.burn, IF Row.attempts >= GiveUp THEN "failed" ELSE "pending")
    /\ RowDone
    /\ UNCHANGED cursor

\* Another relayer, or this one before a crash, may have claimed it.
PreCheck ==
    /\ pc = "submit"
    /\ IF Claimed(Row.burn.tx)
       THEN db' = SetStatus(Row.burn, "confirmed") /\ RowDone
       ELSE pc' = "send" /\ UNCHANGED <<db, scan, batch, nonce>>
    /\ UNCHANGED <<ethereum, cursor, zebvix, bounds>>

Claim == [nonce |-> nonce, burn |-> Row.burn]

\* The mempool takes the claim; the row is marked only afterwards.
Submit ==
    /\ pc = "send"
    /\ nonce >= admin
    /\ mempool' = mempool \cup {Claim}
    /\ pc' = "sent" /\ nonce' = nonce + 1
    /\ UNCHANGED <<ethereum, stored, scan, batch, admin, locked, released, balance, bounds>>

\* Mutant: a claim the mempool took counts as done.
MarkConfirmed ==
    /\ pc = "sent"
    /\ db' = SetStatus(Row.burn, "confirmed")
    /\ RowDone
    /\ UNCHANGED <<ethereum, cursor, zebvix, bounds>>

MarkSubmitted ==
    /\ pc = "sent"
    /\ db' = SetStatus(Row.burn, "submitted")
    /\ RowDone
    /\ UNCHANGED <<ethereum, cursor, zebvix, bounds>>

\* The nonce was spent in the meantime.
SubmitRefused ==
    /\ pc = "send"
    /\ nonce < admin
    /\ RowFails
    /\ UNCHANGED <<ethereum, zebvix, bounds>>

\* The call fails, before or after the mempool took the claim.
SubmitFails ==
    /\ pc \in {"submit", "send"} /\ Fault
    /\ \/ UNCHANGED mempool
       \/ pc = "send" /\ nonce >= admin /\ mempool' = mempool \cup {Claim}
    /\ RowFails
    /\ UNCHANGED <<ethereum, admin, locked, released, balance, reorgs, crashes>>

Crash ==
    /\ crashes < MaxCrashes /\ crashes' = crashes + 1
    /\ pc # "idle"
    /\ EndTick
    /\ UNCHANGED <<ethereum, stored, zebvix, reorgs, faults>>

-----------------------------------------------------------------------------
Discover == ReadHead \/ FetchBurns \/ AdvanceCursor \/ FetchDone
Confirm  == ListSubmitted \/ CheckClaim \/ Requeue
Process  == \/ ListPending \/ ReadNonce \/ MarkSubmitted
            \/ PreCheck \/ Submit \/ SubmitRefused
Faults   == \/ FetchFails \/ NonceFails \/ Crash
            \/ CheckFails \/ SubmitFails
            \/ \E t \in mempool : Refuse(t) \/ Drop(t)

Next ==
    \/ \E burnt \in {{}} \cup {LogsOf(b.tx) : b \in Burn} : MineBlock(burnt)
    \/ \E n \in 0 .. MaxBlocks : Reorg(n)
    \/ \E t \in mempool : BridgeIn(t)
    \/ Discover \/ Confirm \/ Process \/ Faults

Spec == Init /\ [][Next]_vars

\* The poll timer restarts an idle watcher, block producers take what is due, and
\* a row does not stay younger than the retry window.
FairSpec ==
    /\ Spec
    /\ WF_vars(Discover \/ Confirm \/ Process)
    /\ WF_vars(\E t \in mempool : BridgeIn(t))
    /\ \A b \in Burn : SF_vars(Requeue /\ Row.burn = b)

-----------------------------------------------------------------------------
\* The variables keep their types.
TypeOK ==
    /\ blocks \in Seq(SUBSET Burn) /\ Len(blocks) <= MaxBlocks
    /\ top \in 0 .. MaxBlocks
    /\ db \in [Burn -> [status : Statuses, attempts : 0 .. GiveUp]]
    /\ cursor \in Nat /\ nonce \in Nat /\ admin \in Nat
    /\ pc \in {"idle", "fetch", "advance", "confirm", "check", "nonce", "submit", "send", "sent"}
    /\ scan \in [safe : Nat, to : Nat]
    /\ batch \subseteq [burn : Burn, attempts : 0 .. GiveUp]
    /\ mempool \subseteq [nonce : Nat, burn : Burn]
    /\ locked \in Nat
    /\ released \subseteq Burn
    /\ balance \in [Account -> Nat]

\* What is released was burnt in a block that no reorganisation took back, and is
\* released once, whatever was submitted twice (BridgeIn, processPending).
Promise == INSTANCE Transfers WITH Transfer <- Burn, sent <- Final, received <- released
ReleasesTransfers == Promise!Spec

\* The coins still locked cover every burn that was not released yet (BridgeIn).
Solvent == locked >= Sum(OnBsc \ released)

\* The cursor never passes a burn that is not recorded (discoverBurns).
NoBurnSkipped ==
    \A n \in StartBlock .. Len(blocks) : n < cursor => \A b \in blocks[n] : Recorded(b)

\* bsc-watcher.ts: the cursor is a block that was read, and every burn up to it is in the
\* database.
CursorTrue == TypeOK /\ NoBurnSkipped

\* What comes to an account by the bridge: nothing but the burns to it that were
\* released, each once, and among them every burn whose row says confirmed, as far as
\* the code keeps that: a claim is told by its BSC transaction, so a burn that shares
\* its transaction may be confirmed on the claim of another; and what is released to
\* the admin is lost (confirmSubmitted, BridgeIn).
ConfirmedPays ==
    /\ \A b \in Burn :
          db[b].status = "confirmed" => \E c \in LogsOf(b.tx) : c \in released
    /\ \A a \in Account \ {Admin} : balance[a] = Sum({b \in released : b.to = a})

\* Every account has had the coins of the burns to it whose rows say confirmed
\* (bsc-watcher.ts, confirmSubmitted).
ConfirmedIsPaid ==
    \A a \in Account : balance[a] >= Sum({b \in Burn : db[b].status = "confirmed" /\ b.to = a})

\* Every recorded burn is settled in the end, confirmed or handed to the operator,
\* through crashes, lost claims, spent nonces and refusals.
Settled == \A b \in Burn : Recorded(b) ~> db[b].status \in {"confirmed", "failed"}
=============================================================================
