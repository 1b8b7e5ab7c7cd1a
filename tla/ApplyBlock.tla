----------------------------- MODULE ApplyBlock -----------------------------
(***************************************************************************)
(* State::apply_block on one node, with the crashes and restarts its       *)
(* apply-marker is there for.                                              *)
(*                                                                         *)
(* The database holds the effects of transactions, the block bodies, the   *)
(* tip and the marker.  apply_tx, the reward and the fee code each put     *)
(* their rows as they go; only the last write is a batch.  A block has     *)
(* Parts such rows here: written[b] counts those on disk, so that a block  *)
(* applied in part, or twice, shows.  Every database access is a step, and *)
(* a crash may come between any two.                                       *)
(*                                                                         *)
(* apply_block takes no lock.  Writers are the tasks of the node that call *)
(* it: the inbound consumer of a follower; the producer as well on a       *)
(* validator; the FSM runtime as well when it is enabled.                  *)
(***************************************************************************)
EXTENDS Naturals

CONSTANTS
    Block,       \* hashes of the blocks that may be delivered or built
    Genesis,     \* the zero hash
    None,        \* no marker, no block
    Parent,      \* header.parent_hash
    Height,      \* header.height, of Genesis too
    MaxHeight,   \* bound on heights
    Parts,       \* rows a block writes outside the final batch
    Writers,     \* tasks that call apply_block
    Offered      \* the blocks each of them may call it with

Heights == 1..MaxHeight

ASSUME BlockAssumption ==
    /\ Genesis \notin Block /\ None \notin Block \cup {Genesis}
    /\ Parent \in [Block -> Block \cup {Genesis}]
    /\ MaxHeight \in Nat \ {0}
    /\ Height \in [Block \cup {Genesis} -> 0..MaxHeight]
    /\ Height[Genesis] = 0 /\ \A b \in Block : Height[b] # 0
    /\ Parts \in Nat \ {0}
    /\ Offered \in [Writers -> SUBSET Block]

VARIABLES
    written,     \* rows of each block on disk
    blocks,      \* CF_BLOCKS: height -> block
    diskTip,     \* META_HEIGHT and META_LAST_HASH
    marker,      \* META_BLOCK_APPLYING
    tip,         \* the tip in memory
    task,        \* where each writer is in apply_block
    node         \* "up", "down", "refused" to boot

disk == <<written, blocks, diskTip, marker>>
vars == <<written, blocks, diskTip, marker, tip, task, node>>

PCs  == {"idle", "guard", "stale", "clear", "check", "validate", "mark", "write", "publish"}
Task == [pc : PCs, block : Block \cup {None}, seen : Block \cup {None}, part : 0..Parts]
Idle == [pc |-> "idle", block |-> None, seen |-> None, part |-> 0]

\* The blocks the database says are applied, and the rows that should be there.
Applied == {blocks[h] : h \in 1..Height[diskTip]}
Clean   == written = [b \in Block |-> IF b \in Applied THEN Parts ELSE 0]

-----------------------------------------------------------------------------
\* A database of no block or of one, written by an older binary that may have
\* died between its last write and the removal of the marker.
Init ==
    /\ \E b \in {Genesis} \cup {x \in Block : Parent[x] = Genesis /\ Height[x] = 1} :
          /\ diskTip = b
          /\ blocks = [h \in Heights |-> IF h = Height[b] THEN b ELSE None]
          /\ written = [x \in Block |-> IF x = b THEN Parts ELSE 0]
          /\ marker \in {None, b} \ {Genesis}
    /\ tip = Genesis
    /\ task = [t \in Writers |-> Idle]
    /\ node = "down"

Goto(t, pc) == task' = [task EXCEPT ![t].pc = pc]
Return(t)   == task' = [task EXCEPT ![t] = Idle]
At(t, pc)   == node = "up" /\ task[t].pc = pc

Call(t) ==
    /\ At(t, "idle")
    /\ \E b \in Offered[t] : task' = [task EXCEPT ![t] = [Idle EXCEPT !.pc = "guard", !.block = b]]
    /\ UNCHANGED <<disk, tip, node>>

ReadMarker(t) ==
    /\ At(t, "guard")
    /\ task' = [task EXCEPT ![t].pc = IF marker = None THEN "check" ELSE "stale", ![t].seen = marker]
    /\ UNCHANGED <<disk, tip, node>>

\* A marker of the tip is a leftover; any other one means an aborted apply.
JudgeMarker(t) ==
    /\ At(t, "stale")
    /\ IF task[t].seen = tip THEN Goto(t, "clear") ELSE Return(t)
    /\ UNCHANGED <<disk, tip, node>>

ClearStale(t) ==
    /\ At(t, "clear")
    /\ marker' = None
    /\ Goto(t, "check")
    /\ UNCHANGED <<written, blocks, diskTip, tip, node>>

\* Mutation: the height is not checked.
CheckParentOnly(t) ==
    /\ At(t, "check")
    /\ IF Parent[task[t].block] = tip THEN Goto(t, "validate") ELSE Return(t)
    /\ UNCHANGED <<disk, tip, node>>

\* Contiguous height and parent hash, against the tip in memory.
CheckTip(t) ==
    /\ At(t, "check")
    /\ LET b == task[t].block
       IN  IF Height[b] = Height[tip] + 1 /\ Parent[b] = tip
             THEN Goto(t, "validate") ELSE Return(t)
    /\ UNCHANGED <<disk, tip, node>>

\* Signatures, commit gate, pre-validation, state root: reads only, any of
\* which may refuse the block.
Validate(t) ==
    /\ At(t, "validate")
    /\ Goto(t, "mark") \/ Return(t)
    /\ UNCHANGED <<disk, tip, node>>

\* Mutation: the marker is not written.
SkipMarker(t) ==
    /\ At(t, "mark")
    /\ Goto(t, "write")
    /\ UNCHANGED <<disk, tip, node>>

SetMarker(t) ==
    /\ At(t, "mark")
    /\ marker' = task[t].block
    /\ Goto(t, "write")
    /\ UNCHANGED <<written, blocks, diskTip, tip, node>>

\* Rows of transactions, reward, fees, staking.
WriteRow(t) ==
    /\ At(t, "write") /\ task[t].part < Parts
    /\ written' = [written EXCEPT ![task[t].block] = @ + 1]
    /\ task' = [task EXCEPT ![t].part = @ + 1]
    /\ UNCHANGED <<blocks, diskTip, marker, tip, node>>

\* Mutation: an error clears the marker.
FailAndClear(t) ==
    /\ At(t, "write")
    /\ marker' = None
    /\ Return(t)
    /\ UNCHANGED <<written, blocks, diskTip, tip, node>>

\* An error of apply_tx or of the database: the marker stays.
Fail(t) ==
    /\ At(t, "write")
    /\ Return(t)
    /\ UNCHANGED <<disk, tip, node>>

\* Mutation: the body of the block is not in the batch.
FinalizeTipOnly(t) ==
    /\ At(t, "write") /\ task[t].part = Parts
    /\ diskTip' = task[t].block
    /\ marker' = None
    /\ Goto(t, "publish")
    /\ UNCHANGED <<written, blocks, tip, node>>

\* The batch: body, height and hash of the tip, and the end of the marker.
Finalize(t) ==
    /\ At(t, "write") /\ task[t].part = Parts
    /\ blocks' = [blocks EXCEPT ![Height[task[t].block]] = task[t].block]
    /\ diskTip' = task[t].block
    /\ marker' = None
    /\ Goto(t, "publish")
    /\ UNCHANGED <<written, tip, node>>

Publish(t) ==
    /\ At(t, "publish")
    /\ tip' = task[t].block
    /\ Return(t)
    /\ UNCHANGED <<disk, node>>

-----------------------------------------------------------------------------
Crash ==
    /\ node = "up"
    /\ node' = "down"
    /\ tip' = Genesis
    /\ task' = [t \in Writers |-> Idle]
    /\ UNCHANGED disk

\* State::open, then the check of cmd_start.
Restart ==
    /\ node = "down"
    /\ tip' = diskTip
    /\ IF marker \in {None, diskTip}
         THEN node' = "up" /\ marker' = None
         ELSE node' = "refused" /\ marker' = marker
    /\ UNCHANGED <<written, blocks, diskTip, task>>

\* The operator's recovery: a snapshot at or below the tip.  (external)
RestoreSnapshot ==
    /\ node = "refused"
    /\ \E h \in 0..Height[diskTip] :
          /\ diskTip' = IF h = 0 THEN Genesis ELSE blocks[h]
          /\ blocks' = [k \in Heights |-> IF k <= h THEN blocks[k] ELSE None]
          /\ written' = [b \in Block |-> IF b \in {blocks[k] : k \in 1..h} THEN Parts ELSE 0]
    /\ marker' = None
    /\ node' = "down"
    /\ UNCHANGED <<tip, task>>

Step(t) ==
    \/ Call(t)
    \/ ReadMarker(t) \/ JudgeMarker(t) \/ ClearStale(t)
    \/ CheckTip(t) \/ Validate(t) \/ SetMarker(t)
    \/ WriteRow(t) \/ Fail(t) \/ Finalize(t) \/ Publish(t)

Next == (\E t \in Writers : Step(t)) \/ Crash \/ Restart \/ RestoreSnapshot

Spec == Init /\ [][Next]_vars

-----------------------------------------------------------------------------
(* Properties *)

TypeOK ==
    /\ written \in [Block -> Nat]
    /\ blocks \in [Heights -> Block \cup {None}]
    /\ diskTip \in Block \cup {Genesis} /\ tip \in Block \cup {Genesis}
    /\ marker \in Block \cup {None}
    /\ task \in [Writers -> Task]
    /\ node \in {"up", "down", "refused"}

\* A database without a marker, or whose marker is its tip's, holds exactly
\* the rows of the blocks below its tip, each once: what a restart relies on,
\* at whatever point the crash came.
UnmarkedIsClean == marker \in {None, diskTip} => Clean

\* The blocks on disk are a chain that ends at the tip on disk.
StoredChain ==
    /\ diskTip # Genesis => blocks[Height[diskTip]] = diskTip
    /\ \A h \in 1..Height[diskTip] :
          /\ blocks[h] # None
          /\ Height[blocks[h]] = h
          /\ Parent[blocks[h]] = IF h = 1 THEN Genesis ELSE blocks[h - 1]

\* Whichever of several callers was the last to write its batch, the block
\* that the tip on disk names is on disk.
TipStored == diskTip # Genesis => blocks[Height[diskTip]] = diskTip

\* apply_block implements the ledger: the database's chain grows by one block
\* that extends it, and nothing but a restore follows an aborted apply.
ChainOnDisk == [h \in 1..Height[diskTip] |-> blocks[h]]

Status ==
    IF marker \in {None, diskTip} THEN "clean"
    ELSE IF \E t \in Writers : task[t].pc = "write" THEN "applying"
    ELSE "halted"

Abstract == INSTANCE Ledger WITH chain <- ChainOnDisk, status <- Status

ImplementsLedger == Abstract!Spec
=============================================================================
