-------------------------- MODULE ApplyBlockProofs --------------------------
(***************************************************************************)
(* What the apply-marker is worth on a node where one task at a time calls *)
(* apply_block (a follower): a database that may boot is clean, and the    *)
(* node's chain is the abstract ledger.  Both fail with a second writer,   *)
(* so those theorems assume a single one.                                  *)
(*                                                                         *)
(* With any number of writers the tip on disk names a block on disk.  It   *)
(* needs to know that the blocks on disk have no gap, so that a snapshot   *)
(* can be cut at any height: a task that has compared its block with the   *)
(* tip in memory knows how far they reach.                                 *)
(*                                                                         *)
(* The last part is about the accounts.  A block is simulated, and then    *)
(* applied, one transaction after another: by induction on how many, the   *)
(* money stays the same, and the forecast of every balance is never above  *)
(* the balance, since it counts what a sender pays and not what it gets.   *)
(***************************************************************************)
EXTENDS ApplyViews, SumProofs, SequenceTheorems

SingleWriter == \A s, t \in Writers : s = t

CleanRows == [b \in Block |-> IF b \in Applied THEN Parts ELSE 0]

Entered(t, pcs) == task[t].pc \in pcs

\* What is known at each point of apply_block.
Progress(t) ==
    /\ task[t].pc # "idle" => task[t].block \in Block
    /\ Entered(t, {"stale", "clear"}) => task[t].seen = marker /\ marker # None
    /\ Entered(t, {"clear"}) => marker = diskTip
    /\ Entered(t, {"check", "validate", "mark", "publish"}) => marker = None
    /\ Entered(t, {"validate", "mark", "write"}) =>
         Height[task[t].block] = Height[diskTip] + 1 /\ Parent[task[t].block] = diskTip
    /\ Entered(t, {"write"}) =>
         marker = task[t].block /\ written = [CleanRows EXCEPT ![task[t].block] = task[t].part]
    /\ ~Entered(t, {"write", "publish"}) => task[t].part = 0
    /\ Entered(t, {"publish"}) => task[t].block = diskTip
    /\ ~Entered(t, {"publish"}) /\ node = "up" => tip = diskTip

\* The inductive invariant.
IndInv ==
    /\ TypeOK
    /\ StoredChain
    /\ UnmarkedIsClean
    /\ \A t \in Writers : Progress(t)
    /\ node # "up" => \A t \in Writers : task[t] = Idle
    /\ node = "refused" => marker \notin {None, diskTip}

USE BlockAssumption DEF Heights

\* Heights of applied blocks lie between 1 and that of the tip.
LEMMA AppliedHeights ==
    ASSUME TypeOK, StoredChain
    PROVE  /\ Height[diskTip] \in 0..MaxHeight
           /\ \A b \in Applied : b \in Block /\ Height[b] \in 1..Height[diskTip]
BY DEF TypeOK, StoredChain, Applied

\* A task that is idle is a task.
LEMMA IdleTask == Idle \in Task
BY DEF Idle, Task, PCs

\* The invariant holds of the databases a node starts from.
LEMMA InitInv == Init => IndInv
<1> SUFFICES ASSUME Init PROVE IndInv
  OBVIOUS
<1> PICK b \in {Genesis} \cup {x \in Block : Parent[x] = Genesis /\ Height[x] = 1} :
          /\ diskTip = b
          /\ blocks = [h \in Heights |-> IF h = Height[b] THEN b ELSE None]
          /\ written = [x \in Block |-> IF x = b THEN Parts ELSE 0]
          /\ marker \in {None, b} \ {Genesis}
  BY DEF Init
<1>0. Height[b] \in {0, 1} /\ (Height[b] = 0 <=> b = Genesis) /\ 1 \in Heights /\ 0 \notin Heights
  OBVIOUS
<1>1. TypeOK
  <2>1. blocks \in [Heights -> Block \cup {None}]
    BY <1>0
  <2>2. written \in [Block -> Nat] /\ diskTip \in Block \cup {Genesis} /\ marker \in Block \cup {None}
    OBVIOUS
  <2>3. Idle \in Task
    BY IdleTask
  <2>4. task \in [Writers -> Task] /\ tip = Genesis /\ node = "down"
    BY <2>3 DEF Init
  <2> QED
    BY <2>1, <2>2, <2>4 DEF TypeOK
<1>2. StoredChain
  <2>1. diskTip # Genesis => blocks[Height[diskTip]] = diskTip
    BY <1>0
  <2>2. ASSUME NEW h \in 1..Height[diskTip]
        PROVE  h = 1 /\ blocks[h] = b /\ b \in Block /\ Height[b] = 1 /\ Parent[b] = Genesis
    <3>1. Height[b] = 1 /\ h = 1 /\ b \in Block
      BY <1>0
    <3> QED
      BY <1>0, <3>1
  <2> QED
    BY <2>1, <2>2 DEF StoredChain
<1>3. Applied = {b} \ {Genesis}
  <2>1. CASE b = Genesis
    BY <1>0, <2>1 DEF Applied
  <2>2. CASE b # Genesis
    <3>1. Height[diskTip] = 1 /\ 1..1 = {1} /\ blocks[1] = b
      BY <1>0, <2>2
    <3> QED
      BY <3>1, <2>2 DEF Applied
  <2> QED
    BY <2>1, <2>2
<1>4. UnmarkedIsClean
  BY <1>3 DEF UnmarkedIsClean, Clean
<1>5. node = "down" /\ \A t \in Writers : Progress(t) /\ task[t] = Idle
  BY DEF Init, Progress, Entered, Idle
<1> QED
  BY <1>1, <1>2, <1>4, <1>5 DEF IndInv

-----------------------------------------------------------------------------
(* One lemma per action: it keeps the invariant. *)

\* A task whose program counter, block or marker read changes is a task.
LEMMA TaskFields ==
    ASSUME NEW k \in Task
    PROVE  /\ \A pc \in PCs : [k EXCEPT !.pc = pc] \in Task
           /\ \A pc \in PCs, m \in Block \cup {None} : [k EXCEPT !.pc = pc, !.seen = m] \in Task
           /\ \A pc \in PCs, b \in Block : [k EXCEPT !.pc = pc, !.block = b] \in Task
           /\ \A i \in 0..Parts : [k EXCEPT !.part = i] \in Task
<1> HIDE BlockAssumption
<1>1. k = [pc |-> k.pc, block |-> k.block, seen |-> k.seen, part |-> k.part]
  BY DEF Task
<1>2. k.pc \in PCs /\ k.block \in Block \cup {None} /\ k.seen \in Block \cup {None} /\ k.part \in 0..Parts
  BY DEF Task
<1>3. ASSUME NEW pc \in PCs
      PROVE  [k EXCEPT !.pc = pc] = [pc |-> pc, block |-> k.block, seen |-> k.seen, part |-> k.part]
  BY <1>1
<1>4. ASSUME NEW pc \in PCs, NEW m \in Block \cup {None}
      PROVE  [k EXCEPT !.pc = pc, !.seen = m]
               = [[pc |-> pc, block |-> k.block, seen |-> k.seen, part |-> k.part] EXCEPT !.seen = m]
  BY <1>3
<1>5. ASSUME NEW pc \in PCs, NEW b \in Block
      PROVE  [k EXCEPT !.pc = pc, !.block = b]
               = [[pc |-> pc, block |-> k.block, seen |-> k.seen, part |-> k.part] EXCEPT !.block = b]
  BY <1>3
<1>6. ASSUME NEW i \in 0..Parts
      PROVE  [k EXCEPT !.part = i] = [pc |-> k.pc, block |-> k.block, seen |-> k.seen, part |-> i]
  BY <1>1
<1> QED
  BY <1>2, <1>3, <1>4, <1>5, <1>6 DEF Task

\* Steps that only move a task, or the tip in memory, keep what is on disk.
LEMMA DiskKept ==
    ASSUME UNCHANGED disk
    PROVE  /\ StoredChain => StoredChain'
           /\ UnmarkedIsClean => UnmarkedIsClean'
           /\ CleanRows' = CleanRows
BY DEF disk, StoredChain, UnmarkedIsClean, Clean, CleanRows, Applied

\* Such a step keeps the invariant when the task that moved has made progress.
LEMMA TaskStep ==
    ASSUME IndInv, SingleWriter, NEW t \in Writers, node = "up",
           NEW r \in Task, task' = [task EXCEPT ![t] = r],
           UNCHANGED <<disk, node>>, tip' \in Block \cup {Genesis}, Progress(t)'
    PROVE  IndInv'
<1>1. TypeOK'
  BY DEF IndInv, TypeOK, disk
<1>2. StoredChain' /\ UnmarkedIsClean'
  BY DiskKept DEF IndInv
<1>3. \A s \in Writers : Progress(s)'
  <2> SUFFICES ASSUME NEW s \in Writers PROVE Progress(s)'
    OBVIOUS
  <2> QED
    BY s = t DEF SingleWriter
<1> QED
  BY <1>1, <1>2, <1>3 DEF IndInv

\* Leaving apply_block early is such a step.
LEMMA ReturnStep ==
    ASSUME IndInv, SingleWriter, NEW t \in Writers, node = "up", task[t].pc # "publish",
           Return(t), UNCHANGED <<disk, tip, node>>
    PROVE  IndInv'
<1>1. Idle \in Task
  BY IdleTask
<1>2. task' = [task EXCEPT ![t] = Idle] /\ task'[t] = Idle
  BY DEF Return, IndInv, TypeOK
<1>3. Progress(t)'
  BY <1>2 DEF Progress, Entered, Idle, IndInv, disk
<1> QED
  BY <1>1, <1>2, <1>3, TaskStep DEF IndInv, TypeOK

\* Moving on to another point of apply_block, with the same block.
LEMMA GotoStep ==
    ASSUME IndInv, SingleWriter, NEW t \in Writers, node = "up", NEW pc \in PCs,
           Goto(t, pc), UNCHANGED <<disk, tip, node>>, Progress(t)'
    PROVE  IndInv'
<1> DEFINE r == [task[t] EXCEPT !.pc = pc]
<1>1. r \in Task
  BY TaskFields DEF IndInv, TypeOK
<1>2. task' = [task EXCEPT ![t] = r]
  BY DEF Goto
<1> QED
  BY <1>1, <1>2, TaskStep DEF IndInv, TypeOK

\* What Goto leaves of the task.
LEMMA GotoFields ==
    ASSUME TypeOK, NEW t \in Writers, NEW pc, Goto(t, pc)
    PROVE  /\ task'[t].pc = pc /\ task'[t].block = task[t].block
           /\ task'[t].seen = task[t].seen /\ task'[t].part = task[t].part
BY DEF TypeOK, Task, Goto

\* apply_block is called.
LEMMA CallInv ==
    ASSUME IndInv, SingleWriter, NEW t \in Writers, Call(t) PROVE IndInv'
<1> PICK b \in Offered[t] : task' = [task EXCEPT ![t] = [Idle EXCEPT !.pc = "guard", !.block = b]]
  BY DEF Call
<1> DEFINE r == [Idle EXCEPT !.pc = "guard", !.block = b]
<1>1. b \in Block /\ r \in Task /\ r.pc = "guard" /\ r.block = b /\ r.part = 0
  <2>1. b \in Block /\ Idle \in Task /\ "guard" \in PCs
    BY IdleTask DEF PCs
  <2>2. r \in Task
    BY <2>1, TaskFields
  <2> QED
    BY <2>1, <2>2 DEF Idle
<1>2. task'[t] = r
  BY DEF IndInv, TypeOK
<1>3. Progress(t)'
  BY <1>1, <1>2 DEF Progress, Entered, IndInv, Call, At, disk
<1> QED
  BY <1>1, <1>3, TaskStep DEF Call, At, IndInv, TypeOK

\* The marker is read.
LEMMA ReadMarkerInv ==
    ASSUME IndInv, SingleWriter, NEW t \in Writers, ReadMarker(t) PROVE IndInv'
<1> DEFINE next == IF marker = None THEN "check" ELSE "stale"
           r    == [task[t] EXCEPT !.pc = next, !.seen = marker]
<1>1. next \in PCs /\ task[t] \in Task /\ marker \in Block \cup {None}
  BY DEF IndInv, TypeOK, PCs
<1>2. r \in Task
  <2> HIDE DEF next
  <2> QED  BY <1>1, TaskFields
<1>3. task' = [task EXCEPT ![t] = r] /\ task'[t] = r
  BY <1>2 DEF IndInv, TypeOK, ReadMarker
<1>4. r.pc = next /\ r.seen = marker /\ r.block = task[t].block /\ r.part = task[t].part
  BY <1>1 DEF Task
<1>5. Progress(t)'
  <2>1. /\ task'[t].pc = next /\ task'[t].seen = marker
        /\ task'[t].block = task[t].block /\ task'[t].part = task[t].part
    BY <1>3, <1>4
  <2>2. task[t].pc = "guard" /\ task[t].part = 0 /\ task[t].block \in Block /\ node = "up" /\ tip = diskTip
    BY DEF ReadMarker, At, IndInv, Progress, Entered
  <2>3. UNCHANGED <<marker, diskTip, written, blocks, tip, node>>
    BY DEF ReadMarker, disk
  <2> HIDE DEF r
  <2> QED
    BY <2>1, <2>2, <2>3 DEF Progress, Entered
<1> QED
  BY <1>2, <1>3, <1>5, TaskStep DEF ReadMarker, At, IndInv, TypeOK

\* A marker that is the tip's is cleared; another one refuses the block.
LEMMA JudgeMarkerInv ==
    ASSUME IndInv, SingleWriter, NEW t \in Writers, JudgeMarker(t) PROVE IndInv'
<1> USE DEF JudgeMarker, At
<1>1. CASE task[t].seen = tip
  <2>1. Goto(t, "clear") /\ tip = diskTip /\ marker = diskTip /\ marker # None /\ task[t].block \in Block
    BY <1>1 DEF IndInv, Progress, Entered
  <2>2. Progress(t)'
    BY <2>1, <1>1, GotoFields DEF Progress, Entered, IndInv, disk
  <2> QED
    BY <2>1, <2>2, GotoStep DEF PCs
<1>2. CASE task[t].seen # tip
  BY <1>2, ReturnStep
<1> QED
  BY <1>1, <1>2

\* The height and the parent are checked.
LEMMA CheckTipInv ==
    ASSUME IndInv, SingleWriter, NEW t \in Writers, CheckTip(t) PROVE IndInv'
<1> USE DEF CheckTip, At
<1>1. CASE Height[task[t].block] = Height[tip] + 1 /\ Parent[task[t].block] = tip
  <2>1. Goto(t, "validate") /\ tip = diskTip /\ marker = None /\ task[t].block \in Block
    BY <1>1 DEF IndInv, Progress, Entered
  <2>2. Progress(t)'
    BY <2>1, <1>1, GotoFields DEF Progress, Entered, IndInv, disk
  <2> QED
    BY <2>1, <2>2, GotoStep DEF PCs
<1>2. CASE ~(Height[task[t].block] = Height[tip] + 1 /\ Parent[task[t].block] = tip)
  BY <1>2, ReturnStep
<1> QED
  BY <1>1, <1>2

\* The block is validated or refused.
LEMMA ValidateInv ==
    ASSUME IndInv, SingleWriter, NEW t \in Writers, Validate(t) PROVE IndInv'
<1> USE DEF Validate, At
<1>1. CASE Goto(t, "mark")
  <2>1. Progress(t)'
    BY <1>1, GotoFields DEF Progress, Entered, IndInv, disk
  <2> QED
    BY <1>1, <2>1, GotoStep DEF PCs
<1>2. CASE Return(t)
  BY <1>2, ReturnStep
<1> QED
  BY <1>1, <1>2

\* The tip in memory follows the one on disk.
LEMMA PublishInv ==
    ASSUME IndInv, SingleWriter, NEW t \in Writers, Publish(t) PROVE IndInv'
<1> USE DEF Publish, At
<1>1. Idle \in Task
  BY IdleTask
<1>2. task' = [task EXCEPT ![t] = Idle] /\ task'[t] = Idle
  BY DEF Return, IndInv, TypeOK
<1>3. task[t].block = diskTip
  BY DEF IndInv, Progress, Entered
<1>4. Progress(t)'
  BY <1>2, <1>3 DEF Progress, Entered, Idle, disk
<1> QED
  BY <1>1, <1>2, <1>3, <1>4, TaskStep DEF IndInv, TypeOK

-----------------------------------------------------------------------------
(* Steps that write to the database. *)

\* A leftover marker is the tip's: without it the database is as clean.
LEMMA ClearStaleInv ==
    ASSUME IndInv, SingleWriter, NEW t \in Writers, ClearStale(t) PROVE IndInv'
<1> USE DEF ClearStale, At
<1>1. marker = diskTip /\ Clean /\ task[t].block \in Block /\ tip = diskTip
  BY DEF IndInv, Progress, Entered, UnmarkedIsClean
<1>2. task'[t].pc = "check" /\ task'[t].block = task[t].block
  BY GotoFields DEF IndInv
<1>3. TypeOK'
  <2>1. [task[t] EXCEPT !.pc = "check"] \in Task
    BY TaskFields DEF PCs, IndInv, TypeOK
  <2> QED
    BY <2>1 DEF Goto, IndInv, TypeOK
<1>4. StoredChain'
  BY DEF StoredChain, IndInv
<1>5. UnmarkedIsClean'
  BY <1>1 DEF UnmarkedIsClean, Clean, Applied
<1>6. \A s \in Writers : Progress(s)'
  <2>0. task[t].part = 0 /\ task'[t].part = task[t].part
    BY GotoFields DEF IndInv, Progress, Entered
  <2>1. Progress(t)'
    BY <2>0, <1>1, <1>2 DEF Progress, Entered
  <2> QED
    BY <2>1 DEF SingleWriter
<1> QED
  BY <1>3, <1>4, <1>5, <1>6 DEF IndInv

\* A block about to be written is not applied yet.
LEMMA NotApplied ==
    ASSUME TypeOK, StoredChain, NEW b \in Block, Height[b] = Height[diskTip] + 1
    PROVE  b \notin Applied /\ b # diskTip /\ b # None
BY AppliedHeights

\* The marker is set on a clean database.
LEMMA SetMarkerInv ==
    ASSUME IndInv, SingleWriter, NEW t \in Writers, SetMarker(t) PROVE IndInv'
<1> USE DEF SetMarker, At
<1> DEFINE b == task[t].block
<1>1. /\ marker = None /\ b \in Block /\ tip = diskTip
      /\ Height[b] = Height[diskTip] + 1 /\ Parent[b] = diskTip
  BY DEF IndInv, Progress, Entered
<1>2. task'[t].pc = "write" /\ task'[t].block = b /\ task'[t].part = task[t].part
  BY GotoFields DEF IndInv
<1>3. b \notin Applied /\ b # diskTip /\ b # None
  BY <1>1, NotApplied DEF IndInv
<1>4. TypeOK'
  <2>1. [task[t] EXCEPT !.pc = "write"] \in Task
    BY TaskFields DEF PCs, IndInv, TypeOK
  <2> QED
    BY <1>1, <2>1 DEF Goto, IndInv, TypeOK
<1>5. StoredChain' /\ UnmarkedIsClean'
  BY <1>1, <1>3 DEF StoredChain, UnmarkedIsClean, IndInv
<1>6. written = CleanRows /\ CleanRows' = CleanRows
  BY <1>1 DEF IndInv, UnmarkedIsClean, Clean, CleanRows, Applied
<1>7. task[t].part = 0
  BY DEF IndInv, Progress, Entered
<1>8. Progress(t)'
  BY <1>1, <1>2, <1>3, <1>6, <1>7 DEF Progress, Entered, CleanRows
<1> QED
  BY <1>4, <1>5, <1>8 DEF IndInv, SingleWriter

\* A row is written: only those of the marked block change.
LEMMA WriteRowInv ==
    ASSUME IndInv, SingleWriter, NEW t \in Writers, WriteRow(t) PROVE IndInv'
<1> USE DEF WriteRow, At
<1> DEFINE b == task[t].block
           i == task[t].part
<1>1. /\ marker = b /\ b \in Block /\ tip = diskTip
      /\ Height[b] = Height[diskTip] + 1 /\ Parent[b] = diskTip
      /\ written = [CleanRows EXCEPT ![b] = i]
  BY DEF IndInv, Progress, Entered
<1>2. task[t] \in Task /\ i \in 0..Parts /\ i + 1 \in 0..Parts /\ i \in Nat
  BY DEF IndInv, TypeOK, Task
<1>3. task'[t].pc = "write" /\ task'[t].block = b /\ task'[t].part = i + 1
  BY <1>2 DEF IndInv, TypeOK, Task
<1>4. CleanRows \in [Block -> Nat]
  BY DEF CleanRows
<1>5. written' = [CleanRows EXCEPT ![b] = i + 1]
  BY <1>1, <1>2, <1>4
<1>6. TypeOK'
  <2>1. [task[t] EXCEPT !.part = i + 1] \in Task
    BY <1>2, TaskFields
  <2>2. written' \in [Block -> Nat]
    <3>1. \A f \in [Block -> Nat], x \in Block, n \in Nat : [f EXCEPT ![x] = n] \in [Block -> Nat]
      OBVIOUS
    <3> HIDE DEF WriteRow, b, i
    <3>2. i + 1 \in Nat /\ b \in Block
      BY <1>1, <1>2
    <3> QED
      BY <1>4, <1>5, <3>1, <3>2
  <2>3. task' \in [Writers -> Task]
    BY <2>1 DEF IndInv, TypeOK
  <2> HIDE DEF b, i
  <2> QED
    BY <2>2, <2>3 DEF IndInv, TypeOK
<1>7. b # diskTip /\ b # None
  BY <1>1, NotApplied DEF IndInv
<1>8. StoredChain' /\ UnmarkedIsClean'
  BY <1>1, <1>7 DEF StoredChain, UnmarkedIsClean, IndInv
<1>9. CleanRows' = CleanRows
  BY DEF CleanRows, Applied
<1>10. Progress(t)'
  BY <1>1, <1>3, <1>5, <1>9 DEF Progress, Entered
<1> QED
  BY <1>6, <1>8, <1>10 DEF IndInv, SingleWriter

\* An error leaves the marker: the database may be dirty, and says so.
LEMMA FailInv ==
    ASSUME IndInv, SingleWriter, NEW t \in Writers, Fail(t) PROVE IndInv'
BY ReturnStep DEF Fail, At

\* Functions that agree up to n have the same values up to n.
LEMMA SameImage ==
    ASSUME NEW f, NEW g, NEW n, \A k \in 1..n : f[k] = g[k]
    PROVE  {f[k] : k \in 1..n} = {g[k] : k \in 1..n}
OBVIOUS

\* The batch makes the marked block, now whole, the tip.
LEMMA FinalizeEffect ==
    ASSUME IndInv, SingleWriter, NEW t \in Writers, Finalize(t)
    PROVE  LET b == task[t].block
           IN  /\ b \in Block /\ Height[b] = Height[diskTip] + 1 /\ Parent[b] = diskTip
               /\ Height[b] \in Heights /\ Height[diskTip] \in Nat
               /\ blocks' = [blocks EXCEPT ![Height[b]] = b]
               /\ Applied' = Applied \cup {b}
               /\ written = [CleanRows EXCEPT ![b] = Parts]
<1> USE DEF Finalize, At
<1> DEFINE b == task[t].block
           H == Height[diskTip]
<1>1. /\ b \in Block /\ Height[b] = H + 1 /\ Parent[b] = diskTip
      /\ written = [CleanRows EXCEPT ![b] = Parts]
  BY DEF IndInv, Progress, Entered
<1>2. Height[b] \in Heights /\ H \in Nat
  BY <1>1 DEF IndInv, TypeOK
<1>3. Applied' = Applied \cup {b}
  <2>1. Applied' = {blocks'[h] : h \in 1..(H + 1)}
    BY <1>1 DEF Applied
  <2>2. blocks \in [Heights -> Block \cup {None}] /\ blocks' = [blocks EXCEPT ![H + 1] = b]
    BY <1>1 DEF IndInv, TypeOK
  <2>3. \A h \in 1..H : blocks'[h] = blocks[h]
    BY <1>1, <1>2, <2>2
  <2>4. blocks'[H + 1] = b
    BY <1>1, <1>2, <2>2
  <2>5. 1..(H + 1) = (1..H) \cup {H + 1}
    BY <1>2
  <2>6. {blocks'[h] : h \in 1..H} = {blocks[h] : h \in 1..H}
    BY ONLY <2>3, SameImage
  <2>7. Applied' = {blocks'[h] : h \in 1..H} \cup {blocks'[H + 1]}
    BY <2>1, <2>5
  <2> QED
    BY <2>4, <2>6, <2>7 DEF Applied
<1> QED
  BY <1>1, <1>2, <1>3

\* The batch leaves a clean database, one block longer.
LEMMA FinalizeInv ==
    ASSUME IndInv, SingleWriter, NEW t \in Writers, Finalize(t) PROVE IndInv'
<1> USE DEF Finalize, At
<1> DEFINE b == task[t].block
           H == Height[diskTip]
<1>1. /\ b \in Block /\ Height[b] = H + 1 /\ Parent[b] = diskTip
      /\ H + 1 \in Heights /\ H \in Nat
      /\ blocks' = [blocks EXCEPT ![H + 1] = b]
      /\ Applied' = Applied \cup {b}
      /\ written = [CleanRows EXCEPT ![b] = Parts]
      /\ diskTip' = b /\ marker' = None /\ tip' = tip /\ node' = node /\ written' = written
  BY FinalizeEffect
<1>2. task'[t].pc = "publish" /\ task'[t].block = b
  BY GotoFields DEF IndInv
<1>3. TypeOK'
  <2>1. [task[t] EXCEPT !.pc = "publish"] \in Task
    BY TaskFields DEF PCs, IndInv, TypeOK
  <2>2. task' \in [Writers -> Task]
    BY <2>1 DEF Goto, IndInv, TypeOK
  <2> HIDE DEF b, H
  <2> QED
    BY <1>1, <2>2 DEF IndInv, TypeOK
<1>4. StoredChain'
  <2>1. ASSUME NEW h \in 1..(H + 1)
        PROVE  /\ blocks'[h] # None /\ Height[blocks'[h]] = h
               /\ Parent[blocks'[h]] = IF h = 1 THEN Genesis ELSE blocks'[h - 1]
    <3>1. CASE h = H + 1
      <4>1. blocks'[h] = b
        BY <1>1, <3>1 DEF IndInv, TypeOK
      <4>2. CASE H = 0
        BY <1>1, <3>1, <4>1, <4>2 DEF IndInv, TypeOK
      <4>3. CASE H # 0
        <5>1. blocks'[H] = blocks[H] /\ blocks[H] = diskTip
          BY <1>1, <4>3 DEF IndInv, StoredChain, TypeOK
        <5> QED
          BY <1>1, <3>1, <4>1, <4>3, <5>1
      <4> QED
        BY <4>2, <4>3
    <3>2. CASE h # H + 1
      <4>1. h \in 1..H /\ h \in Heights /\ blocks'[h] = blocks[h]
        BY <1>1, <3>2 DEF IndInv, TypeOK
      <4>2. h # 1 => blocks'[h - 1] = blocks[h - 1]
        BY <1>1, <3>2 DEF IndInv, TypeOK
      <4> QED
        BY <4>1, <4>2 DEF IndInv, StoredChain
    <3> QED
      BY <3>1, <3>2
  <2>2. blocks'[H + 1] = b
    BY <1>1 DEF IndInv, TypeOK
  <2> QED
    BY <1>1, <2>1, <2>2 DEF StoredChain
<1>5. UnmarkedIsClean'
  <2>1. written' = [x \in Block |-> IF x \in Applied \cup {b} THEN Parts ELSE 0]
    BY <1>1 DEF CleanRows
  <2> QED
    BY <1>1, <2>1 DEF UnmarkedIsClean, Clean
<1>6. Progress(t)'
  BY <1>1, <1>2 DEF Progress, Entered
<1> QED
  BY <1>3, <1>4, <1>5, <1>6 DEF IndInv, SingleWriter

\* A crash only loses memory.
LEMMA CrashInv == ASSUME IndInv, Crash PROVE IndInv'
<1>1. Idle \in Task /\ UNCHANGED disk
  BY IdleTask DEF Crash
<1>2. TypeOK'
  BY <1>1 DEF Crash, IndInv, TypeOK, disk
<1>3. StoredChain' /\ UnmarkedIsClean'
  BY <1>1, DiskKept DEF IndInv
<1>4. node' = "down" /\ \A t \in Writers : task'[t] = Idle
  BY DEF Crash
<1>5. \A t \in Writers : Progress(t)'
  BY <1>4 DEF Progress, Entered, Idle
<1> QED
  BY <1>2, <1>3, <1>4, <1>5 DEF IndInv

\* A node that boots finds a clean database.
LEMMA RestartInv == ASSUME IndInv, Restart PROVE IndInv'
<1> USE DEF Restart
<1>1. TypeOK'
  BY DEF IndInv, TypeOK
<1>2. StoredChain'
  BY DEF StoredChain, IndInv
<1>3. UnmarkedIsClean'
  BY DEF UnmarkedIsClean, Clean, Applied, IndInv
<1>4. \A t \in Writers : task'[t] = Idle /\ tip' = diskTip'
  BY DEF IndInv
<1>5. \A t \in Writers : Progress(t)'
  BY <1>4 DEF Progress, Entered, Idle
<1> QED
  BY <1>1, <1>2, <1>3, <1>4, <1>5 DEF IndInv

\* A snapshot is a clean prefix of the chain.
LEMMA RestoreInv == ASSUME IndInv, RestoreSnapshot PROVE IndInv'
<1> PICK h \in 0..Height[diskTip] :
          /\ diskTip' = IF h = 0 THEN Genesis ELSE blocks[h]
          /\ blocks' = [k \in Heights |-> IF k <= h THEN blocks[k] ELSE None]
          /\ written' = [b \in Block |-> IF b \in {blocks[k] : k \in 1..h} THEN Parts ELSE 0]
  BY DEF RestoreSnapshot
<1>0. node = "refused" /\ marker' = None /\ node' = "down" /\ UNCHANGED <<tip, task>>
  BY DEF RestoreSnapshot
<1>1. /\ Height[diskTip] \in 0..MaxHeight /\ h \in 0..MaxHeight
      /\ \A k \in 1..h : k \in Heights /\ blocks'[k] = blocks[k] /\ blocks[k] \in Block /\ Height[blocks[k]] = k
  BY AppliedHeights DEF IndInv, StoredChain, TypeOK
<1>2. Height[diskTip'] = h /\ diskTip' \in Block \cup {Genesis}
  <2>1. CASE h = 0
    BY <2>1
  <2>2. CASE h # 0
    <3>1. h \in 1..h
      BY <1>1, <2>2
    <3> QED
      BY <1>1, <2>2, <3>1
  <2> QED
    BY <2>1, <2>2
<1>3. TypeOK'
  <2>1. blocks' \in [Heights -> Block \cup {None}]
    BY DEF IndInv, TypeOK
  <2>2. written' \in [Block -> Nat]
    OBVIOUS
  <2> QED
    BY <1>0, <1>2, <2>1, <2>2 DEF IndInv, TypeOK
<1>4. StoredChain'
  <2>1. diskTip' # Genesis => blocks'[h] = diskTip'
    BY <1>1, <1>2
  <2>2. ASSUME NEW k \in 1..h
        PROVE  /\ blocks'[k] # None /\ Height[blocks'[k]] = k
               /\ Parent[blocks'[k]] = IF k = 1 THEN Genesis ELSE blocks'[k - 1]
    <3>1. blocks'[k] = blocks[k] /\ k \in 1..Height[diskTip]
      BY <1>1
    <3>2. /\ blocks[k] # None /\ Height[blocks[k]] = k
          /\ Parent[blocks[k]] = IF k = 1 THEN Genesis ELSE blocks[k - 1]
      BY <3>1 DEF IndInv, StoredChain
    <3>3. k # 1 => k - 1 \in 1..h
      OBVIOUS
    <3>4. k # 1 => blocks'[k - 1] = blocks[k - 1]
      BY <1>1, <3>3
    <3> QED
      BY <3>1, <3>2, <3>4
  <2> QED
    BY <1>2, <2>1, <2>2 DEF StoredChain
<1>5. Applied' = {blocks[k] : k \in 1..h}
  <2>1. Applied' = {blocks'[k] : k \in 1..h}
    BY <1>2 DEF Applied
  <2>2. \A k \in 1..h : blocks'[k] = blocks[k]
    BY <1>1
  <2>3. {blocks'[k] : k \in 1..h} = {blocks[k] : k \in 1..h}
    BY ONLY <2>2, SameImage
  <2> QED
    BY <2>1, <2>3
<1>6. UnmarkedIsClean'
  BY <1>5 DEF UnmarkedIsClean, Clean
<1>7. node' = "down" /\ \A t \in Writers : task'[t] = Idle
  BY <1>0 DEF IndInv
<1>8. \A t \in Writers : Progress(t)'
  BY <1>7 DEF Progress, Entered, Idle
<1> QED
  BY <1>3, <1>4, <1>6, <1>7, <1>8 DEF IndInv

\* Every step keeps the invariant.
LEMMA StepInv == ASSUME SingleWriter PROVE IndInv /\ [Next]_vars => IndInv'
<1> SUFFICES ASSUME IndInv, [Next]_vars PROVE IndInv'
  OBVIOUS
<1>1. CASE UNCHANGED vars
  <2>1. UNCHANGED <<disk, tip, task, node>>
    BY <1>1 DEF vars, disk
  <2>2. TypeOK' /\ StoredChain' /\ UnmarkedIsClean'
    BY <2>1, DiskKept DEF IndInv, TypeOK, disk
  <2>3. \A t \in Writers : Progress(t)'
    BY <2>1 DEF IndInv, Progress, Entered, CleanRows, Applied, disk
  <2> QED
    BY <2>1, <2>2, <2>3 DEF IndInv, disk
<1>2. ASSUME NEW t \in Writers, Step(t) PROVE IndInv'
  BY <1>2, CallInv, ReadMarkerInv, JudgeMarkerInv, ClearStaleInv, CheckTipInv, ValidateInv,
     SetMarkerInv, WriteRowInv, FailInv, FinalizeInv, PublishInv DEF Step
<1> QED
  BY <1>1, <1>2, CrashInv, RestartInv, RestoreInv DEF Next

\* The invariant holds of every reachable state.
LEMMA Inductive == ASSUME SingleWriter PROVE Spec => []IndInv
BY InitInv, StepInv, PTL DEF Spec

\* Type correctness, for any tree of blocks.
THEOREM TypesKept == ASSUME SingleWriter PROVE Spec => []TypeOK
<1>1. IndInv => TypeOK
  BY DEF IndInv
<1> QED
  BY <1>1, Inductive, PTL

\* Whatever the point of a crash or of an error, a database that a restart
\* accepts holds every row of its blocks once, and no other.
THEOREM CrashSafety == ASSUME SingleWriter PROVE Spec => []UnmarkedIsClean
<1>1. IndInv => UnmarkedIsClean
  BY DEF IndInv
<1> QED
  BY <1>1, Inductive, PTL

\* The blocks on disk always form a chain from genesis to the tip.
THEOREM ChainStored == ASSUME SingleWriter PROVE Spec => []StoredChain
<1>1. IndInv => StoredChain
  BY DEF IndInv
<1> QED
  BY <1>1, Inductive, PTL

-----------------------------------------------------------------------------
(* Refinement of the ledger. *)

\* Sequences given by a function on 1..n.
LEMMA SeqFacts ==
    ASSUME NEW f, NEW n \in Nat, NEW S, \A k \in 1..n : f[k] \in S
    PROVE  /\ [k \in 1..n |-> f[k]] \in Seq(S)
           /\ Len([k \in 1..n |-> f[k]]) = n
           /\ n = 0 => [k \in 1..n |-> f[k]] = <<>>
OBVIOUS

\* The chain on disk is a sequence of blocks that ends at the tip.
LEMMA ChainFacts ==
    ASSUME TypeOK, StoredChain
    PROVE  /\ ChainOnDisk \in Seq(Block)
           /\ Len(ChainOnDisk) = Height[diskTip]
           /\ Height[diskTip] = 0 => ChainOnDisk = <<>>
           /\ Abstract!TipOf(ChainOnDisk) = diskTip
<1>1. Height[diskTip] \in Nat /\ \A k \in 1..Height[diskTip] : blocks[k] \in Block
  BY DEF TypeOK, StoredChain
<1>2. /\ ChainOnDisk \in Seq(Block) /\ Len(ChainOnDisk) = Height[diskTip]
      /\ Height[diskTip] = 0 => ChainOnDisk = <<>>
  <2>1. ChainOnDisk = [k \in 1..Height[diskTip] |-> blocks[k]]
    BY DEF ChainOnDisk
  <2> QED
    BY ONLY <1>1, <2>1, SeqFacts
<1>3. CASE Height[diskTip] = 0
  <2>1. diskTip = Genesis
    BY <1>3 DEF TypeOK
  <2> QED
    BY <1>2, <1>3, <2>1 DEF Abstract!TipOf
<1>4. CASE Height[diskTip] # 0
  <2>1. ChainOnDisk # <<>> /\ Height[diskTip] \in 1..Height[diskTip]
    BY <1>1, <1>2, <1>4
  <2>2. ChainOnDisk[Height[diskTip]] = blocks[Height[diskTip]] /\ diskTip # Genesis
    BY <1>4, <2>1 DEF ChainOnDisk
  <2>3. blocks[Height[diskTip]] = diskTip
    BY <2>2 DEF StoredChain
  <2> QED
    BY <1>2, <2>1, <2>2, <2>3 DEF Abstract!TipOf
<1> QED
  BY <1>2, <1>3, <1>4

\* Databases a node starts from are chains of no block or of one.
LEMMA InitRefines == Init => Abstract!Init
<1> SUFFICES ASSUME Init PROVE Abstract!Init
  OBVIOUS
<1>1. TypeOK /\ StoredChain
  BY InitInv DEF IndInv
<1>2. PICK b \in {Genesis} \cup {x \in Block : Parent[x] = Genesis /\ Height[x] = 1} :
          /\ diskTip = b
          /\ blocks = [h \in Heights |-> IF h = Height[b] THEN b ELSE None]
          /\ marker \in {None, b} \ {Genesis}
  BY DEF Init
<1>3. Status = "clean"
  BY <1>2 DEF Status
<1>4. CASE b = Genesis
  BY <1>1, <1>2, <1>3, <1>4, ChainFacts DEF Abstract!Init
<1>5. CASE b # Genesis
  <2>1. b \in Block /\ Parent[b] = Genesis /\ Height[diskTip] = 1 /\ 1..1 = {1} /\ blocks[1] = b
    BY <1>2, <1>5
  <2>2. ChainOnDisk = <<b>>
    <3>1. ChainOnDisk = [h \in {1} |-> blocks[h]]
      BY <2>1 DEF ChainOnDisk
    <3> QED
      BY <2>1, <3>1
  <2> QED
    BY <1>3, <2>1, <2>2 DEF Abstract!Init
<1> QED
  BY <1>2, <1>4, <1>5

\* The marker tells which status the node is in.
LEMMA StatusFacts ==
    ASSUME IndInv, SingleWriter
    PROVE  /\ marker \in {None, diskTip} => Status = "clean"
           /\ \A t \in Writers : task[t].pc = "write" => Status = "applying"
           /\ marker \notin {None, diskTip} /\ (\A t \in Writers : task[t].pc # "write") => Status = "halted"
<1>1. ASSUME NEW t \in Writers, task[t].pc = "write" PROVE marker \notin {None, diskTip}
  <2>1. /\ marker = task[t].block /\ task[t].block \in Block
        /\ Height[task[t].block] = Height[diskTip] + 1
    BY <1>1 DEF IndInv, Progress, Entered
  <2> QED
    BY <2>1, NotApplied DEF IndInv
<1> QED
  BY <1>1 DEF Status

\* A chain grown by one block.
LEMMA ChainGrows ==
    ASSUME IndInv, SingleWriter, NEW t \in Writers, Finalize(t)
    PROVE  ChainOnDisk' = Append(ChainOnDisk, task[t].block)
<1> DEFINE b == task[t].block
           H == Height[diskTip]
<1>1. /\ b \in Block /\ Height[b] = H + 1 /\ H + 1 \in Heights /\ H \in Nat
      /\ blocks' = [blocks EXCEPT ![H + 1] = b] /\ diskTip' = b
  BY FinalizeEffect DEF Finalize
<1>2. \A k \in 1..H : blocks'[k] = blocks[k]
  BY <1>1 DEF IndInv, TypeOK
<1>3. blocks'[H + 1] = b
  BY <1>1 DEF IndInv, TypeOK
<1>4. ChainOnDisk' = [k \in 1..(H + 1) |-> blocks'[k]]
  BY <1>1 DEF ChainOnDisk
<1>5. /\ ChainOnDisk \in Seq(Block) /\ Len(ChainOnDisk) = H
      /\ \A k \in 1..H : ChainOnDisk[k] = blocks[k]
  BY ChainFacts DEF IndInv, ChainOnDisk
<1>6. Append(ChainOnDisk, b) = [k \in 1..(H + 1) |-> IF k = H + 1 THEN b ELSE ChainOnDisk[k]]
  BY ONLY <1>1, <1>5
<1> HIDE DEF b, H
<1>7. [k \in 1..(H + 1) |-> blocks'[k]] = [k \in 1..(H + 1) |-> IF k = H + 1 THEN b ELSE ChainOnDisk[k]]
  BY ONLY <1>1, <1>2, <1>3, <1>5
<1> QED
  BY <1>4, <1>6, <1>7 DEF b

\* A chain cut back to a snapshot.
LEMMA ChainCut ==
    ASSUME IndInv, RestoreSnapshot
    PROVE  \E h \in 0..Len(ChainOnDisk) : ChainOnDisk' = SubSeq(ChainOnDisk, 1, h)
<1>1. PICK h \in 0..Height[diskTip] :
          /\ diskTip' = IF h = 0 THEN Genesis ELSE blocks[h]
          /\ blocks' = [k \in Heights |-> IF k <= h THEN blocks[k] ELSE None]
  BY DEF RestoreSnapshot
<1>2. /\ Height[diskTip] \in 0..MaxHeight /\ h \in 0..MaxHeight
      /\ \A k \in 1..h : k \in Heights /\ blocks'[k] = blocks[k] /\ blocks[k] \in Block /\ Height[blocks[k]] = k
  BY <1>1, AppliedHeights DEF IndInv, StoredChain, TypeOK
<1>3. Height[diskTip'] = h
  <2>1. CASE h = 0
    BY <1>1, <2>1
  <2>2. CASE h # 0
    <3>1. h \in 1..h
      BY <1>2, <2>2
    <3> QED
      BY <1>1, <1>2, <2>2, <3>1
  <2> QED
    BY <2>1, <2>2
<1>4. /\ ChainOnDisk \in Seq(Block) /\ Len(ChainOnDisk) = Height[diskTip]
      /\ \A k \in 1..Height[diskTip] : ChainOnDisk[k] = blocks[k]
  BY ChainFacts DEF IndInv, ChainOnDisk
<1>5. ChainOnDisk' = [k \in 1..h |-> blocks'[k]]
  BY <1>3 DEF ChainOnDisk
<1>6. SubSeq(ChainOnDisk, 1, h) = [k \in 1..h |-> ChainOnDisk[k]]
  BY ONLY <1>1, <1>2, <1>4
<1>7. \A k \in 1..h : blocks'[k] = ChainOnDisk[k]
  BY <1>2, <1>4
<1>8. [k \in 1..h |-> blocks'[k]] = [k \in 1..h |-> ChainOnDisk[k]]
  BY ONLY <1>7
<1> QED
  BY <1>1, <1>4, <1>5, <1>6, <1>8

\* A step that leaves the database alone stutters, unless it ends a write.
LEMMA QuietRefines ==
    ASSUME IndInv, IndInv', SingleWriter, UNCHANGED disk,
           \A t \in Writers : task[t].pc = "write" <=> task'[t].pc = "write"
    PROVE  UNCHANGED <<ChainOnDisk, Status>>
BY DEF disk, ChainOnDisk, Status

\* Every step of apply_block maps to a step of the ledger or to a stutter.
LEMMA StepRefines ==
    ASSUME IndInv, IndInv', SingleWriter, NEW t \in Writers, Step(t)
    PROVE  [Abstract!Next]_<<ChainOnDisk, Status>>
<1> DEFINE quiet == UNCHANGED <<ChainOnDisk, Status>>
<1>0. task[t] \in Task /\ \A pc : Goto(t, pc) => task'[t].pc = pc
  BY GotoFields DEF IndInv, TypeOK
<1>1. CASE Call(t)
  <2>1. UNCHANGED disk /\ task[t].pc = "idle" /\ task'[t].pc = "guard"
    BY <1>1 DEF Call, At, Idle, IndInv, TypeOK
  <2> QED
    BY <2>1, QuietRefines DEF SingleWriter
<1>2. CASE ReadMarker(t)
  <2>1. UNCHANGED disk /\ task[t].pc = "guard" /\ task'[t].pc \in {"check", "stale"}
    BY <1>2 DEF ReadMarker, At, IndInv, TypeOK, Task
  <2> QED
    BY <2>1, QuietRefines DEF SingleWriter
<1>3. CASE JudgeMarker(t) \/ CheckTip(t) \/ Validate(t)
  <2>1. Return(t) => task'[t].pc = "idle"
    BY DEF Return, Idle, IndInv, TypeOK
  <2>2. UNCHANGED disk /\ task[t].pc # "write" /\ task'[t].pc # "write"
    BY <1>0, <1>3, <2>1 DEF JudgeMarker, CheckTip, Validate, At
  <2> QED
    BY <2>2, QuietRefines DEF SingleWriter
<1>4. CASE Publish(t)
  <2>1. UNCHANGED disk /\ task[t].pc = "publish" /\ task'[t].pc = "idle"
    BY <1>4 DEF Publish, At, Return, Idle, IndInv, TypeOK
  <2> QED
    BY <2>1, QuietRefines DEF SingleWriter
<1>5. CASE ClearStale(t)
  <2>1. marker = diskTip /\ marker' = None /\ UNCHANGED <<blocks, diskTip>>
    BY <1>5 DEF ClearStale, At, IndInv, Progress, Entered
  <2>2. Status = "clean" /\ Status' = "clean"
    BY <2>1 DEF Status
  <2> QED
    BY <2>1, <2>2 DEF ChainOnDisk
<1>6. CASE SetMarker(t)
  <2>1. marker = None /\ task'[t].pc = "write" /\ UNCHANGED <<blocks, diskTip>>
    BY <1>0, <1>6 DEF SetMarker, At, IndInv, Progress, Entered
  <2>2. marker' \notin {None, diskTip'}
    <3>1. /\ marker' = task[t].block /\ task[t].block \in Block
          /\ Height[task[t].block] = Height[diskTip] + 1
      BY <1>6 DEF SetMarker, At, IndInv, Progress, Entered
    <3> QED
      BY <2>1, <3>1, NotApplied DEF IndInv
  <2>3. Status = "clean" /\ Status' = "applying"
    BY <2>1, <2>2 DEF Status
  <2> QED
    BY <2>1, <2>3 DEF ChainOnDisk, Abstract!Next, Abstract!Begin
<1>7. CASE WriteRow(t)
  <2>1. /\ UNCHANGED <<blocks, diskTip, marker>>
        /\ task[t].pc = "write" /\ task'[t].pc = "write"
    BY <1>0, <1>7 DEF WriteRow, At, IndInv, TypeOK, Task
  <2> QED
    BY <2>1 DEF ChainOnDisk, Status
<1>8. CASE Fail(t)
  <2>1. UNCHANGED disk /\ task[t].pc = "write" /\ task'[t].pc = "idle"
    BY <1>8 DEF Fail, At, Return, Idle, IndInv, TypeOK
  <2>2. Status = "applying" /\ marker \notin {None, diskTip}
    BY <2>1, StatusFacts
  <2>3. Status' = "halted"
    BY <2>1, <2>2 DEF Status, SingleWriter, disk
  <2> QED
    BY <2>1, <2>2, <2>3 DEF ChainOnDisk, disk, Abstract!Next, Abstract!Halt
<1>9. CASE Finalize(t)
  <2>1. Status = "applying"
    BY <1>9, StatusFacts DEF Finalize, At
  <2>2. Status' = "clean"
    BY <1>9 DEF Finalize, Status
  <2>3. /\ task[t].block \in Block /\ Parent[task[t].block] = diskTip
        /\ Abstract!TipOf(ChainOnDisk) = diskTip
    BY <1>9, FinalizeEffect, ChainFacts DEF IndInv
  <2> QED
    BY <1>9, <2>1, <2>2, <2>3, ChainGrows DEF Abstract!Next, Abstract!Extend
<1> QED
  BY <1>1, <1>2, <1>3, <1>4, <1>5, <1>6, <1>7, <1>8, <1>9 DEF Step

\* Crashes halt a write, restarts change nothing, snapshots cut the chain.
LEMMA NodeRefines ==
    ASSUME IndInv, IndInv', SingleWriter, Crash \/ Restart \/ RestoreSnapshot
    PROVE  [Abstract!Next]_<<ChainOnDisk, Status>>
<1>1. CASE Crash
  <2>1. UNCHANGED disk /\ \A t \in Writers : task'[t].pc # "write"
    BY <1>1 DEF Crash, Idle
  <2>2. CASE \E t \in Writers : task[t].pc = "write"
    <3>1. Status = "applying" /\ marker \notin {None, diskTip}
      BY <2>2, StatusFacts
    <3>2. Status' = "halted"
      BY <2>1, <3>1 DEF Status, disk
    <3> QED
      BY <2>1, <3>1, <3>2 DEF ChainOnDisk, disk, Abstract!Next, Abstract!Halt
  <2>3. CASE \A t \in Writers : task[t].pc # "write"
    BY <2>1, <2>3, QuietRefines
  <2> QED
    BY <2>2, <2>3
<1>2. CASE Restart
  <2>1. UNCHANGED <<blocks, diskTip, task>>
    BY <1>2 DEF Restart
  <2>2. marker \in {None, diskTip} => marker' = None
    BY <1>2 DEF Restart
  <2>3. marker \notin {None, diskTip} => marker' = marker
    BY <1>2 DEF Restart
  <2> QED
    BY <2>1, <2>2, <2>3 DEF ChainOnDisk, Status
<1>3. CASE RestoreSnapshot
  <2>1. node = "refused" /\ marker' = None
    BY <1>3 DEF RestoreSnapshot
  <2>2. \A t \in Writers : task[t].pc # "write"
    BY <2>1 DEF IndInv, Idle
  <2>3. Status = "halted" /\ Status' = "clean"
    BY <2>1, <2>2, StatusFacts DEF IndInv, Status
  <2> QED
    BY <1>3, <2>3, ChainCut DEF Abstract!Next, Abstract!Restore
<1> QED
  BY <1>1, <1>2, <1>3

\* apply_block, with its crashes and restarts, implements the ledger: the chain
\* on disk grows by whole blocks that extend it, and only a snapshot follows
\* an aborted apply.
THEOREM Refinement == ASSUME SingleWriter PROVE Spec => ImplementsLedger
<1>1. IndInv /\ IndInv' /\ [Next]_vars => [Abstract!Next]_<<ChainOnDisk, Status>>
  <2> SUFFICES ASSUME IndInv, IndInv', [Next]_vars
               PROVE  [Abstract!Next]_<<ChainOnDisk, Status>>
    OBVIOUS
  <2>1. CASE UNCHANGED vars
    BY <2>1 DEF vars, ChainOnDisk, Status
  <2>2. CASE \E t \in Writers : Step(t)
    BY <2>2, StepRefines
  <2>3. CASE Crash \/ Restart \/ RestoreSnapshot
    BY <2>3, NodeRefines
  <2> QED
    BY <2>1, <2>2, <2>3 DEF Next
<1> QED
  BY <1>1, InitRefines, Inductive, PTL DEF Spec, ImplementsLedger, Abstract!Spec

-----------------------------------------------------------------------------
(* Several tasks in apply_block, on a validator. *)

\* The database has a block of every height up to n.
Filled(n) == \A h \in 1..n : v_blocks[h] # None

\* How far the blocks on disk reach is known to a task once it has compared its block
\* with the tip in memory, which is one of them.
Reach(t) ==
    LET k == v_task[t] IN
      /\ k.pc # "idle" => k.block \in Block
      /\ k.pc \in {"validate", "mark", "write"} => Filled(Height[k.block] - 1)
      /\ k.pc = "publish" => Filled(Height[k.block])

RaceInv ==
    /\ Validator!TypeOK
    /\ \A h \in Heights : v_blocks[h] # None => Height[v_blocks[h]] = h
    /\ Filled(Height[v_diskTip])
    /\ Validator!TipStored
    /\ v_node = "up" => Filled(Height[v_tip])
    /\ v_node # "up" => \A t \in RaceWriters : v_task[t] = Validator!Idle
    /\ \A t \in RaceWriters : Reach(t)

\* Tasks, program counters and heights are those of the follower.
LEMMA SameTasks ==
  /\ Validator!Task = Task /\ Validator!PCs = PCs /\ Validator!Idle = Idle
  /\ Validator!Heights = 1..MaxHeight
BY DEF Validator!Task, Validator!PCs, Validator!Idle, Validator!Heights, Task, PCs, Idle

LEMMA RaceInit == Validator!Init => RaceInv
<1> SUFFICES ASSUME Validator!Init PROVE RaceInv
  OBVIOUS
<1> PICK b \in {Genesis} \cup {x \in Block : Parent[x] = Genesis /\ Height[x] = 1} :
          /\ v_diskTip = b
          /\ v_blocks = [h \in Validator!Heights |-> IF h = Height[b] THEN b ELSE None]
          /\ v_written = [x \in Block |-> IF x = b THEN Parts ELSE 0]
          /\ v_marker \in {None, b} \ {Genesis}
  BY DEF Validator!Init
<1>0. Height[b] \in {0, 1} /\ (Height[b] = 0 <=> b = Genesis) /\ 1 \in Heights /\ 0 \notin Heights
  OBVIOUS
<1>1. v_blocks = [h \in Heights |-> IF h = Height[b] THEN b ELSE None]
  BY SameTasks
<1>2. v_tip = Genesis /\ v_node = "down" /\ v_task = [t \in RaceWriters |-> Idle] /\ Idle \in Task
  BY SameTasks, IdleTask DEF Validator!Init
<1>3. Validator!TypeOK
  <2>1. v_blocks \in [Heights -> Block \cup {None}]
    BY <1>0, <1>1
  <2>2. v_written \in [Block -> Nat] /\ v_diskTip \in Block \cup {Genesis} /\ v_marker \in Block \cup {None}
    OBVIOUS
  <2>. QED BY <1>2, <2>1, <2>2, SameTasks DEF Validator!TypeOK
<1>4. Filled(Height[v_diskTip]) /\ Validator!TipStored
  <2>1. CASE b = Genesis
    BY <1>0, <2>1 DEF Filled, Validator!TipStored
  <2>2. CASE b # Genesis
    <3>1. Height[b] = 1 /\ 1..1 = {1} /\ v_blocks[1] = b
      BY <1>0, <1>1, <2>2
    <3>. QED BY <2>2, <3>1 DEF Filled, Validator!TipStored
  <2>. QED BY <2>1, <2>2
<1>5. \A h \in Heights : v_blocks[h] # None => Height[v_blocks[h]] = h
  BY <1>1
<1>6. \A t \in RaceWriters : v_task[t] = Idle /\ Reach(t)
  BY <1>2 DEF Reach, Idle
<1>. QED BY <1>2, <1>3, <1>4, <1>5, <1>6, SameTasks DEF RaceInv

\* A step of one task that leaves the blocks, the tips and the node alone.
LEMMA RaceTask ==
  ASSUME RaceInv, NEW t \in RaceWriters, v_node = "up", NEW k \in Task,
         v_task' = [v_task EXCEPT ![t] = k], UNCHANGED <<v_blocks, v_diskTip, v_tip, v_node>>,
         v_marker' \in Block \cup {None}, v_written' \in [Block -> Nat],
         k.pc # "idle" => k.block \in Block,
         k.pc \in {"validate", "mark", "write"} => Filled(Height[k.block] - 1),
         k.pc = "publish" => Filled(Height[k.block])
  PROVE  RaceInv'
<1>1. Validator!TypeOK'
  BY SameTasks DEF RaceInv, Validator!TypeOK
<1>2. \A n : Filled(n)' = Filled(n)
  BY DEF Filled
<1>3. ASSUME NEW s \in RaceWriters PROVE Reach(s)'
  <2>1. v_task'[s] = IF s = t THEN k ELSE v_task[s]
    BY DEF RaceInv, Validator!TypeOK
  <2>. QED BY <1>2, <2>1 DEF RaceInv, Reach
<1>. QED BY <1>1, <1>2, <1>3 DEF RaceInv, Validator!TipStored

LEMMA RaceQuiet ==
  ASSUME RaceInv, NEW t \in RaceWriters,
         \/ Validator!Call(t) \/ Validator!ReadMarker(t) \/ Validator!JudgeMarker(t)
         \/ Validator!ClearStale(t) \/ Validator!CheckTip(t) \/ Validator!Validate(t)
         \/ Validator!SetMarker(t) \/ Validator!WriteRow(t) \/ Validator!Fail(t)
  PROVE  RaceInv'
<1> DEFINE k == v_task[t]
<1>0. /\ k \in Task /\ v_marker \in Block \cup {None} /\ v_written \in [Block -> Nat]
      /\ Idle \in Task /\ Idle.pc = "idle" /\ Reach(t)
      /\ v_tip \in Block \cup {Genesis} /\ k.part \in 0..Parts
  BY SameTasks, IdleTask DEF RaceInv, Validator!TypeOK, Idle, Task
<1>1. CASE Validator!Call(t)
  <2> PICK b \in RaceOffered[t] : v_task' = [v_task EXCEPT ![t] = [Idle EXCEPT !.pc = "guard", !.block = b]]
    BY <1>1, SameTasks DEF Validator!Call
  <2>1. b \in Block
    BY RaceAssumption
  <2>2. [Idle EXCEPT !.pc = "guard", !.block = b] \in Task
    BY <2>1, <1>0, TaskFields DEF PCs
  <2>. QED
    BY <1>0, <1>1, <2>1, <2>2, RaceTask DEF Validator!Call, Validator!At, Validator!disk, Idle
<1>2. CASE Validator!ReadMarker(t)
  <2> DEFINE pc == IF v_marker = None THEN "check" ELSE "stale"
  <2>1. [k EXCEPT !.pc = pc, !.seen = v_marker] \in Task
    BY <1>0, TaskFields DEF PCs
  <2>2. v_task' = [v_task EXCEPT ![t] = [k EXCEPT !.pc = pc, !.seen = v_marker]]
    BY <1>2 DEF Validator!ReadMarker
  <2>3. [k EXCEPT !.pc = pc, !.seen = v_marker].pc = pc /\ [k EXCEPT !.pc = pc, !.seen = v_marker].block = k.block
    BY <1>0 DEF Task
  <2>4. /\ v_node = "up" /\ k.block \in Block
        /\ UNCHANGED <<v_written, v_blocks, v_diskTip, v_marker, v_tip, v_node>>
    BY <1>0, <1>2 DEF Validator!ReadMarker, Validator!At, Validator!disk, Reach
  <2> DEFINE r == [k EXCEPT !.pc = pc, !.seen = v_marker]
  <2>5. r \in Task /\ r.pc \in {"check", "stale"} /\ r.block \in Block
        /\ v_task' = [v_task EXCEPT ![t] = r]
    BY <2>1, <2>2, <2>3, <2>4
  <2> HIDE DEF r
  <2>. QED BY <1>0, <2>4, <2>5, RaceTask
<1>3. ASSUME Validator!Return(t), v_node = "up", UNCHANGED <<v_written, v_blocks, v_diskTip, v_tip, v_node>>,
             v_marker' = v_marker
      PROVE  RaceInv'
  <2>1. v_task' = [v_task EXCEPT ![t] = Idle]
    BY <1>3, SameTasks DEF Validator!Return
  <2>. QED BY <1>0, <1>3, <2>1, RaceTask
<1>4. ASSUME NEW pc \in PCs, Validator!Goto(t, pc), v_node = "up",
             UNCHANGED <<v_written, v_blocks, v_diskTip, v_tip, v_node>>,
             v_marker' \in Block \cup {None}, pc \notin {"idle", "publish"}, k.pc # "idle",
             pc \in {"validate", "mark", "write"} => Filled(Height[k.block] - 1)
      PROVE  RaceInv'
  <2>1. [k EXCEPT !.pc = pc] \in Task /\ [k EXCEPT !.pc = pc].pc = pc /\ [k EXCEPT !.pc = pc].block = k.block
    BY <1>0, TaskFields DEF Task
  <2>2. v_task' = [v_task EXCEPT ![t] = [k EXCEPT !.pc = pc]]
    BY <1>4 DEF Validator!Goto
  <2>. QED BY <1>0, <1>4, <2>1, <2>2, RaceTask DEF Reach
<1>5. CASE Validator!JudgeMarker(t)
  BY <1>3, <1>4, <1>5 DEF Validator!JudgeMarker, Validator!At, Validator!disk, PCs, RaceInv, Validator!TypeOK
<1>6. CASE Validator!ClearStale(t)
  BY <1>4, <1>6 DEF Validator!ClearStale, Validator!At, PCs
<1>7. CASE Validator!CheckTip(t)
  <2>1. v_node = "up" => Filled(Height[v_tip])
    BY DEF RaceInv
  <2>2. Height[k.block] = Height[v_tip] + 1 => Height[k.block] - 1 = Height[v_tip]
    BY <1>0
  <2>. QED
    BY <1>0, <1>3, <1>4, <1>7, <2>1, <2>2 DEF Validator!CheckTip, Validator!At, Validator!disk, PCs, RaceInv, Validator!TypeOK
<1>8. CASE Validator!Validate(t)
  BY <1>0, <1>3, <1>4, <1>8 DEF Validator!Validate, Validator!At, Validator!disk, PCs, RaceInv, Validator!TypeOK, Reach
<1>9. CASE Validator!SetMarker(t)
  BY <1>0, <1>4, <1>9 DEF Validator!SetMarker, Validator!At, PCs, Reach
<1>10. CASE Validator!WriteRow(t)
  <2>1. v_node = "up" /\ k.pc = "write" /\ k.part < Parts
        /\ v_written' = [v_written EXCEPT ![k.block] = @ + 1]
        /\ v_task' = [v_task EXCEPT ![t] = [k EXCEPT !.part = k.part + 1]]
        /\ UNCHANGED <<v_blocks, v_diskTip, v_marker, v_tip, v_node>>
    BY <1>10 DEF Validator!WriteRow, Validator!At
  <2>2. k.part + 1 \in 0..Parts
    BY <1>0, <2>1
  <2>3. [k EXCEPT !.part = k.part + 1] \in Task /\ [k EXCEPT !.part = k.part + 1].pc = k.pc
        /\ [k EXCEPT !.part = k.part + 1].block = k.block
    BY <1>0, <2>2, TaskFields DEF Task
  <2>4. v_written' \in [Block -> Nat]
    <3>1. k.block \in Block /\ v_written[k.block] + 1 \in Nat
      BY <1>0, <2>1 DEF Reach
    <3>. QED BY <1>0, <2>1, <3>1
  <2>. QED BY <1>0, <2>1, <2>3, <2>4, RaceTask DEF Reach
<1>11. CASE Validator!Fail(t)
  BY <1>3, <1>11 DEF Validator!Fail, Validator!At, Validator!disk
<1>. QED BY <1>1, <1>2, <1>5, <1>6, <1>7, <1>8, <1>9, <1>10, <1>11

\* The batch adds the block of one height more than the disk was known to have.
LEMMA RaceFinalize ==
  ASSUME RaceInv, NEW t \in RaceWriters, Validator!Finalize(t)
  PROVE  RaceInv'
<1> DEFINE k == v_task[t]
           b == k.block
<1>0. /\ k \in Task /\ k.pc = "write" /\ b \in Block /\ Filled(Height[b] - 1) /\ v_node = "up"
      /\ v_blocks \in [Heights -> Block \cup {None}] /\ Height[b] \in Heights
  BY SameTasks DEF RaceInv, Validator!TypeOK, Validator!Finalize, Validator!At, Reach
<1>1. /\ v_blocks' = [v_blocks EXCEPT ![Height[b]] = b] /\ v_diskTip' = b /\ v_marker' = None
      /\ v_task' = [v_task EXCEPT ![t] = [k EXCEPT !.pc = "publish"]]
      /\ UNCHANGED <<v_written, v_tip, v_node>>
  BY DEF Validator!Finalize, Validator!Goto
<1>2. [k EXCEPT !.pc = "publish"] \in Task /\ [k EXCEPT !.pc = "publish"].pc = "publish"
      /\ [k EXCEPT !.pc = "publish"].block = b
  <2>1. [k EXCEPT !.pc = "publish"] \in Task
    BY <1>0, TaskFields DEF PCs
  <2>. QED BY <1>0, <2>1 DEF Task
<1> HIDE DEF k, b
<1>3. v_blocks' \in [Heights -> Block \cup {None}] /\ v_blocks'[Height[b]] = b
      /\ \A h \in Heights \ {Height[b]} : v_blocks'[h] = v_blocks[h]
  BY <1>0, <1>1
<1>4. Validator!TypeOK'
  BY <1>0, <1>1, <1>2, <1>3, SameTasks DEF RaceInv, Validator!TypeOK
<1>5. ASSUME NEW n \in 0..MaxHeight, Filled(n) PROVE Filled(n)'
  <2>1. \A h \in 1..n : h \in Heights
    OBVIOUS
  <2>. QED BY <1>0, <1>3, <1>5, <2>1 DEF Filled
<1>6. \A x \in Block \cup {Genesis} : Height[x] \in 0..MaxHeight
  OBVIOUS
<1>7. \A n \in 0..MaxHeight : n = Height[b] => Filled(n)'
  <2> SUFFICES ASSUME NEW n \in 0..MaxHeight, n = Height[b], NEW h \in 1..n PROVE v_blocks'[h] # None
    BY DEF Filled
  <2>1. CASE h = n
    BY <1>0, <1>3, <2>1
  <2>2. CASE h # n
    <3>1. h \in 1..(Height[b] - 1) /\ h \in Heights \ {Height[b]}
      BY <2>2
    <3>. QED BY <1>0, <1>3, <3>1 DEF Filled
  <2>. QED BY <2>1, <2>2
<1>8. \A h \in Heights : v_blocks'[h] # None => Height[v_blocks'[h]] = h
  BY <1>3 DEF RaceInv
<1>9. Filled(Height[v_diskTip])' /\ Validator!TipStored'
  <2>1. PICK n \in 0..MaxHeight : n = Height[b]
    BY <1>0
  <2>2. Filled(n)' /\ Height[v_diskTip'] = n
    BY <1>1, <1>7, <2>1
  <2>. QED BY <1>1, <1>3, <2>2 DEF Filled, Validator!TipStored
<1>10. v_node' = "up" /\ Filled(Height[v_tip])'
  <2>1. PICK n \in 0..MaxHeight : n = Height[v_tip]
    BY <1>6 DEF RaceInv, Validator!TypeOK
  <2>2. Filled(n)' /\ Height[v_tip'] = n
    BY <1>0, <1>1, <1>5, <2>1 DEF RaceInv
  <2>. QED BY <1>0, <1>1, <2>2 DEF Filled
<1>11. ASSUME NEW s \in RaceWriters PROVE Reach(s)'
  <2>1. CASE s = t
    <3>1. v_task'[s].pc = "publish" /\ v_task'[s].block = b
      BY <1>1, <1>2, <2>1 DEF RaceInv, Validator!TypeOK
    <3>2. PICK n \in 0..MaxHeight : n = Height[b]
      BY <1>0
    <3>3. Filled(n)' /\ Height[v_task'[s].block] = n
      BY <1>7, <3>1, <3>2
    <3>. QED BY <1>0, <3>1, <3>3 DEF Reach, Filled
  <2>2. CASE s # t
    <3>1. v_task'[s] = v_task[s] /\ Reach(s)
      BY <1>1, <2>2 DEF RaceInv, Validator!TypeOK
    <3>2. CASE v_task[s].pc \in {"validate", "mark", "write"}
      <4>1. v_task[s].block \in Block
        BY <3>1, <3>2 DEF Reach
      <4>2. PICK n \in 0..MaxHeight : n = Height[v_task[s].block] - 1
        BY <4>1
      <4>3. Filled(n)'
        BY <1>5, <3>1, <3>2, <4>2 DEF Reach
      <4>4. Height[v_task'[s].block] - 1 = n
        BY <3>1, <4>2
      <4>. QED BY <3>1, <3>2, <4>1, <4>3, <4>4 DEF Reach, Filled
    <3>3. CASE v_task[s].pc = "publish"
      <4>1. v_task[s].block \in Block
        BY <3>1, <3>3 DEF Reach
      <4>2. PICK n \in 0..MaxHeight : n = Height[v_task[s].block]
        BY <4>1
      <4>3. Filled(n)' /\ Height[v_task'[s].block] = n
        BY <1>5, <3>1, <3>3, <4>2 DEF Reach
      <4>. QED BY <3>1, <3>3, <4>1, <4>3 DEF Reach, Filled
    <3>4. CASE v_task[s].pc \notin {"validate", "mark", "write", "publish"}
      BY <3>1, <3>4 DEF Reach
    <3>. QED BY <3>2, <3>3, <3>4
  <2>. QED BY <2>1, <2>2
<1>. QED BY <1>4, <1>8, <1>9, <1>10, <1>11 DEF RaceInv

LEMMA RacePublish ==
  ASSUME RaceInv, NEW t \in RaceWriters, Validator!Publish(t)
  PROVE  RaceInv'
<1>1. /\ v_task[t].block \in Block /\ Filled(Height[v_task[t].block]) /\ v_node = "up"
      /\ v_tip' = v_task[t].block /\ v_task' = [v_task EXCEPT ![t] = Idle] /\ Idle \in Task
      /\ UNCHANGED <<v_written, v_blocks, v_diskTip, v_marker, v_node>>
  BY SameTasks, IdleTask DEF RaceInv, Validator!Publish, Validator!At, Reach, Validator!Return, Validator!disk
<1>2. Validator!TypeOK'
  BY <1>1, SameTasks DEF RaceInv, Validator!TypeOK
<1>3. \A n : Filled(n)' = Filled(n)
  BY <1>1 DEF Filled
<1>4. ASSUME NEW s \in RaceWriters PROVE Reach(s)'
  <2>1. v_task'[s] = IF s = t THEN Idle ELSE v_task[s]
    BY <1>1 DEF RaceInv, Validator!TypeOK
  <2>. QED BY <1>3, <2>1 DEF RaceInv, Reach, Idle
<1>5. Filled(Height[v_tip])' /\ Filled(Height[v_diskTip])'
  BY <1>1 DEF RaceInv, Filled
<1>. QED BY <1>1, <1>2, <1>3, <1>4, <1>5 DEF RaceInv, Validator!TipStored

\* Crash, restart, and the operator's recovery.
LEMMA RaceNode ==
  ASSUME RaceInv, Validator!Crash \/ Validator!Restart \/ Validator!RestoreSnapshot
  PROVE  RaceInv'
<1>1. CASE Validator!Crash
  <2>1. /\ v_task' = [t \in RaceWriters |-> Idle] /\ Idle \in Task /\ v_node' = "down" /\ v_tip' = Genesis
        /\ UNCHANGED <<v_written, v_blocks, v_diskTip, v_marker>>
    BY <1>1, SameTasks, IdleTask DEF Validator!Crash, Validator!disk
  <2>2. Validator!TypeOK'
    BY <2>1, SameTasks DEF RaceInv, Validator!TypeOK
  <2>3. \A s \in RaceWriters : v_task'[s] = Idle /\ Reach(s)'
    BY <2>1 DEF Reach, Idle
  <2>4. Filled(Height[v_diskTip])'
    BY <2>1 DEF RaceInv, Filled
  <2>. QED BY <2>1, <2>2, <2>3, <2>4, SameTasks DEF RaceInv, Validator!TipStored
<1>2. CASE Validator!Restart
  <2>1. /\ v_tip' = v_diskTip /\ v_node' \in {"up", "refused"} /\ v_marker' \in {None, v_marker}
        /\ v_node = "down" /\ UNCHANGED <<v_written, v_blocks, v_diskTip, v_task>>
    BY <1>2 DEF Validator!Restart
  <2>2. Validator!TypeOK'
    BY <2>1 DEF RaceInv, Validator!TypeOK
  <2>3. \A s \in RaceWriters : v_task'[s] = Idle /\ Reach(s)'
    BY <2>1, SameTasks DEF RaceInv, Reach, Idle
  <2>4. Filled(Height[v_diskTip])' /\ Filled(Height[v_tip])'
    BY <2>1 DEF RaceInv, Filled
  <2>. QED BY <2>1, <2>2, <2>3, <2>4, SameTasks DEF RaceInv, Validator!TipStored
<1>3. CASE Validator!RestoreSnapshot
  <2>1. PICK h \in 0..Height[v_diskTip] :
          /\ v_diskTip' = IF h = 0 THEN Genesis ELSE v_blocks[h]
          /\ v_blocks' = [k \in Heights |-> IF k <= h THEN v_blocks[k] ELSE None]
          /\ v_written' = [b \in Block |-> IF b \in {v_blocks[k] : k \in 1..h} THEN Parts ELSE 0]
    BY <1>3, SameTasks DEF Validator!RestoreSnapshot
  <2>2. /\ v_node = "refused" /\ v_marker' = None /\ v_node' = "down" /\ UNCHANGED <<v_tip, v_task>>
        /\ v_diskTip \in Block \cup {Genesis} /\ v_blocks \in [Heights -> Block \cup {None}]
    BY <1>3, SameTasks DEF Validator!RestoreSnapshot, RaceInv, Validator!TypeOK
  <2>3. Height[v_diskTip] \in 0..MaxHeight /\ h \in 0..MaxHeight
    BY <2>2
  <2>4. \A k \in 1..h : k \in Heights /\ v_blocks'[k] = v_blocks[k] /\ v_blocks[k] \in Block
                        /\ Height[v_blocks[k]] = k
    BY <2>1, <2>2, <2>3 DEF RaceInv, Filled
  <2>5. Height[v_diskTip'] = h /\ v_diskTip' \in Block \cup {Genesis}
        /\ (v_diskTip' # Genesis => v_blocks'[h] = v_diskTip')
    <3>1. CASE h = 0
      BY <2>1, <3>1
    <3>2. CASE h # 0
      <4>1. h \in 1..h
        BY <2>3, <3>2
      <4>. QED BY <2>1, <2>4, <3>2, <4>1
    <3>. QED BY <3>1, <3>2
  <2>6. Validator!TypeOK'
    <3>1. v_blocks' \in [Heights -> Block \cup {None}] /\ v_written' \in [Block -> Nat]
      BY <2>1, <2>2
    <3>. QED BY <2>2, <2>5, <3>1, SameTasks DEF RaceInv, Validator!TypeOK
  <2>7. \A k \in Heights : v_blocks'[k] # None => Height[v_blocks'[k]] = k
    BY <2>1 DEF RaceInv
  <2>8. Filled(Height[v_diskTip])' /\ Validator!TipStored'
    BY <2>4, <2>5 DEF Filled, Validator!TipStored
  <2>9. \A s \in RaceWriters : v_task'[s] = Idle /\ Reach(s)'
    BY <2>2, SameTasks DEF RaceInv, Reach, Idle
  <2>. QED BY <2>2, <2>6, <2>7, <2>8, <2>9, SameTasks DEF RaceInv
<1>. QED BY <1>1, <1>2, <1>3

LEMMA RaceStep == ASSUME RaceInv, [Validator!Next]_validatorVars PROVE RaceInv'
<1>1. CASE UNCHANGED validatorVars
  <2>1. UNCHANGED <<v_written, v_blocks, v_diskTip, v_marker, v_tip, v_task, v_node>>
    BY <1>1 DEF validatorVars
  <2>. QED BY <2>1 DEF RaceInv, Validator!TypeOK, Validator!TipStored, Filled, Reach
<1>2. ASSUME NEW t \in RaceWriters, Validator!Step(t) PROVE RaceInv'
  BY <1>2, RaceQuiet, RaceFinalize, RacePublish DEF Validator!Step
<1>. QED BY <1>1, <1>2, RaceNode DEF Validator!Next

\* With any number of tasks in apply_block, of crashes and of restores, the block that
\* the tip on disk names is on disk: the batch writes both, and a snapshot is cut at a
\* height that has a block (apply_block, State::open).
THEOREM RaceKeepsTip == ViewSpec => []TipStoredInRace
<1>1. ViewInit => RaceInv
  BY RaceInit DEF ViewInit
<1>2. RaceInv /\ [ViewNext]_viewVars => RaceInv'
  <2> SUFFICES ASSUME RaceInv, [ViewNext]_viewVars PROVE RaceInv'
    OBVIOUS
  <2>1. [Validator!Next]_validatorVars
    BY DEF ViewNext, viewVars
  <2>. QED BY <2>1, RaceStep
<1>3. RaceInv => TipStoredInRace
  BY DEF RaceInv, TipStoredInRace
<1>. QED BY <1>1, <1>2, <1>3, PTL DEF ViewSpec

-----------------------------------------------------------------------------
(* The accounts.  The transactions of a block are simulated and then applied one by one:
   what holds after the first n of them is shown by induction on n. *)

LEMMA UpTo ==
  ASSUME NEW N \in Nat, NEW S, 0 \in S, \A n \in 1..N : n - 1 \in S => n \in S
  PROVE  \A n \in 0..N : n \in S
<1> DEFINE Bad == {n \in 0..N : n \notin S}
<1>1. SUFFICES ASSUME Bad # {} PROVE FALSE
  OBVIOUS
<1>2. Bad \in SUBSET Nat
  OBVIOUS
<1> HIDE DEF Bad
<1>3. PICK m \in Bad : \A n \in Bad : m <= n
  BY <1>1, <1>2, LeastNumber
<1>4. m \in 0..N /\ m \notin S
  BY <1>3 DEF Bad
<1>5. m \in 1..N /\ m - 1 \in 0..N /\ ~(m <= m - 1)
  BY <1>4
<1>6. m - 1 \in S
  BY <1>3, <1>5 DEF Bad
<1>. QED BY <1>4, <1>5, <1>6

\* f is what the steps of G make of a, one after the other.
Runs(f, a, G, N) == f[0] = a /\ \A n \in 1..N : f[n] = G[<<f[n - 1], n>>]

LEMMA RunExists ==
  ASSUME NEW A, NEW a \in A, NEW N \in Nat, NEW G \in [A \X (1..N) -> A]
  PROVE  \E f \in [0..N -> A] : Runs(f, a, G, N)
<1> DEFINE S == {n \in 0..N : \E f \in [0..n -> A] : Runs(f, a, G, n)}
<1>1. 0 \in S
  <2> DEFINE f == [k \in 0..0 |-> a]
  <2>1. f \in [0..0 -> A] /\ Runs(f, a, G, 0)
    BY DEF Runs
  <2>. QED BY <2>1
<1>2. ASSUME NEW n \in 1..N, n - 1 \in S PROVE n \in S
  <2>1. PICK f \in [0..(n - 1) -> A] : Runs(f, a, G, n - 1)
    BY <1>2
  <2> DEFINE last == G[<<f[n - 1], n>>]
             g    == [k \in 0..n |-> IF k = n THEN last ELSE f[k]]
  <2>2. n - 1 \in 0..(n - 1) /\ f[n - 1] \in A /\ last \in A
    BY <2>1
  <2>3. g \in [0..n -> A]
    BY <2>2
  <2>4. g[0] = a
    BY <2>1 DEF Runs
  <2>5. ASSUME NEW k \in 1..n PROVE g[k] = G[<<g[k - 1], k>>]
    <3>1. g[k - 1] = f[k - 1]
      OBVIOUS
    <3>2. CASE k = n
      <4>1. g[n] = last /\ last = G[<<f[n - 1], n>>]
        OBVIOUS
      <4> HIDE DEF g, last
      <4>. QED BY <3>1, <3>2, <4>1
    <3>3. CASE k # n
      <4>1. k \in 1..(n - 1) /\ g[k] = f[k]
        BY <3>3
      <4>. QED BY <2>1, <3>1, <4>1 DEF Runs
    <3>. QED BY <3>2, <3>3
  <2> HIDE DEF g
  <2>6. Runs(g, a, G, n)
    BY <2>4, <2>5 DEF Runs
  <2>. QED BY <2>3, <2>6
<1> HIDE DEF S
<1>3. N \in S
  <2>1. \A n \in 0..N : n \in S
    BY <1>1, <1>2, UpTo
  <2>. QED BY <2>1
<1>. QED BY <1>3 DEF S

-----------------------------------------------------------------------------
Rows     == [Account -> Nat]
Accounts == [balance : Rows, nonce : Rows, price : {1, 2}, reserve : Nat, fees : Nat]
Outcome  == [l : Accounts, failed : BOOLEAN]
Forecast == [balance : Rows, nonce : Rows, ok : BOOLEAN]

LEMMA TxFacts ==
  ASSUME NEW t \in Tx
  PROVE  /\ t.from \in Account /\ t.to \in Account
         /\ t.amount \in Nat /\ t.fee \in Nat /\ t.nonce \in Nat /\ t.price \in Nat
BY MoneyAssumption

LEMMA RowChanged ==
  ASSUME NEW r \in Rows, NEW a \in Account, NEW n \in Nat
  PROVE  [r EXCEPT ![a] = n] \in Rows
BY DEF Rows

\* One transaction, simulated and applied.
LEMMA SimulateTypes ==
  ASSUME NEW s \in Forecast, NEW t \in Tx
  PROVE  Money!Simulate(s, t) \in Forecast
<1>1. s.balance \in Rows /\ s.nonce \in Rows /\ s.ok \in BOOLEAN
  BY DEF Forecast
<1>2. s.balance[t.from] \in Nat /\ s.nonce[t.from] \in Nat /\ t.from \in Account
      /\ t.amount \in Nat /\ t.fee \in Nat
  BY <1>1, TxFacts DEF Rows
<1> DEFINE b == IF s.balance[t.from] >= t.amount + t.fee
                THEN s.balance[t.from] - (t.amount + t.fee) ELSE s.balance[t.from]
<1>3. b \in Nat /\ s.nonce[t.from] + 1 \in Nat
  BY <1>2
<1>4. /\ [s.balance EXCEPT ![t.from] = b] \in Rows
      /\ [s.nonce EXCEPT ![t.from] = s.nonce[t.from] + 1] \in Rows
  BY <1>1, <1>3 DEF Rows
<1>. QED BY <1>1, <1>4 DEF Money!Simulate, Money!SimulateTx, Forecast

\* What a transaction that is accepted does to the ledger.
LEMMA TransferIs ==
  ASSUME NEW l \in Accounts, NEW t \in Tx, t.from # t.to, Money!Acceptable(l, t)
  PROVE  LET u == Money!Transfer(l, t) IN
         /\ u \in Accounts
         /\ u.balance[t.from] + t.amount + t.fee = l.balance[t.from]
         /\ u.balance[t.to] = l.balance[t.to] + t.amount
         /\ \A a \in Account \ {t.from, t.to} : u.balance[a] = l.balance[a]
         /\ u.nonce = [l.nonce EXCEPT ![t.from] = l.nonce[t.from] + 1]
         /\ u.price = l.price /\ u.reserve = l.reserve /\ u.fees = l.fees
<1>1. /\ l.balance \in Rows /\ l.nonce \in Rows /\ l.price \in {1, 2}
      /\ l.reserve \in Nat /\ l.fees \in Nat
  BY DEF Accounts
<1>2. /\ t.from \in Account /\ t.to \in Account /\ t.amount \in Nat /\ t.fee \in Nat
  BY TxFacts
<1>3. /\ l.balance[t.from] \in Nat /\ l.balance[t.to] \in Nat /\ l.nonce[t.from] \in Nat
      /\ l.balance[t.from] >= t.amount + t.fee
  BY <1>1, <1>2 DEF Rows, Money!Acceptable
<1> DEFINE to   == l.balance[t.to] + t.amount
           from == l.balance[t.from] - (t.amount + t.fee)
           bal  == [[l.balance EXCEPT ![t.from] = from] EXCEPT ![t.to] = to]
           non  == [l.nonce EXCEPT ![t.from] = l.nonce[t.from] + 1]
           u    == Money!Transfer(l, t)
<1>4. to \in Nat /\ from \in Nat /\ from + t.amount + t.fee = l.balance[t.from]
  BY <1>2, <1>3
<1>5. bal \in Rows /\ non \in Rows
  <2>1. [l.balance EXCEPT ![t.from] = from] \in Rows /\ l.nonce[t.from] + 1 \in Nat
    BY <1>1, <1>2, <1>3, <1>4, RowChanged
  <2>. QED BY <1>1, <1>2, <1>4, <2>1, RowChanged
<1>6. bal[t.from] = from /\ bal[t.to] = to /\ \A a \in Account \ {t.from, t.to} : bal[a] = l.balance[a]
  BY <1>1, <1>2 DEF Rows
<1>7. u = [l EXCEPT !.balance = bal, !.nonce = non]
  <2>1. u = [l EXCEPT !.balance = bal, !.nonce = IF t.to = t.from THEN l.nonce ELSE non]
    BY Zenon DEF Money!Transfer
  <2>2. ~(t.to = t.from)
    OBVIOUS
  <2> HIDE DEF u, bal, non
  <2>. QED BY <2>1, <2>2
<1> HIDE DEF bal, non, to, from
<1>8. /\ u \in Accounts /\ u.balance = bal /\ u.nonce = non
      /\ u.price = l.price /\ u.reserve = l.reserve /\ u.fees = l.fees
  BY <1>5, <1>7 DEF Accounts
<1>. QED BY <1>4, <1>6, <1>8 DEF to, non

LEMMA SwapIs ==
  ASSUME NEW l \in Accounts, NEW t \in Tx, Money!Acceptable(l, t)
  PROVE  LET u == Money!Swap(l, t) IN
         /\ u \in Accounts
         /\ u.balance[t.from] + t.amount + t.fee = l.balance[t.from]
         /\ \A a \in Account \ {t.from} : u.balance[a] = l.balance[a]
         /\ u.reserve = l.reserve + t.amount /\ u.fees = l.fees
<1>1. /\ l.balance \in Rows /\ l.nonce \in Rows /\ l.price \in {1, 2}
      /\ l.reserve \in Nat /\ l.fees \in Nat
  BY DEF Accounts
<1>2. /\ t.from \in Account /\ t.amount \in Nat /\ t.fee \in Nat
  BY TxFacts
<1>3. /\ l.balance[t.from] \in Nat /\ l.nonce[t.from] \in Nat
      /\ l.balance[t.from] >= t.amount + t.fee
  BY <1>1, <1>2 DEF Rows, Money!Acceptable
<1> DEFINE from == l.balance[t.from] - (t.amount + t.fee)
           bal  == [l.balance EXCEPT ![t.from] = from]
           non  == [l.nonce EXCEPT ![t.from] = l.nonce[t.from] + 1]
           res  == l.reserve + t.amount
           at   == 3 - l.price
           u    == Money!Swap(l, t)
<1>4. from \in Nat /\ from + t.amount + t.fee = l.balance[t.from] /\ res \in Nat /\ at \in {1, 2}
  BY <1>1, <1>2, <1>3
<1>5. bal \in Rows /\ non \in Rows
  <2>1. l.nonce[t.from] + 1 \in Nat
    BY <1>3
  <2>. QED BY <1>1, <1>2, <1>4, <2>1, RowChanged
<1>6. bal[t.from] = from /\ \A a \in Account \ {t.from} : bal[a] = l.balance[a]
  BY <1>1, <1>2 DEF Rows
<1>7. u = [l EXCEPT !.balance = bal, !.nonce = non, !.reserve = res, !.price = at]
  BY DEF Money!Swap, Accounts
<1> HIDE DEF bal, non, from, res, at
<1>8. u \in Accounts /\ u.balance = bal /\ u.reserve = res /\ u.fees = l.fees
  BY <1>4, <1>5, <1>7 DEF Accounts
<1>. QED BY <1>4, <1>6, <1>8 DEF res

LEMMA RefundIs ==
  ASSUME NEW l \in Accounts, NEW t \in Tx, Money!Acceptable(l, t)
  PROVE  Money!Refund(l, t) \in Accounts /\ Money!Refund(l, t).fees = l.fees
<1>1. /\ l.balance \in Rows /\ l.nonce \in Rows
  BY DEF Accounts
<1>2. /\ t.from \in Account /\ t.amount \in Nat /\ t.fee \in Nat
  BY TxFacts
<1>3. /\ l.balance[t.from] \in Nat /\ l.nonce[t.from] \in Nat
      /\ l.balance[t.from] >= t.amount + t.fee
  BY <1>1, <1>2 DEF Rows, Money!Acceptable
<1> DEFINE bal  == [l.balance EXCEPT ![t.from] = l.balance[t.from] - t.fee]
           non  == [l.nonce EXCEPT ![t.from] = l.nonce[t.from] + 1]
<1>4. l.balance[t.from] - t.fee \in Nat
  BY <1>2, <1>3
<1>5. bal \in Rows /\ non \in Rows
  <2>1. l.nonce[t.from] + 1 \in Nat
    BY <1>3
  <2>. QED BY <1>1, <1>2, <1>4, <2>1, RowChanged
<1>6. Money!Refund(l, t) = [l EXCEPT !.balance = bal, !.nonce = non]
  BY DEF Money!Refund, Accounts
<1> HIDE DEF bal, non
<1>. QED BY <1>5, <1>6 DEF Accounts

\* Transfers of an account to itself make money: none here.
NoSelfTransfer == \A t \in Tx : Money!IsSwap(t) \/ t.from # t.to

Worth(l) == SumFunctionOnSet(l.balance, Account) + l.reserve

LEMMA WorthNat == ASSUME NEW r \in Rows PROVE SumFunctionOnSet(r, Account) \in Nat
<1>1. IsFiniteSet(Account) /\ \A a \in Account : r[a] \in Nat
  BY MoneyAssumption DEF Rows
<1>. QED BY <1>1, SumNat

\* A change of one row.
LEMMA RowChange ==
  ASSUME NEW r \in Rows, NEW q \in Rows, NEW a \in Account, \A b \in Account \ {a} : q[b] = r[b]
  PROVE  SumFunctionOnSet(q, Account) + r[a] = SumFunctionOnSet(r, Account) + q[a]
<1>1. IsFiniteSet(Account)
  BY MoneyAssumption
<1>2. \A b \in Account : r[b] \in Nat /\ q[b] \in Nat
  BY DEF Rows
<1>. QED BY <1>1, <1>2, SumChange

LEMMA TransferWorth ==
  ASSUME NEW l \in Accounts, NEW t \in Tx, t.from # t.to, Money!Acceptable(l, t)
  PROVE  Worth(Money!Transfer(l, t)) + t.fee = Worth(l)
<1>1. PICK u : u = Money!Transfer(l, t)
  OBVIOUS
<1>2. /\ u \in Accounts /\ u.reserve = l.reserve
      /\ u.balance[t.from] + t.amount + t.fee = l.balance[t.from]
      /\ u.balance[t.to] = l.balance[t.to] + t.amount
      /\ \A a \in Account \ {t.from, t.to} : u.balance[a] = l.balance[a]
  BY <1>1, TransferIs
<1>3. l.balance \in Rows /\ u.balance \in Rows /\ l.reserve \in Nat
  BY <1>2 DEF Accounts
<1>4. t.from \in Account /\ t.to \in Account /\ t.amount \in Nat /\ t.fee \in Nat
  BY TxFacts
<1> DEFINE mid == [l.balance EXCEPT ![t.from] = u.balance[t.from]]
<1>5. mid \in Rows
  <2>1. u.balance[t.from] \in Nat
    BY <1>3, <1>4 DEF Rows
  <2>. QED BY <1>3, <1>4, <2>1, RowChanged
<1>6. /\ mid[t.from] = u.balance[t.from] /\ mid[t.to] = l.balance[t.to]
      /\ \A b \in Account \ {t.from} : mid[b] = l.balance[b]
      /\ \A b \in Account \ {t.to} : u.balance[b] = mid[b]
  BY <1>2, <1>3, <1>4 DEF Rows
<1> HIDE DEF mid
<1>7. SumFunctionOnSet(mid, Account) + l.balance[t.from] = SumFunctionOnSet(l.balance, Account) + mid[t.from]
  BY <1>3, <1>4, <1>5, <1>6, RowChange
<1>8. SumFunctionOnSet(u.balance, Account) + mid[t.to] = SumFunctionOnSet(mid, Account) + u.balance[t.to]
  BY <1>3, <1>4, <1>5, <1>6, RowChange
<1>9. PICK s0 \in Nat, s1 \in Nat, s2 \in Nat, x \in Nat, y \in Nat, v \in Nat, w \in Nat, f \in Nat, r \in Nat :
        /\ s0 = SumFunctionOnSet(l.balance, Account) /\ s1 = SumFunctionOnSet(mid, Account)
        /\ s2 = SumFunctionOnSet(u.balance, Account) /\ x = l.balance[t.from]
        /\ y = u.balance[t.from] /\ v = l.balance[t.to] /\ w = t.amount /\ f = t.fee /\ r = l.reserve
  BY <1>3, <1>4, <1>5, WorthNat DEF Rows
<1>10. y + w + f = x /\ s1 + x = s0 + y /\ s2 + v = s1 + (v + w)
  BY <1>2, <1>6, <1>7, <1>8, <1>9
<1>11. s2 = s1 + w /\ s1 + (y + w + f) = s0 + y
  BY <1>10
<1>12. (s1 + w) + f = s0
  BY <1>11
<1>13. (s2 + r) + f = s0 + r
  BY <1>11, <1>12
<1>. QED BY <1>1, <1>2, <1>9, <1>13 DEF Worth

LEMMA SwapWorth ==
  ASSUME NEW l \in Accounts, NEW t \in Tx, Money!Acceptable(l, t)
  PROVE  Worth(Money!Swap(l, t)) + t.fee = Worth(l)
<1>1. PICK u : u = Money!Swap(l, t)
  OBVIOUS
<1>2. /\ u \in Accounts /\ u.reserve = l.reserve + t.amount
      /\ u.balance[t.from] + t.amount + t.fee = l.balance[t.from]
      /\ \A a \in Account \ {t.from} : u.balance[a] = l.balance[a]
  BY <1>1, SwapIs
<1>3. l.balance \in Rows /\ u.balance \in Rows /\ l.reserve \in Nat
  BY <1>2 DEF Accounts
<1>4. t.from \in Account /\ t.amount \in Nat /\ t.fee \in Nat
  BY TxFacts
<1>5. SumFunctionOnSet(u.balance, Account) + l.balance[t.from]
        = SumFunctionOnSet(l.balance, Account) + u.balance[t.from]
  BY <1>2, <1>3, <1>4, RowChange
<1>6. PICK s0 \in Nat, s1 \in Nat, x \in Nat, y \in Nat, w \in Nat, f \in Nat, r \in Nat :
        /\ s0 = SumFunctionOnSet(l.balance, Account) /\ s1 = SumFunctionOnSet(u.balance, Account)
        /\ x = l.balance[t.from] /\ y = u.balance[t.from] /\ w = t.amount /\ f = t.fee /\ r = l.reserve
  BY <1>3, <1>4, WorthNat DEF Rows
<1>7. y + w + f = x /\ s1 + x = s0 + y
  BY <1>2, <1>5, <1>6
<1>8. (s1 + (r + w)) + f = s0 + r
  BY <1>7
<1>. QED BY <1>1, <1>2, <1>6, <1>8 DEF Worth

LEMMA ApplyKeeps ==
  ASSUME NoSelfTransfer, NEW x \in Outcome, NEW t \in Tx
  PROVE  LET y == Money!ApplyTx(x, t) IN
         /\ y \in Outcome /\ y.l.fees = x.l.fees
         /\ ~y.failed => ~x.failed /\ Worth(y.l) + t.fee = Worth(x.l)
<1>1. x.l \in Accounts /\ x.failed \in BOOLEAN
  BY DEF Outcome
<1>2. CASE x.failed
  <2>1. Money!ApplyTx(x, t) = x
    BY <1>2 DEF Money!ApplyTx
  <2>. QED BY <1>2, <2>1
<1>3. CASE ~x.failed /\ ~Money!Acceptable(x.l, t)
  <2>1. Money!ApplyTx(x, t) = [x EXCEPT !.failed = TRUE]
    BY <1>3 DEF Money!ApplyTx
  <2>2. Money!ApplyTx(x, t) = [l |-> x.l, failed |-> TRUE]
    BY <2>1 DEF Outcome
  <2>. QED BY <1>1, <2>2 DEF Outcome
<1>4. CASE ~x.failed /\ Money!Acceptable(x.l, t) /\ ~Money!IsSwap(t)
  <2>1. Money!ApplyTx(x, t) = [l |-> Money!Transfer(x.l, t), failed |-> FALSE]
    BY <1>4 DEF Money!ApplyTx
  <2>2. t.from # t.to
    BY <1>4 DEF NoSelfTransfer
  <2>3. Money!Transfer(x.l, t) \in Accounts /\ Money!Transfer(x.l, t).fees = x.l.fees
    BY <1>1, <1>4, <2>2, TransferIs
  <2>4. Worth(Money!Transfer(x.l, t)) + t.fee = Worth(x.l)
    BY <1>1, <1>4, <2>2, TransferWorth
  <2>. QED BY <1>4, <2>1, <2>3, <2>4 DEF Outcome
<1>5. CASE ~x.failed /\ Money!Acceptable(x.l, t) /\ Money!IsSwap(t) /\ t.price = x.l.price
  <2>1. Money!ApplyTx(x, t) = [l |-> Money!Swap(x.l, t), failed |-> FALSE]
    BY <1>5 DEF Money!ApplyTx
  <2>3. Money!Swap(x.l, t) \in Accounts /\ Money!Swap(x.l, t).fees = x.l.fees
    BY <1>1, <1>5, SwapIs
  <2>4. Worth(Money!Swap(x.l, t)) + t.fee = Worth(x.l)
    BY <1>1, <1>5, SwapWorth
  <2>. QED BY <1>5, <2>1, <2>3, <2>4 DEF Outcome
<1>6. CASE ~x.failed /\ Money!Acceptable(x.l, t) /\ Money!IsSwap(t) /\ t.price # x.l.price
  <2>1. Money!ApplyTx(x, t) = [l |-> Money!Refund(x.l, t), failed |-> TRUE]
    BY <1>6 DEF Money!ApplyTx
  <2>2. Money!Refund(x.l, t) \in Accounts /\ Money!Refund(x.l, t).fees = x.l.fees
    BY <1>1, <1>6, RefundIs
  <2>. QED BY <2>1, <2>2 DEF Outcome
<1>. QED BY <1>2, <1>3, <1>4, <1>5, <1>6

-----------------------------------------------------------------------------
(* A block. *)

LEMMA AppliedIs ==
  ASSUME NoSelfTransfer, p_ledger \in Accounts, NEW txs \in Seq(Tx)
  PROVE  LET run == Money!Applied(txs) IN
         /\ run[0] = [l |-> p_ledger, failed |-> FALSE]
         /\ \A n \in 1..Len(txs) : run[n] = Money!ApplyTx(run[n - 1], txs[n])
         /\ \A n \in 0..Len(txs) : run[n] \in Outcome
<1> DEFINE N == Len(txs)
           a == [l |-> p_ledger, failed |-> FALSE]
           G == [k \in Outcome \X (1..N) |-> Money!ApplyTx(k[1], txs[k[2]])]
           run == CHOOSE f : f = [n \in 0..N |-> IF n = 0 THEN a ELSE Money!ApplyTx(f[n - 1], txs[n])]
<1>1. N \in Nat /\ a \in Outcome /\ \A n \in 1..N : txs[n] \in Tx
  BY DEF Outcome
<1>2. \A x \in Outcome, n \in 1..N : Money!ApplyTx(x, txs[n]) \in Outcome
  BY <1>1, ApplyKeeps
<1>3. G \in [Outcome \X (1..N) -> Outcome]
  BY <1>2
<1>4. \A x \in Outcome, n \in 1..N : G[<<x, n>>] = Money!ApplyTx(x, txs[n])
  OBVIOUS
<1>5. Money!Applied(txs) = run
  BY DEF Money!Applied
<1> HIDE DEF G, a, N
<1>6. PICK f \in [0..N -> Outcome] : Runs(f, a, G, N)
  BY <1>1, <1>3, RunExists
<1>7. \A n \in 1..N : f[n] = Money!ApplyTx(f[n - 1], txs[n])
  <2> TAKE n \in 1..N
  <2>1. n - 1 \in 0..N
    BY <1>1
  <2>. QED BY <1>4, <1>6, <2>1 DEF Runs
<1>8. f[0] = a
  BY <1>6 DEF Runs
<1>9. f = [n \in 0..N |-> IF n = 0 THEN a ELSE Money!ApplyTx(f[n - 1], txs[n])]
  <2>1. \A n \in 0..N : n # 0 => n \in 1..N
    BY <1>1
  <2>2. \A n \in 0..N : f[n] = IF n = 0 THEN a ELSE Money!ApplyTx(f[n - 1], txs[n])
    BY <1>7, <1>8, <2>1
  <2>3. f = [n \in 0..N |-> f[n]]
    BY <1>6
  <2>. QED BY <2>2, <2>3
<1>10. run = [n \in 0..N |-> IF n = 0 THEN a ELSE Money!ApplyTx(run[n - 1], txs[n])]
  BY <1>9
<1> HIDE DEF run
<1>11. run[0] = a /\ \A n \in 1..N : run[n] = Money!ApplyTx(run[n - 1], txs[n])
  <2>1. 0 \in 0..N /\ \A n \in 1..N : n \in 0..N /\ n # 0
    BY <1>1
  <2>. QED BY <1>10, <2>1
<1>12. \A n \in 0..N : run[n] \in Outcome
  <2> DEFINE S == {n \in 0..N : run[n] \in Outcome}
  <2>1. 0 \in S
    BY <1>1, <1>11
  <2>2. ASSUME NEW n \in 1..N, n - 1 \in S PROVE n \in S
    <3>1. n \in 0..N
      BY <1>1
    <3>. QED BY <1>2, <1>11, <2>2, <3>1
  <2> HIDE DEF S
  <2>3. \A n \in 0..N : n \in S
    BY <1>1, <2>1, <2>2, UpTo
  <2>. QED BY <2>3 DEF S
<1>. QED BY <1>5, <1>11, <1>12 DEF a, N

LEMMA SimulatedIs ==
  ASSUME p_ledger \in Accounts, NEW txs \in Seq(Tx)
  PROVE  LET sim == Money!Simulated(txs) IN
         /\ sim[0] = [balance |-> p_ledger.balance, nonce |-> p_ledger.nonce, ok |-> TRUE]
         /\ \A n \in 1..Len(txs) : sim[n] = Money!Simulate(sim[n - 1], txs[n])
         /\ \A n \in 0..Len(txs) : sim[n] \in Forecast
<1> DEFINE N == Len(txs)
           a == [balance |-> p_ledger.balance, nonce |-> p_ledger.nonce, ok |-> TRUE]
           G == [k \in Forecast \X (1..N) |-> Money!Simulate(k[1], txs[k[2]])]
           sim == CHOOSE f : f = [n \in 0..N |-> IF n = 0 THEN a ELSE Money!Simulate(f[n - 1], txs[n])]
<1>1. N \in Nat /\ a \in Forecast /\ \A n \in 1..N : txs[n] \in Tx
  BY DEF Forecast, Accounts
<1>2. \A x \in Forecast, n \in 1..N : Money!Simulate(x, txs[n]) \in Forecast
  BY <1>1, SimulateTypes
<1>3. G \in [Forecast \X (1..N) -> Forecast]
  BY <1>2
<1>4. \A x \in Forecast, n \in 1..N : G[<<x, n>>] = Money!Simulate(x, txs[n])
  OBVIOUS
<1>5. Money!Simulated(txs) = sim
  BY DEF Money!Simulated
<1> HIDE DEF G, a, N
<1>6. PICK f \in [0..N -> Forecast] : Runs(f, a, G, N)
  BY <1>1, <1>3, RunExists
<1>7. \A n \in 1..N : f[n] = Money!Simulate(f[n - 1], txs[n])
  <2> TAKE n \in 1..N
  <2>1. n - 1 \in 0..N
    BY <1>1
  <2>. QED BY <1>4, <1>6, <2>1 DEF Runs
<1>8. f[0] = a
  BY <1>6 DEF Runs
<1>9. f = [n \in 0..N |-> IF n = 0 THEN a ELSE Money!Simulate(f[n - 1], txs[n])]
  <2>1. \A n \in 0..N : n # 0 => n \in 1..N
    BY <1>1
  <2>2. \A n \in 0..N : f[n] = IF n = 0 THEN a ELSE Money!Simulate(f[n - 1], txs[n])
    BY <1>7, <1>8, <2>1
  <2>3. f = [n \in 0..N |-> f[n]]
    BY <1>6
  <2>. QED BY <2>2, <2>3
<1>10. sim = [n \in 0..N |-> IF n = 0 THEN a ELSE Money!Simulate(sim[n - 1], txs[n])]
  BY <1>9
<1> HIDE DEF sim
<1>11. sim[0] = a /\ \A n \in 1..N : sim[n] = Money!Simulate(sim[n - 1], txs[n])
  <2>1. 0 \in 0..N /\ \A n \in 1..N : n \in 0..N /\ n # 0
    BY <1>1
  <2>. QED BY <1>10, <2>1
<1>12. \A n \in 0..N : sim[n] \in Forecast
  <2> DEFINE S == {n \in 0..N : sim[n] \in Forecast}
  <2>1. 0 \in S
    BY <1>1, <1>11
  <2>2. ASSUME NEW n \in 1..N, n - 1 \in S PROVE n \in S
    <3>1. n \in 0..N
      BY <1>1
    <3>. QED BY <1>2, <1>11, <2>2, <3>1
  <2> HIDE DEF S
  <2>3. \A n \in 0..N : n \in S
    BY <1>1, <2>1, <2>2, UpTo
  <2>. QED BY <2>3 DEF S
<1>. QED BY <1>5, <1>11, <1>12 DEF a, N

Fees(txs) == [i \in DOMAIN txs |-> txs[i].fee]

LEMMA FeesNat ==
  ASSUME NEW txs \in Seq(Tx)
  PROVE  /\ \A i \in 1..Len(txs) : Fees(txs)[i] = txs[i].fee /\ Fees(txs)[i] \in Nat
         /\ Money!FeesOf(txs) = SumFunctionOnSet(Fees(txs), 1..Len(txs))
         /\ Money!FeesOf(txs) \in Nat
<1>1. DOMAIN txs = 1..Len(txs) /\ \A i \in 1..Len(txs) : txs[i] \in Tx /\ txs[i].fee \in Nat
  BY TxFacts
<1>2. Money!FeesOf(txs) = SumFunctionOnSet(Fees(txs), DOMAIN txs)
  BY DEF Money!FeesOf, Fees, Money!SumFunctionOnSet, Money!FoldFunctionOnSet, Money!MapThenFoldSet,
         SumFunctionOnSet, FoldFunctionOnSet, MapThenFoldSet
<1>3. \A i \in 1..Len(txs) : Fees(txs)[i] = txs[i].fee /\ Fees(txs)[i] \in Nat
  BY <1>1 DEF Fees
<1>4. IsFiniteSet(1..Len(txs))
  BY FS_Interval
<1>5. SumFunctionOnSet(Fees(txs), 1..Len(txs)) \in Nat
  BY <1>3, <1>4, SumNat
<1>. QED BY <1>1, <1>2, <1>3, <1>5

\* What the first n transactions took out of the accounts is their fees.
LEMMA BlockConserves ==
  ASSUME NoSelfTransfer, p_ledger \in Accounts, NEW txs \in Seq(Tx),
         NEW r, r = Money!Applied(txs)[Len(txs)]
  PROVE  /\ r \in Outcome /\ r.l.fees = p_ledger.fees
         /\ ~r.failed => Worth(r.l) + Money!FeesOf(txs) = Worth(p_ledger)
<1> DEFINE N == Len(txs)
           F == Fees(txs)
<1>1. PICK run : run = Money!Applied(txs)
  OBVIOUS
<1>2. /\ run[0] = [l |-> p_ledger, failed |-> FALSE]
      /\ \A n \in 1..N : run[n] = Money!ApplyTx(run[n - 1], txs[n])
      /\ \A n \in 0..N : run[n] \in Outcome
  BY <1>1, AppliedIs
<1>3. N \in Nat /\ N \in 0..N /\ \A n \in 1..N : txs[n] \in Tx /\ F[n] = txs[n].fee /\ F[n] \in Nat
  BY FeesNat
<1> DEFINE S == {n \in 0..N :
                   /\ run[n].l.fees = p_ledger.fees
                   /\ ~run[n].failed =>
                        Worth(run[n].l) + SumFunctionOnSet(F, 1..n) = Worth(p_ledger)}
<1>4. 0 \in S
  <2>1. SumFunctionOnSet(F, 1..0) = 0
    BY SumEmpty
  <2>2. Worth(p_ledger) \in Nat
    BY WorthNat DEF Worth, Accounts
  <2>3. run[0].l = p_ledger /\ Worth(run[0].l) + SumFunctionOnSet(F, 1..0) = Worth(p_ledger)
    BY <1>2, <2>1, <2>2
  <2>. QED BY <1>3, <2>3
<1>5. ASSUME NEW n \in 1..N, n - 1 \in S PROVE n \in S
  <2>1. n \in 0..N /\ n - 1 \in 0..N /\ n \in Nat
    BY <1>3
  <2>2. PICK x : x = run[n - 1]
    OBVIOUS
  <2>3. PICK y : y = run[n]
    OBVIOUS
  <2>4. x \in Outcome /\ y = Money!ApplyTx(x, txs[n]) /\ txs[n] \in Tx
    BY <1>2, <1>3, <2>1, <2>2, <2>3
  <2>5. y \in Outcome /\ y.l.fees = x.l.fees
        /\ (~y.failed => ~x.failed /\ Worth(y.l) + txs[n].fee = Worth(x.l))
    BY <2>4, ApplyKeeps
  <2>6. x.l.fees = p_ledger.fees
        /\ (~x.failed => Worth(x.l) + SumFunctionOnSet(F, 1..(n - 1)) = Worth(p_ledger))
    BY <1>5, <2>2
  <2>7. SumFunctionOnSet(F, 1..n) = SumFunctionOnSet(F, 1..(n - 1)) + F[n]
    <3>1. 1..n = (1..(n - 1)) \cup {n} /\ n \notin 1..(n - 1)
      BY <2>1
    <3>2. IsFiniteSet(1..(n - 1))
      BY <2>1, FS_Interval
    <3>3. \A i \in (1..(n - 1)) \cup {n} : F[i] \in Nat
      BY <1>3, <2>1
    <3> HIDE DEF F
    <3>. QED BY <3>1, <3>2, <3>3, SumAdd
  <2>8. SumFunctionOnSet(F, 1..(n - 1)) \in Nat
    <3>1. IsFiniteSet(1..(n - 1))
      BY <2>1, FS_Interval
    <3>2. \A i \in 1..(n - 1) : i \in 1..N
      BY <1>3
    <3>3. \A i \in 1..(n - 1) : F[i] \in Nat
      BY <1>3, <3>2
    <3> HIDE DEF F
    <3>. QED BY <3>1, <3>3, SumNat
  <2>9. Worth(y.l) \in Nat
    BY <2>5, WorthNat DEF Worth, Outcome, Accounts
  <2>10. ~y.failed => Worth(y.l) + SumFunctionOnSet(F, 1..n) = Worth(p_ledger)
    <3> SUFFICES ASSUME ~y.failed PROVE Worth(y.l) + SumFunctionOnSet(F, 1..n) = Worth(p_ledger)
      OBVIOUS
    <3>1. PICK b \in Nat, c \in Nat, f \in Nat :
             b = Worth(y.l) /\ c = SumFunctionOnSet(F, 1..(n - 1)) /\ f = F[n]
      BY <1>3, <2>8, <2>9
    <3>2. (b + f) + c = Worth(p_ledger)
      BY <1>3, <2>5, <2>6, <3>1
    <3>3. b + (c + f) = (b + f) + c
      OBVIOUS
    <3>. QED BY <2>7, <3>1, <3>2, <3>3
  <2>. QED BY <2>1, <2>3, <2>5, <2>6, <2>10
<1> HIDE DEF S, F
<1>6. N \in S
  <2>1. \A n \in 0..N : n \in S
    BY <1>3, <1>4, <1>5, UpTo
  <2>. QED BY <1>3, <2>1
<1>7. r = run[N]
  BY <1>1
<1>8. r \in Outcome
  BY <1>2, <1>3, <1>7
<1>9. Money!FeesOf(txs) = SumFunctionOnSet(F, 1..N)
  BY FeesNat DEF F
<1>. QED BY <1>6, <1>7, <1>8, <1>9 DEF S

\* How far a simulation stands for what is applied: a forecast that is right so far has
\* the nonces, and no account has less than it was foreseen to have.
Covers(s, x) ==
    s.ok => /\ ~x.failed /\ x.l.price = p_ledger.price /\ x.l.nonce = s.nonce
            /\ \A a \in Account : x.l.balance[a] >= s.balance[a]

LEMMA CoversNext ==
  ASSUME NoSelfTransfer, p_ledger \in Accounts,
         NEW s \in Forecast, NEW x \in Outcome, NEW t \in Tx, ~Money!IsSwap(t), Covers(s, x)
  PROVE  Covers(Money!Simulate(s, t), Money!ApplyTx(x, t))
<1>1. PICK z : z = Money!Simulate(s, t)
  OBVIOUS
<1>2. SUFFICES ASSUME z.ok PROVE Covers(z, Money!ApplyTx(x, t))
  BY <1>1 DEF Covers
<1>3. /\ s.ok /\ Money!InBounds(p_ledger, t) /\ s.nonce[t.from] = t.nonce
      /\ s.balance[t.from] >= t.amount + t.fee
      /\ z.nonce = [s.nonce EXCEPT ![t.from] = s.nonce[t.from] + 1]
  BY <1>1, <1>2 DEF Money!Simulate, Money!SimulateTx
<1>4. /\ ~x.failed /\ x.l.price = p_ledger.price /\ x.l.nonce = s.nonce
      /\ \A a \in Account : x.l.balance[a] >= s.balance[a]
  BY <1>3 DEF Covers
<1>5. /\ t.from \in Account /\ t.to \in Account /\ t.amount \in Nat /\ t.fee \in Nat
  BY TxFacts
<1>6. /\ x.l \in Accounts /\ x.l.balance \in Rows /\ s.balance \in Rows /\ s.nonce \in Rows
  BY DEF Outcome, Accounts, Forecast
<1>7. Money!Acceptable(x.l, t)
  <2>1. Money!InBounds(x.l, t)
    BY <1>3, <1>4 DEF Money!InBounds
  <2>2. x.l.balance[t.from] >= t.amount + t.fee
    <3>1. x.l.balance[t.from] \in Nat /\ s.balance[t.from] \in Nat
          /\ x.l.balance[t.from] >= s.balance[t.from]
      BY <1>4, <1>5, <1>6 DEF Rows
    <3>. QED BY <1>3, <1>5, <3>1
  <2>. QED BY <1>3, <1>4, <2>1, <2>2 DEF Money!Acceptable
<1>8. t.from # t.to
  BY DEF NoSelfTransfer
<1>9. PICK u : u = Money!Transfer(x.l, t)
  OBVIOUS
<1>10. Money!ApplyTx(x, t) = [l |-> u, failed |-> FALSE]
  BY <1>4, <1>7, <1>9 DEF Money!ApplyTx
<1>11. /\ u.balance[t.from] + t.amount + t.fee = x.l.balance[t.from]
       /\ u.balance[t.to] = x.l.balance[t.to] + t.amount
       /\ \A a \in Account \ {t.from, t.to} : u.balance[a] = x.l.balance[a]
       /\ u.nonce = [x.l.nonce EXCEPT ![t.from] = x.l.nonce[t.from] + 1]
       /\ u.price = x.l.price /\ u \in Accounts
  BY <1>6, <1>7, <1>8, <1>9, TransferIs
<1>12. z.balance = [s.balance EXCEPT ![t.from] = s.balance[t.from] - (t.amount + t.fee)]
  <2>1. z.balance = [s.balance EXCEPT ![t.from] =
           IF s.balance[t.from] >= t.amount + t.fee
           THEN s.balance[t.from] - (t.amount + t.fee) ELSE s.balance[t.from]]
    BY <1>1 DEF Money!Simulate, Money!SimulateTx
  <2>. QED BY <1>3, <2>1
<1>13. ASSUME NEW a \in Account PROVE u.balance[a] >= z.balance[a]
  <2>0. x.l.balance[a] \in Nat /\ s.balance[a] \in Nat /\ x.l.balance[a] >= s.balance[a]
        /\ u.balance[a] \in Nat
    BY <1>4, <1>6, <1>11 DEF Rows, Accounts
  <2>1. CASE a = t.from
    <3>1. z.balance[a] = s.balance[a] - (t.amount + t.fee)
      BY <1>6, <1>12, <2>1 DEF Rows
    <3>2. u.balance[a] + t.amount + t.fee = x.l.balance[a]
      BY <1>11, <2>1
    <3>. QED BY <1>5, <2>0, <3>1, <3>2
  <2>2. CASE a = t.to
    <3>1. z.balance[a] = s.balance[a]
      BY <1>6, <1>8, <1>12, <2>2 DEF Rows
    <3>2. u.balance[a] = x.l.balance[a] + t.amount
      BY <1>11, <2>2
    <3>. QED BY <1>5, <2>0, <3>1, <3>2
  <2>3. CASE a \notin {t.from, t.to}
    <3>1. z.balance[a] = s.balance[a] /\ u.balance[a] = x.l.balance[a]
      BY <1>6, <1>11, <1>12, <2>3 DEF Rows
    <3>. QED BY <2>0, <3>1
  <2>. QED BY <2>1, <2>2, <2>3
<1>14. u.nonce = z.nonce
  BY <1>3, <1>4, <1>11
<1>. QED BY <1>4, <1>10, <1>11, <1>13, <1>14 DEF Covers

\* A block without a swap that was foreseen to apply does.
LEMMA ForecastHolds ==
  ASSUME NoSelfTransfer, p_ledger \in Accounts, NEW txs \in Seq(Tx),
         \A i \in 1..Len(txs) : ~Money!IsSwap(txs[i]), Money!PreValidated(txs)
  PROVE  ~Money!Applied(txs)[Len(txs)].failed
<1> DEFINE N == Len(txs)
<1>1. PICK run : run = Money!Applied(txs)
  OBVIOUS
<1>2. PICK sim : sim = Money!Simulated(txs)
  OBVIOUS
<1>3. /\ run[0] = [l |-> p_ledger, failed |-> FALSE]
      /\ \A n \in 1..N : run[n] = Money!ApplyTx(run[n - 1], txs[n])
      /\ \A n \in 0..N : run[n] \in Outcome
  BY <1>1, AppliedIs
<1>4. /\ sim[0] = [balance |-> p_ledger.balance, nonce |-> p_ledger.nonce, ok |-> TRUE]
      /\ \A n \in 1..N : sim[n] = Money!Simulate(sim[n - 1], txs[n])
      /\ \A n \in 0..N : sim[n] \in Forecast
  BY <1>2, SimulatedIs
<1>5. N \in Nat /\ \A n \in 1..N : txs[n] \in Tx
  OBVIOUS
<1> DEFINE S == {n \in 0..N : Covers(sim[n], run[n])}
<1>6. 0 \in S
  <2>1. \A a \in Account : p_ledger.balance[a] >= p_ledger.balance[a]
    BY DEF Accounts, Rows
  <2>. QED BY <1>3, <1>4, <1>5, <2>1 DEF Covers
<1>7. ASSUME NEW n \in 1..N, n - 1 \in S PROVE n \in S
  <2>1. n \in 0..N /\ n - 1 \in 0..N
    BY <1>5
  <2>2. PICK s \in Forecast, x \in Outcome : s = sim[n - 1] /\ x = run[n - 1]
    BY <1>3, <1>4, <2>1
  <2>3. txs[n] \in Tx /\ ~Money!IsSwap(txs[n]) /\ Covers(s, x)
    BY <1>5, <1>7, <2>2
  <2>4. Covers(Money!Simulate(s, txs[n]), Money!ApplyTx(x, txs[n]))
    BY <2>3, CoversNext
  <2>5. sim[n] = Money!Simulate(s, txs[n]) /\ run[n] = Money!ApplyTx(x, txs[n])
    BY <1>3, <1>4, <2>2
  <2>. QED BY <2>1, <2>4, <2>5
<1> HIDE DEF S
<1>8. Covers(sim[N], run[N])
  <2>1. \A n \in 0..N : n \in S
    BY <1>5, <1>6, <1>7, UpTo
  <2>2. N \in 0..N
    BY <1>5
  <2>. QED BY <2>1, <2>2 DEF S
<1>9. sim[N].ok
  BY <1>2 DEF Money!PreValidated
<1>. QED BY <1>1, <1>8, <1>9 DEF Covers

-----------------------------------------------------------------------------
(* The node. *)

Bodies == [height : 0..LastHeight, txs : Seq(Tx)]

\* None or one.
AtMostOne(b) == b = <<>> \/ \E c \in Bodies : b = <<c>>

MoneyTypes ==
    /\ p_pool \subseteq Tx /\ IsFiniteSet(p_pool) /\ Cardinality(p_pool) <= MaxSize
    /\ p_checked \subseteq Tx /\ p_submits \in 0..MaxSubmits
    /\ p_height \in 0..LastHeight /\ p_ledger \in Accounts
    /\ AtMostOne(p_block) /\ AtMostOne(p_stuck)

Whole(l) == Worth(l) + l.fees = Endowment * Cardinality(Account)

MoneyConserved == p_stuck = <<>> => Whole(p_ledger)

MoneyInv == MoneyTypes /\ MoneyConserved /\ Money!TransfersNeverAbort

\* The sums of the instance are those of SumProofs.
LEMMA MoneySum ==
  ASSUME NEW F, NEW S
  PROVE  Money!SumFunctionOnSet(F, S) = SumFunctionOnSet(F, S)
BY DEF Money!SumFunctionOnSet, Money!FoldFunctionOnSet, Money!MapThenFoldSet,
       SumFunctionOnSet, FoldFunctionOnSet, MapThenFoldSet

LEMMA MoneyConstants ==
  /\ IsFiniteSet(Account) /\ Cardinality(Account) \in Nat /\ Endowment \in Nat
  /\ MaxSize \in Nat /\ LastHeight \in Nat /\ MaxSubmits \in Nat
<1>1. IsFiniteSet(Account) /\ {Endowment, MaxSize, MaxTxs, LastHeight, MaxSubmits} \subseteq Nat
  BY MoneyAssumption
<1>. QED BY <1>1, FS_CardinalityType

LEMMA MoneyInit == Money!Init => MoneyInv
<1> SUFFICES ASSUME Money!Init PROVE MoneyInv
  OBVIOUS
<1> DEFINE b == [a \in Account |-> Endowment]
           c == [a \in Account |-> 0]
<1>1. /\ p_pool = {} /\ p_checked = {} /\ p_block = <<>> /\ p_height = 0
      /\ p_ledger = [balance |-> b, nonce |-> c, price |-> 1, reserve |-> 0, fees |-> 0]
      /\ p_stuck = <<>> /\ p_submits = 0
  BY DEF Money!Init, Money!Nothing
<1>2. b \in Rows /\ c \in Rows
  BY MoneyConstants DEF Rows
<1>3. \A a \in Account : b[a] = Endowment
  OBVIOUS
<1> HIDE DEF b, c
<1>4. p_ledger \in Accounts /\ p_ledger.balance = b /\ p_ledger.reserve = 0 /\ p_ledger.fees = 0
  BY <1>1, <1>2 DEF Accounts
<1>5. SumFunctionOnSet(b, Account) = Endowment * Cardinality(Account)
  BY <1>3, MoneyConstants, SumConst
<1>6. SumFunctionOnSet(b, Account) \in Nat
  BY <1>2, WorthNat
<1>7. Whole(p_ledger)
  BY <1>4, <1>5, <1>6 DEF Whole, Worth
<1>8. IsFiniteSet({}) /\ Cardinality({}) = 0
  BY FS_EmptySet
<1>9. MoneyTypes
  BY <1>1, <1>4, <1>8, MoneyConstants DEF MoneyTypes, AtMostOne
<1>. QED BY <1>1, <1>7, <1>9 DEF MoneyInv, MoneyConserved, Money!TransfersNeverAbort, Money!Nothing

\* What a block leaves behind: nothing, the whole of it, or a marker for a swap.
LEMMA BlockApplied ==
  ASSUME NoSelfTransfer, MoneyInv, NEW b \in Bodies, Money!ApplyBlock(b)
  PROVE  /\ p_height' \in 0..LastHeight /\ p_ledger' \in Accounts /\ AtMostOne(p_stuck)'
         /\ MoneyConserved' /\ Money!TransfersNeverAbort'
<1>1. p_height \in 0..LastHeight /\ p_ledger \in Accounts /\ AtMostOne(p_stuck)
  BY DEF MoneyInv, MoneyTypes
<1>2. b.txs \in Seq(Tx) /\ b.height \in 0..LastHeight
  BY DEF Bodies
<1>3. CASE p_stuck # <<>> \/ b.height # p_height + 1 \/ ~Money!PreValidated(b.txs)
  <2>1. UNCHANGED <<p_height, p_ledger, p_stuck>>
    BY <1>3 DEF Money!ApplyBlock, Money!Nothing
  <2>. QED BY <1>1, <2>1 DEF MoneyInv, MoneyConserved, Money!TransfersNeverAbort, AtMostOne
<1>4. CASE ~(p_stuck # <<>> \/ b.height # p_height + 1 \/ ~Money!PreValidated(b.txs))
  <2>1. PICK r : r = Money!Applied(b.txs)[Len(b.txs)]
    OBVIOUS
  <2>2. /\ r.failed => p_stuck' = <<b>> /\ p_ledger' = r.l /\ p_height' = p_height
        /\ ~r.failed => /\ p_height' = b.height /\ p_stuck' = p_stuck
                        /\ p_ledger' = [r.l EXCEPT !.fees = r.l.fees + Money!FeesOf(b.txs)]
    BY <1>4, <2>1 DEF Money!ApplyBlock, Money!Nothing
  <2>3. /\ r \in Outcome /\ r.l.fees = p_ledger.fees
        /\ ~r.failed => Worth(r.l) + Money!FeesOf(b.txs) = Worth(p_ledger)
    BY <1>1, <1>2, <2>1, BlockConserves
  <2>4. r.l \in Accounts /\ r.failed \in BOOLEAN
    BY <2>3 DEF Outcome
  <2>5. CASE r.failed
    <3>1. AtMostOne(p_stuck)' /\ p_stuck' # <<>> /\ p_stuck'[1] = b
      <4>1. p_stuck' = <<b>>
        BY <2>2, <2>5
      <4>2. <<b>> # <<>> /\ <<b>>[1] = b
        OBVIOUS
      <4>. QED BY <4>1, <4>2, Zenon DEF AtMostOne
    <3>2. \E i \in DOMAIN b.txs : Money!IsSwap(b.txs[i])
      <4>1. SUFFICES ASSUME \A i \in 1..Len(b.txs) : ~Money!IsSwap(b.txs[i]) PROVE FALSE
        BY <1>2
      <4>2. ~Money!Applied(b.txs)[Len(b.txs)].failed
        BY <1>1, <1>2, <1>4, <4>1, ForecastHolds
      <4>. QED BY <2>1, <2>5, <4>2
    <3>3. Money!TransfersNeverAbort'
      BY <3>1, <3>2 DEF Money!TransfersNeverAbort, Money!Nothing, Money!IsSwap
    <3>. QED BY <1>1, <2>2, <2>4, <2>5, <3>1, <3>3 DEF MoneyConserved
  <2>6. CASE ~r.failed
    <3>1. PICK f \in Nat : f = Money!FeesOf(b.txs)
      BY <1>2, FeesNat
    <3>2. PICK l \in Accounts : l = r.l
      BY <2>4
    <3>3. PICK k : k = [l EXCEPT !.fees = l.fees + f]
      OBVIOUS
    <3>4. l.fees \in Nat /\ l.fees + f \in Nat
      BY <3>1 DEF Accounts
    <3>5. k \in Accounts /\ k.balance = l.balance /\ k.reserve = l.reserve /\ k.fees = l.fees + f
      BY <3>3, <3>4 DEF Accounts
    <3>6. p_ledger' = k /\ p_stuck' = <<>> /\ p_height' = b.height
      BY <1>4, <2>2, <2>6, <3>1, <3>2, <3>3
    <3>7. Whole(p_ledger)
      BY <1>4 DEF MoneyInv, MoneyConserved
    <3>8. Whole(k)
      <4>1. PICK w \in Nat, v \in Nat, e \in Nat, g \in Nat :
               w = Worth(l) /\ v = Worth(p_ledger) /\ e = p_ledger.fees
               /\ g = Endowment * Cardinality(Account)
        <5>1. Worth(l) \in Nat /\ Worth(p_ledger) \in Nat /\ p_ledger.fees \in Nat
          BY <1>1, WorthNat DEF Worth, Accounts
        <5>2. Endowment * Cardinality(Account) \in Nat
          BY MoneyConstants
        <5>. QED BY <5>1, <5>2
      <4>2. w + f = v /\ v + e = g /\ l.fees = e
        BY <2>3, <2>6, <3>1, <3>2, <3>7, <4>1 DEF Whole
      <4>3. w + (e + f) = g
        BY <4>2
      <4>4. Worth(k) = w
        BY <3>5, <4>1 DEF Worth
      <4>. QED BY <3>5, <4>1, <4>2, <4>3, <4>4 DEF Whole
    <3>. QED BY <1>2, <3>5, <3>6, <3>8
         DEF MoneyConserved, AtMostOne, Money!TransfersNeverAbort, Money!Nothing
  <2>. QED BY <2>4, <2>5, <2>6
<1>. QED BY <1>3, <1>4

LEMMA PoolStep ==
  ASSUME MoneyInv, NEW t \in Tx, Money!Insert(t)
  PROVE  MoneyTypes'
<1>1. /\ p_pool \subseteq Tx /\ IsFiniteSet(p_pool) /\ Cardinality(p_pool) <= MaxSize
      /\ p_checked \subseteq Tx
  BY DEF MoneyInv, MoneyTypes
<1>2. Cardinality(p_pool) \in Nat /\ MaxSize \in Nat
  BY <1>1, FS_CardinalityType, MoneyConstants
<1>3. p_checked' \subseteq Tx /\ UNCHANGED <<p_block, p_height, p_ledger, p_stuck, p_submits>>
  BY <1>1 DEF Money!Insert
<1>4. p_pool' \subseteq Tx /\ IsFiniteSet(p_pool') /\ Cardinality(p_pool') <= MaxSize
  <2>0. \/ UNCHANGED p_pool
        \/ t \notin p_pool /\ Cardinality(p_pool) < MaxSize /\ p_pool' = p_pool \cup {t}
        \/ t \notin p_pool /\ \E u \in p_pool : p_pool' = (p_pool \ {u}) \cup {t}
    <3>1. Money!Cardinality(p_pool) = Cardinality(p_pool)
      BY DEF Money!Cardinality, Cardinality
    <3>. QED BY <3>1 DEF Money!Insert, Money!Cheapest
  <2>1. CASE UNCHANGED p_pool
    BY <1>1, <2>1
  <2>2. CASE t \notin p_pool /\ Cardinality(p_pool) < MaxSize /\ p_pool' = p_pool \cup {t}
    <3>1. IsFiniteSet(p_pool \cup {t}) /\ Cardinality(p_pool \cup {t}) = Cardinality(p_pool) + 1
      BY <1>1, <2>2, FS_AddElement
    <3>. QED BY <1>1, <1>2, <2>2, <3>1
  <2>3. ASSUME t \notin p_pool, NEW u \in p_pool, p_pool' = (p_pool \ {u}) \cup {t}
        PROVE  p_pool' \subseteq Tx /\ IsFiniteSet(p_pool') /\ Cardinality(p_pool') <= MaxSize
    <3>1. IsFiniteSet(p_pool \ {u}) /\ Cardinality(p_pool \ {u}) = Cardinality(p_pool) - 1
      BY <1>1, FS_RemoveElement
    <3>2. t \notin p_pool \ {u}
      BY <2>3
    <3>3. IsFiniteSet((p_pool \ {u}) \cup {t})
          /\ Cardinality((p_pool \ {u}) \cup {t}) = Cardinality(p_pool \ {u}) + 1
      BY <3>1, <3>2, FS_AddElement
    <3>. QED BY <1>1, <1>2, <2>3, <3>1, <3>3
  <2>. QED BY <2>0, <2>1, <2>2, <2>3
<1>. QED BY <1>3, <1>4 DEF MoneyInv, MoneyTypes, AtMostOne

LEMMA TakenTyped == ASSUME MoneyInv, NEW s \in Money!Take(MaxTxs) PROVE s \in Seq(Tx)
<1>1. p_pool \subseteq Tx /\ IsFiniteSet(p_pool)
  BY DEF MoneyInv, MoneyTypes
<1>2. PICK q \in Money!SetToSeqs(p_pool) :
        s = SubSeq(q, 1, IF Len(q) < MaxTxs THEN Len(q) ELSE MaxTxs)
  BY DEF Money!Take
<1>3. Cardinality(p_pool) \in Nat /\ Money!Cardinality(p_pool) = Cardinality(p_pool)
  BY <1>1, FS_CardinalityType DEF Money!Cardinality, Cardinality
<1>4. q \in [1..Cardinality(p_pool) -> p_pool]
  BY <1>2, <1>3 DEF Money!SetToSeqs
<1>5. q \in Seq(Tx)
  BY <1>1, <1>3, <1>4, IsASeq
<1>6. MaxTxs \in Nat
  BY MoneyAssumption
<1>. QED BY <1>2, <1>5, <1>6

LEMMA MoneyStep == ASSUME NoSelfTransfer, MoneyInv, [Money!Next]_moneyVars PROVE MoneyInv'
<1>1. CASE UNCHANGED moneyVars
  BY <1>1 DEF moneyVars, MoneyInv, MoneyTypes, MoneyConserved, AtMostOne, Money!TransfersNeverAbort
<1>2. CASE Money!BuildBlock
  <2>1. PICK s \in Money!Take(MaxTxs) :
          /\ p_block' = <<[height |-> p_height + 1, txs |-> s]>> /\ p_height < LastHeight
          /\ p_pool' = p_pool \ Money!Range(s)
          /\ UNCHANGED <<p_checked, p_height, p_ledger, p_stuck, p_submits>>
    BY <1>2 DEF Money!BuildBlock, Money!Build
  <2>2. AtMostOne(p_block)'
    <3>1. p_height + 1 \in 0..LastHeight
      BY <2>1, MoneyConstants DEF MoneyInv, MoneyTypes
    <3>2. [height |-> p_height + 1, txs |-> s] \in Bodies
      BY <3>1, TakenTyped DEF Bodies
    <3>. QED BY <2>1, <3>2 DEF AtMostOne
  <2>3. p_pool' \subseteq Tx /\ IsFiniteSet(p_pool') /\ Cardinality(p_pool') <= MaxSize
    <3>1. /\ p_pool \subseteq Tx /\ IsFiniteSet(p_pool) /\ Cardinality(p_pool) <= MaxSize
          /\ p_pool' \in SUBSET p_pool
      BY <2>1 DEF MoneyInv, MoneyTypes
    <3>2. /\ IsFiniteSet(p_pool') /\ Cardinality(p_pool') \in Nat /\ Cardinality(p_pool) \in Nat
          /\ Cardinality(p_pool') <= Cardinality(p_pool)
      BY <3>1, FS_Subset, FS_CardinalityType
    <3>. QED BY <3>1, <3>2, MoneyConstants
  <2>4. MoneyTypes'
    BY <2>1, <2>2, <2>3 DEF MoneyInv, MoneyTypes, AtMostOne
  <2>. QED BY <2>1, <2>4 DEF MoneyInv, MoneyConserved, Money!TransfersNeverAbort
<1>3. CASE Money!ApplyOwn
  <2>1. /\ p_block # <<>> /\ p_block' = <<>> /\ Money!ApplyBlock(p_block[1])
        /\ UNCHANGED <<p_pool, p_checked, p_submits>>
    BY <1>3 DEF Money!ApplyOwn, Money!Nothing
  <2>2. p_block[1] \in Bodies
    BY <2>1 DEF MoneyInv, MoneyTypes, AtMostOne
  <2>3. /\ p_height' \in 0..LastHeight /\ p_ledger' \in Accounts /\ AtMostOne(p_stuck)'
        /\ MoneyConserved' /\ Money!TransfersNeverAbort'
    BY <2>1, <2>2, BlockApplied
  <2>4. AtMostOne(p_block)'
    BY <2>1 DEF AtMostOne
  <2>. QED BY <2>1, <2>3, <2>4 DEF MoneyInv, MoneyTypes
<1>4. ASSUME NEW t \in Tx, Money!ApplyForeign(t) PROVE MoneyInv'
  <2>1. /\ p_height < LastHeight /\ Money!ApplyBlock([height |-> p_height + 1, txs |-> <<t>>])
        /\ UNCHANGED <<p_pool, p_checked, p_block, p_submits>>
    BY <1>4 DEF Money!ApplyForeign
  <2>2. [height |-> p_height + 1, txs |-> <<t>>] \in Bodies
    <3>1. p_height + 1 \in 0..LastHeight
      BY <2>1, MoneyConstants DEF MoneyInv, MoneyTypes
    <3>. QED BY <3>1 DEF Bodies
  <2>3. /\ p_height' \in 0..LastHeight /\ p_ledger' \in Accounts /\ AtMostOne(p_stuck)'
        /\ MoneyConserved' /\ Money!TransfersNeverAbort'
    BY <2>1, <2>2, BlockApplied
  <2>. QED BY <2>1, <2>3 DEF MoneyInv, MoneyTypes, AtMostOne
<1>5. ASSUME NEW t \in Tx, Money!Check(t) PROVE MoneyInv'
  <2>1. /\ p_submits < MaxSubmits /\ p_submits' = p_submits + 1
        /\ p_checked' = p_checked \cup {t}
        /\ UNCHANGED <<p_pool, p_block, p_height, p_ledger, p_stuck>>
    BY <1>5 DEF Money!Check
  <2>2. p_submits' \in 0..MaxSubmits
    BY <2>1, MoneyConstants DEF MoneyInv, MoneyTypes
  <2>. QED BY <2>1, <2>2 DEF MoneyInv, MoneyTypes, MoneyConserved, AtMostOne, Money!TransfersNeverAbort
<1>6. ASSUME NEW t \in Tx, Money!Insert(t) PROVE MoneyInv'
  <2>1. UNCHANGED <<p_ledger, p_stuck>>
    BY <1>6 DEF Money!Insert
  <2>. QED BY <1>6, <2>1, PoolStep DEF MoneyInv, MoneyConserved, Money!TransfersNeverAbort
<1>. QED BY <1>1, <1>2, <1>3, <1>4, <1>5, <1>6 DEF Money!Next, Money!Produce

LEMMA MoneyRight == ASSUME MoneyInv PROVE LedgerRight
<1>1. Money!TypeOK
  <2>1. /\ p_pool \subseteq Tx /\ IsFiniteSet(p_pool) /\ Cardinality(p_pool) <= MaxSize
        /\ p_checked \subseteq Tx /\ p_submits \in 0..MaxSubmits
        /\ p_height \in 0..LastHeight /\ p_ledger \in Accounts
        /\ AtMostOne(p_block) /\ AtMostOne(p_stuck)
    BY DEF MoneyInv, MoneyTypes
  <2>2. Money!Cardinality(p_pool) = Cardinality(p_pool)
    BY DEF Money!Cardinality, Cardinality
  <2>3. \A b \in {p_block, p_stuck} : b = <<>> \/ (b[1].height \in Nat /\ b[1].txs \in Seq(Tx))
    <3>1. SUFFICES ASSUME NEW b, AtMostOne(b), b # <<>>
                   PROVE  b[1].height \in Nat /\ b[1].txs \in Seq(Tx)
      BY <2>1
    <3>2. PICK c \in Bodies : b = <<c>>
      BY <3>1 DEF AtMostOne
    <3>3. c.height \in Nat /\ c.txs \in Seq(Tx)
      BY MoneyConstants DEF Bodies
    <3>4. b[1] = c
      BY <3>2
    <3>. QED BY <3>3, <3>4
  <2>4. /\ p_ledger.balance \in [Account -> Nat] /\ p_ledger.nonce \in [Account -> Nat]
        /\ p_ledger.price \in {1, 2} /\ p_ledger.reserve \in Nat /\ p_ledger.fees \in Nat
    BY <2>1 DEF Accounts, Rows
  <2>5. 1..2 = {1, 2}
    OBVIOUS
  <2>. QED BY <2>1, <2>2, <2>3, <2>4, <2>5 DEF Money!TypeOK, Money!Nothing, Money!Prices
<1>2. Money!Conserved
  <2>1. Money!Cardinality(Account) = Cardinality(Account)
    BY DEF Money!Cardinality, Cardinality
  <2>2. Money!Total = Worth(p_ledger) + p_ledger.fees
    BY MoneySum DEF Money!Total, Worth
  <2>. QED BY <2>1, <2>2 DEF MoneyInv, MoneyConserved, Whole, Money!Conserved, Money!Nothing
<1>. QED BY <1>1, <1>2 DEF MoneyInv, LedgerRight

\* Without transfers of an account to itself, whatever is submitted, built and received,
\* no block makes or destroys money, and a block that the pre-validation has let through
\* is abandoned half-way for a swap only: the forecast of nonces and debits is exact
\* enough whatever the senders pay each other (Mempool, Producer, apply_block).
THEOREM MoneyKept == ASSUME NoSelfTransfer PROVE ViewSpec => []LedgerRight
<1>1. ViewInit => MoneyInv
  BY MoneyInit DEF ViewInit
<1>2. MoneyInv /\ [ViewNext]_viewVars => MoneyInv'
  <2> SUFFICES ASSUME MoneyInv, [ViewNext]_viewVars PROVE MoneyInv'
    OBVIOUS
  <2>1. [Money!Next]_moneyVars
    BY DEF ViewNext, viewVars
  <2>. QED BY <2>1, MoneyStep
<1>3. MoneyInv => LedgerRight
  BY MoneyRight
<1>. QED BY <1>1, <1>2, <1>3, PTL DEF ViewSpec
=============================================================================
