---------------------------- MODULE SettingsCache ----------------------------
(* The admin settings of the API server: a table, a snapshot of it kept in memory
   for CACHE_TTL, requests that read the settings through the snapshot and
   requests that write them.  A request runs until its next await; a query sees
   the table at one moment between the await and the answer.

   A setting holds the request that wrote it.  Latency stands for the database
   driver's limit on a query. *)
EXTENDS Integers, Sequences

CONSTANTS
    Key,       \* settings
    Reader,    \* requests that read: public settings, RPC proxy, admin panel
    Writer,    \* requests that write: PUT and DELETE /admin/settings
    Keys,      \* the settings a writer writes or deletes
    Valid,     \* the writers whose payload passes validateSettings
    CacheTTL,  \* CACHE_TTL
    Latency,   \* bound: time a query takes
    MaxTime,   \* bound: the clock
    MaxReads   \* bound: answers from a snapshot

VARIABLES
    now,       \* the clock
    table,     \* the table: who wrote each setting
    history,   \* every committed content of the table, and since when
    cache,     \* the snapshot, if any
    reader,    \* where each reader is: its query and what that saw
    writer,    \* where each writer is
    answer,    \* the last answer from a snapshot
    reads      \* how many there were

vars == <<now, table, history, cache, reader, writer, answer, reads>>

None   == "none"
Empty  == [k \in Key |-> None]
Table  == [Key -> Writer \cup {None}]
Idle   == [pc |-> "idle", since |-> 0, map |-> Empty]

Init ==
    /\ now = 0
    /\ table = Empty /\ history = <<[at |-> 0, map |-> Empty]>>
    /\ cache = <<>>
    /\ reader = [r \in Reader |-> Idle]
    /\ writer = [w \in Writer |-> "idle"]
    /\ answer = <<>> /\ reads = 0

\* Time passes; a query does not outlive the driver's limit.
Tick ==
    /\ now < MaxTime
    /\ \A r \in Reader : reader[r].pc # "idle" => now - reader[r].since < Latency
    /\ now' = now + 1
    /\ UNCHANGED <<table, history, cache, reader, writer, answer, reads>>

-----------------------------------------------------------------------------
(* loadAll *)

Hit == cache # <<>> /\ now - cache[1].at < CacheTTL

Answer(map) ==
    /\ reads < MaxReads /\ reads' = reads + 1
    /\ answer' = <<[at |-> now, map |-> map]>>

FromCache(r) ==
    /\ reader[r].pc = "idle" /\ Hit
    /\ Answer(cache[1].map)
    /\ UNCHANGED <<now, table, history, cache, reader, writer>>

SendQuery(r) ==
    /\ reader[r].pc = "idle" /\ ~Hit
    /\ reader' = [reader EXCEPT ![r] = [pc |-> "sent", since |-> now, map |-> Empty]]
    /\ UNCHANGED <<now, table, history, cache, writer, answer, reads>>

RunQuery(r) ==
    /\ reader[r].pc = "sent"
    /\ reader' = [reader EXCEPT ![r].pc = "run", ![r].map = table]
    /\ UNCHANGED <<now, table, history, cache, writer, answer, reads>>

\* The rows become the snapshot, whatever was written or cached since.
EndQuery(r) ==
    /\ reader[r].pc = "run"
    /\ cache' = <<[at |-> now, map |-> reader[r].map]>>
    /\ Answer(reader[r].map)
    /\ reader' = [reader EXCEPT ![r] = Idle]
    /\ UNCHANGED <<now, table, history, writer>>

\* The defaults are answered, and not kept.
FailQuery(r) ==
    /\ reader[r].pc # "idle"
    /\ reader' = [reader EXCEPT ![r] = Idle]
    /\ UNCHANGED <<now, table, history, cache, writer, answer, reads>>

-----------------------------------------------------------------------------
(* upsertSettings and deleteSettings: one transaction, or one statement. *)

Begin(w) ==
    /\ writer[w] = "idle"
    /\ writer' = [writer EXCEPT ![w] = IF w \in Valid THEN "writing" ELSE "done"]
    /\ UNCHANGED <<now, table, history, cache, reader, answer, reads>>

\* Mutant: the settings are written one after the other, outside a transaction.
CommitOneByOne(w) ==
    /\ writer[w] = "writing"
    /\ \E k \in {x \in Keys[w] : table[x] # w} : table' = [table EXCEPT ![k] = w]
    /\ IF \A x \in Keys[w] : table'[x] = w
       THEN writer' = [writer EXCEPT ![w] = "written"] /\ history' = Append(history, [at |-> now, map |-> table'])
       ELSE UNCHANGED <<writer, history>>
    /\ UNCHANGED <<now, cache, reader, answer, reads>>

Commit(w) ==
    /\ writer[w] = "writing"
    /\ table' = [k \in Key |-> IF k \in Keys[w] THEN w ELSE table[k]]
    /\ history' = Append(history, [at |-> now, map |-> table'])
    /\ writer' = [writer EXCEPT ![w] = "written"]
    /\ UNCHANGED <<now, cache, reader, answer, reads>>

\* The transaction fails: the snapshot stays.
Abort(w) ==
    /\ writer[w] = "writing"
    /\ writer' = [writer EXCEPT ![w] = "done"]
    /\ UNCHANGED <<now, table, history, cache, reader, answer, reads>>

Invalidate(w) ==
    /\ writer[w] = "written"
    /\ cache' = <<>>
    /\ writer' = [writer EXCEPT ![w] = "done"]
    /\ UNCHANGED <<now, table, history, reader, answer, reads>>

-----------------------------------------------------------------------------
Read(r)  == FromCache(r) \/ SendQuery(r) \/ RunQuery(r) \/ EndQuery(r) \/ FailQuery(r)
Write(w) == Begin(w) \/ Commit(w) \/ Abort(w) \/ Invalidate(w)

Next == Tick \/ (\E r \in Reader : Read(r)) \/ (\E w \in Writer : Write(w))

Spec == Init /\ [][Next]_vars

-----------------------------------------------------------------------------
\* The variables keep their types.
TypeOK ==
    /\ now \in 0 .. MaxTime /\ table \in Table /\ reads \in 0 .. MaxReads
    /\ history \in Seq([at : 0 .. MaxTime, map : Table])
    /\ \A s \in {cache, answer} : s \in Seq([at : 0 .. MaxTime, map : Table]) /\ Len(s) <= 1
    /\ reader \in [Reader -> [pc : {"idle", "sent", "run"}, since : 0 .. MaxTime, map : Table]]
    /\ writer \in [Writer -> {"idle", "writing", "written", "done"}]

Until(i) == IF i = Len(history) THEN now ELSE history[i + 1].at

\* Every answer is the whole of what one moment of the last CacheTTL + Latency held,
\* although a query may end after the invalidation of a later write, and undo what
\* a faster query had brought: no half of a payload, and nothing older (loadAll).
FreshAndWhole ==
    answer # <<>> =>
        \E i \in DOMAIN history :
            history[i].map = answer[1].map /\ Until(i) >= answer[1].at - CacheTTL - Latency
=============================================================================
