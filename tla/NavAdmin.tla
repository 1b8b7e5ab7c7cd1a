------------------------------ MODULE NavAdmin ------------------------------
(* The navigation table of the API server: the built-in items, seeded when the
   table is empty and restored by a reset, and the items that admins add.  The
   reset deletes and inserts in two statements, with an await and no transaction
   between them; so does every other handler that reads before it writes.  A
   statement on its own is atomic.  The slug is unique.

   A request is an admin's call; requests run side by side, in one process or in
   several, and a process may be killed between two statements. *)
EXTENDS Naturals, FiniteSets

CONSTANTS
    Builtin,   \* slugs of DEFAULT_NAV
    Custom,    \* other slugs
    Request,   \* requests in flight at once
    MaxItems,  \* bound: ids taken by items and resets
    MaxResets  \* bound: resets

VARIABLES
    rows,      \* the table: records [id, slug, custom, enabled]
    nextId,    \* the serial of the table
    req,       \* what each request is doing, and the row it has read
    resets     \* bound: resets so far

vars == <<rows, nextId, req, resets>>

Slug == Builtin \cup Custom
Row  == [id : Nat, slug : Slug, custom : BOOLEAN, enabled : BOOLEAN]
Idle == [pc |-> "idle", id |-> 0]

Slugs == {r.slug : r \in rows}
DefaultRows(ids) ==
    {[id |-> ids[s], slug |-> s, custom |-> FALSE, enabled |-> TRUE] : s \in Builtin}

\* DEFAULT_NAV in one INSERT: every row, or none.
InsertDefaults ==
    IF Slugs \cap Builtin = {}
    THEN LET ids == CHOOSE f \in [Builtin -> nextId .. nextId + Cardinality(Builtin) - 1] :
                        \A s, t \in Builtin : s # t => f[s] # f[t]
         IN rows' = rows \cup DefaultRows(ids) /\ nextId' = nextId + Cardinality(Builtin)
    ELSE UNCHANGED <<rows, nextId>>

Init ==
    /\ rows = {} /\ nextId = 1 /\ resets = 0
    /\ req = [q \in Request |-> Idle]

Become(q, pc, id) == req' = [req EXCEPT ![q] = [pc |-> pc, id |-> id]]
Done(q) == Become(q, "idle", 0)

-----------------------------------------------------------------------------
\* ensureSeeded, at startup and before the list: look, and insert into an empty table.
SeedLook(q) ==
    /\ req[q].pc = "idle"
    /\ rows = {}
    /\ Become(q, "seed", 0)
    /\ UNCHANGED <<rows, nextId, resets>>

SeedInsert(q) ==
    /\ req[q].pc = "seed"
    /\ InsertDefaults
    /\ Done(q)
    /\ UNCHANGED resets

\* POST /admin/nav: a slug that is there is refused.
CreateItem(q, s) ==
    /\ req[q].pc = "idle" /\ nextId <= MaxItems
    /\ s \notin Slugs
    /\ rows' = rows \cup {[id |-> nextId, slug |-> s, custom |-> TRUE, enabled |-> TRUE]}
    /\ nextId' = nextId + 1
    /\ UNCHANGED <<req, resets>>

\* PUT /admin/nav/:id: one statement; slug and isCustom cannot be updated.
UpdateItem(q, r) ==
    /\ req[q].pc = "idle"
    /\ rows' = (rows \ {r}) \cup {[r EXCEPT !.enabled = ~@]}
    /\ UNCHANGED <<nextId, req, resets>>

\* Mutant: built-in items are deleted like the others.
DeleteLookAny(q, r) ==
    /\ req[q].pc = "idle"
    /\ Become(q, "delete", r.id)
    /\ UNCHANGED <<rows, nextId, resets>>

\* DELETE /admin/nav/:id: look at the row, then delete by its id.
DeleteLook(q, r) ==
    /\ req[q].pc = "idle"
    /\ r.custom
    /\ Become(q, "delete", r.id)
    /\ UNCHANGED <<rows, nextId, resets>>

DeleteItem(q) ==
    /\ req[q].pc = "delete"
    /\ rows' = {r \in rows : r.id # req[q].id}
    /\ Done(q)
    /\ UNCHANGED <<nextId, resets>>

\* POST /admin/nav/reset
ResetDelete(q) ==
    /\ req[q].pc = "idle" /\ resets < MaxResets /\ resets' = resets + 1
    /\ rows' = {r \in rows : r.custom}
    /\ Become(q, "reset", 0)
    /\ UNCHANGED nextId

ResetInsert(q) ==
    /\ req[q].pc = "reset"
    /\ InsertDefaults
    /\ Done(q)
    /\ UNCHANGED resets

\* A failed statement, or a kill, ends the request where it is.
Stop(q) ==
    /\ req[q].pc # "idle"
    /\ Done(q)
    /\ UNCHANGED <<rows, nextId, resets>>

-----------------------------------------------------------------------------
Handler(q) ==
    \/ SeedLook(q) \/ SeedInsert(q) \/ DeleteItem(q)
    \/ ResetDelete(q) \/ ResetInsert(q) \/ Stop(q)
    \/ \E s \in Slug : CreateItem(q, s)
    \/ \E r \in rows : UpdateItem(q, r) \/ DeleteLook(q, r)

Next == \E q \in Request : Handler(q)

Spec == Init /\ [][Next]_vars

-----------------------------------------------------------------------------
\* The variables keep their types.
TypeOK ==
    /\ rows \subseteq Row
    /\ nextId \in Nat
    /\ req \in [Request -> [pc : {"idle", "seed", "delete", "reset"}, id : Nat]]
    /\ resets \in 0 .. MaxResets

\* The built-in items are all there or all gone, whatever seeds, resets, deletions
\* and kills interleave (ensureSeeded, reset, DELETE /admin/nav/:id).
AllOrNothing == {r.slug : r \in {x \in rows : ~x.custom}} \in {{}, Builtin}

\* An item that an admin added goes only by a deletion of that very item, not by
\* a reset, nor by the deletion of an earlier item of its slug.
CustomKept ==
    [][\A r \in rows :
          r.custom /\ (\A x \in rows' : x.id # r.id)
          => \E q \in Request : req[q] = [pc |-> "delete", id |-> r.id]]_vars
=============================================================================
