-------------------------- MODULE TenantMigration --------------------------
(***************************************************************************)
(* One shop moves between the shared tables (schema public) and a schema   *)
(* of its own, statement by statement, while requests write its rows.      *)
(* Every transaction runs at READ COMMITTED: a statement sees what was     *)
(* committed before it, and waits for rows that another open transaction   *)
(* is deleting or inserting.                                               *)
(*                                                                         *)
(* A request learns the schema once, from the shop's pointer, before it    *)
(* begins (TenantMiddleware); routes outside the middleware's patterns and *)
(* the MCP servers always use public.  A search_path whose tenant schema   *)
(* is gone falls back to public.                                           *)
(*                                                                         *)
(* Three of the eight tables are kept, in the order of the statements: the *)
(* other five are copied and deleted like shop_services.                   *)
(***************************************************************************)
EXTENDS Integers, Sequences, FiniteSets

CONSTANTS
    Services,       \* ids of services
    Queues,         \* ids of queues
    Items,          \* ids of queue items
    MaxVersion,     \* writes of one row (bound)
    Migrators,      \* pool threads that serve upgrades and downgrades
    Requests,       \* requests under way (bound)
    MaxMigrations   \* upgrades and downgrades begun (bound)

Rows == Services \cup Queues \cup Items
Gone == -1

ASSUME TenantConstants ==
    /\ Services \cap (Queues \cup Items) = {} /\ Queues \cap Items = {} /\ Queues # {}
    /\ MaxVersion \in Nat \ {0} /\ MaxMigrations \in Nat

VARIABLES
    public,     \* version of each row in the shared tables, 0 for no row
    tenant,     \* version of each row in the shop's schema
    exists,     \* the shop's schema has been created
    pointer,    \* shops.tenant_schema: "tenant" or "none" (NULL)
    tier,       \* the owner's subscription_tier
    queueOf,    \* queue_items.queue_id
    mig,        \* the migration each pool thread is in the middle of
    req,        \* the search_path of each request under way
    begun,      \* upgrades and downgrades begun
    latest,     \* history: the version a request has committed last, or Gone
    raced,      \* history: rows written during a migration or on a stale path
    mishaps     \* history: "crossed" (an upgrade and a downgrade were under way at
                \* once), "interrupted" (a move ended between its commits)

tables == <<public, tenant, exists, pointer, tier, queueOf>>
vars == <<tables, mig, req, begun, latest, raced, mishaps>>

\* Mutant: a table is forgotten in the list of copies.
CopiedButServices == <<Queues, Items>>

\* Rows of the tables, parents first.
Copied == <<Services, Queues, Items>>

\* Mutant: a table is forgotten in the list of deletes.
DeletedButServices == <<Items, Queues>>

Deleted == <<Items, Queues, Services>>

Idle == [op |-> "none", step |-> "idle", done |-> 0, copies |-> [r \in Rows |-> 0], deletes |-> {}]
Others(m) == Migrators \ {m}
Busy == \E m \in Migrators : mig[m].step # "idle"

\* Rows that an open transaction has inserted.
Inserted(m) == {r \in Rows : mig[m].copies[r] # 0}

\* A search_path that names a missing schema finds the shared tables.
Resolve(path) == IF path = "tenant" /\ exists THEN "tenant" ELSE "public"
TableAt(path) == IF Resolve(path) = "tenant" THEN tenant ELSE public

-----------------------------------------------------------------------------
(* Statements of a migration.                                              *)

\* The checks of the handler and of the migration: 409, ValueError.
Begin(m, op) ==
    /\ mig[m].step = "idle" /\ begun < MaxMigrations
    /\ pointer = IF op = "upgrade" THEN "none" ELSE "tenant"
    /\ begun' = begun + 1
    /\ mig' = [mig EXCEPT ![m].op = op, ![m].step = IF op = "upgrade" THEN "create" ELSE "copy"]
    /\ mishaps' = IF \E o \in Others(m) : mig[o].step # "idle" /\ mig[o].op # op
                  THEN mishaps \cup {"crossed"} ELSE mishaps
    /\ UNCHANGED <<tables, req, latest, raced>>

\* CREATE ... IF NOT EXISTS, committed.
CreateSchema(m) ==
    /\ mig[m].step = "create"
    /\ exists' = TRUE
    /\ mig' = [mig EXCEPT ![m].step = "copy"]
    /\ UNCHANGED <<public, tenant, pointer, tier, queueOf, req, begun, latest, raced, mishaps>>

\* queue_items have no shop_id: those of the queues in the same schema.
Selected(rows, table) == {r \in rows : table[r] # 0 /\ (r \in Items => table[queueOf[r]] # 0)}

\* Mutant: the shared queue_items have no foreign key either.
ReferencedNever(m, rows) == TRUE

\* The shared queue_items refer to shared queues, which the transaction sees if
\* they are committed or its own; the schema's copies of the tables have no
\* foreign keys (CREATE TABLE ... LIKE).
Referenced(m, rows) ==
    mig[m].op = "downgrade" =>
        \A i \in rows \cap Items : public[queueOf[i]] # 0 \/ queueOf[i] \in Inserted(m)

\* INSERT INTO ... SELECT, the next table.  The statement fails when the
\* schema's tables are gone, a key is there already or a queue is missing, and
\* waits while another transaction is inserting one of the rows into the same
\* schema.
Copy(m) ==
    LET from == IF mig[m].op = "upgrade" THEN public ELSE tenant
        to   == IF mig[m].op = "upgrade" THEN tenant ELSE public
        k    == mig[m].done + 1
    IN  /\ mig[m].step = "copy" /\ k <= Len(Copied)
        /\ exists
        /\ LET rows == Selected(Copied[k], from) IN
            /\ \A r \in rows : to[r] = 0
            /\ Referenced(m, rows)
            /\ \A o \in Others(m) : mig[o].op = mig[m].op => rows \cap Inserted(o) = {}
            /\ mig' = [mig EXCEPT ![m].done = k,
                                  ![m].copies = [r \in Rows |-> IF r \in rows THEN from[r] ELSE @[r]]]
        /\ UNCHANGED <<tables, req, begun, latest, raced, mishaps>>

CopyDone(m, op) == mig[m].step = "copy" /\ mig[m].op = op /\ mig[m].done = Len(Copied)

\* DELETE FROM public, the next table: the rows that are there by now, copied
\* or not; with a queue go the items that have come since (ON DELETE CASCADE).
Delete(m) ==
    LET k == IF mig[m].step = "delete" THEN mig[m].done + 1 ELSE 1 IN
    /\ mig[m].step = "delete" \/ CopyDone(m, "upgrade")
    /\ k <= Len(Deleted)
    /\ LET rows == Selected(Deleted[k], public)
           all  == rows \cup {i \in Items : public[i] # 0 /\ queueOf[i] \in rows}
       IN  /\ \A o \in Others(m) : all \cap mig[o].deletes = {}
           /\ mig' = [mig EXCEPT ![m].step = "delete", ![m].done = k, ![m].deletes = @ \cup all]
    /\ UNCHANGED <<tables, req, begun, latest, raced, mishaps>>

WithCopies(table, m) == [r \in Rows |-> IF r \in Inserted(m) THEN mig[m].copies[r] ELSE table[r]]
WithoutDeletes(table, m) == [r \in Rows |-> IF r \in mig[m].deletes THEN 0 ELSE table[r]]

\* The end of migrate_to_premium: copies, deletes and pointer are committed.
Point(m) ==
    /\ mig[m].step = "delete" /\ mig[m].done = Len(Deleted)
    /\ tenant' = WithCopies(tenant, m)
    /\ public' = WithoutDeletes(public, m)
    /\ pointer' = "tenant"
    /\ mig' = [mig EXCEPT ![m] = [Idle EXCEPT !.op = "upgrade", !.step = "tier"]]
    /\ UNCHANGED <<exists, tier, queueOf, req, begun, latest, raced, mishaps>>

\* DROP SCHEMA waits for transactions that have written to its tables.  Its
\* commit makes the copies permanent while the pointer still names the schema.
Drop(m) ==
    /\ CopyDone(m, "downgrade")
    /\ \A o \in Others(m) : mig[o].op = "upgrade" => Inserted(o) = {}
    /\ public' = WithCopies(public, m)
    /\ tenant' = [r \in Rows |-> 0]
    /\ exists' = FALSE
    /\ mig' = [mig EXCEPT ![m] = [Idle EXCEPT !.op = "downgrade", !.step = "clear"]]
    /\ UNCHANGED <<pointer, tier, queueOf, req, begun, latest, raced, mishaps>>

\* Mutant: the pointer is not cleared.
ClearedKept == pointer

Cleared == "none"

\* The end of migrate_to_free, after the cache keys are flushed.
Clear(m) ==
    /\ mig[m].step = "clear"
    /\ pointer' = Cleared
    /\ mig' = [mig EXCEPT ![m].step = "tier"]
    /\ UNCHANGED <<public, tenant, exists, tier, queueOf, req, begun, latest, raced, mishaps>>

TierAfter(op) == IF op = "upgrade" THEN "PREMIUM" ELSE "FREE"

\* The handler's last commit.
SetTier(m) ==
    /\ mig[m].step = "tier"
    /\ tier' = TierAfter(mig[m].op)
    /\ mig' = [mig EXCEPT ![m] = Idle]
    /\ UNCHANGED <<public, tenant, exists, pointer, queueOf, req, begun, latest, raced, mishaps>>

\* A statement raises (a key that is there, a reference from a table that is
\* not moved, a deadlock) or the process dies: the open transaction rolls
\* back, and what was committed stays.
MigrationFails(m) ==
    /\ mig[m].step # "idle"
    /\ mig' = [mig EXCEPT ![m] = Idle]
    /\ mishaps' = IF mig[m].step \in {"clear", "tier"} THEN mishaps \cup {"interrupted"} ELSE mishaps
    /\ UNCHANGED <<tables, req, begun, latest, raced>>

-----------------------------------------------------------------------------
(* Requests.                                                               *)

\* The routes of TenantMiddleware's patterns have the shop in their path:
\* joining, creating queues, services; they follow the pointer.
Routed == pointer

\* Those that name a queue or an item do not, nor do the MCP servers and the
\* jobs that write customers and analytics.
Unrouted == "none"

StartRequest(q) ==
    /\ req[q] = "idle"
    /\ \E path \in {Routed, Unrouted} : req' = [req EXCEPT ![q] = path]
    /\ UNCHANGED <<tables, mig, begun, latest, raced, mishaps>>

\* A request that finds nothing to write, or is refused.
EndRequest(q) ==
    /\ req[q] # "idle"
    /\ req' = [req EXCEPT ![q] = "idle"]
    /\ UNCHANGED <<tables, mig, begun, latest, raced, mishaps>>

\* A row that a migration is deleting is locked until that one ends.
Free(q, rows) == Resolve(req[q]) = "public" => \A m \in Migrators : rows \cap mig[m].deletes = {}

\* A transaction of the request gives the rows a version in the tables it
\* sees (0: deletes them), and commits.
Write(q, rows, version) ==
    LET After(table) == [r \in Rows |-> IF r \in rows THEN version ELSE table[r]]
        stale == Resolve(req[q]) # Resolve(pointer)
    IN  /\ req[q] # "idle" /\ Free(q, rows)
        /\ IF Resolve(req[q]) = "tenant"
           THEN tenant' = After(tenant) /\ UNCHANGED public
           ELSE public' = After(public) /\ UNCHANGED tenant
        /\ latest' = [r \in Rows |-> IF r \in rows THEN (IF version = 0 THEN Gone ELSE version)
                                     ELSE latest[r]]
        /\ raced' = IF Busy \/ stale THEN raced \cup rows ELSE raced
        /\ req' = [req EXCEPT ![q] = "idle"]
        /\ UNCHANGED <<exists, pointer, tier, mig, begun, mishaps>>

Create(q, r) ==
    /\ r \in Services \cup Queues /\ latest[r] = 0
    /\ Write(q, {r}, 1)
    /\ UNCHANGED queueOf

\* A customer joins a queue the request can see.
Join(q, i, k) ==
    /\ latest[i] = 0
    /\ TableAt(req[q])[k] # 0 /\ Free(q, {k})
    /\ queueOf' = [queueOf EXCEPT ![i] = k]
    /\ Write(q, {i}, 1)

\* Only services have routes with the shop in their path that change a row.
Change(q, r) ==
    /\ TableAt(req[q])[r] \in 1 .. MaxVersion - 1
    /\ r \in Services \/ req[q] = Unrouted
    /\ Write(q, {r}, TableAt(req[q])[r] + 1)
    /\ UNCHANGED queueOf

\* A queue is deleted with the items the request sees.
Remove(q, r) ==
    /\ TableAt(req[q])[r] # 0
    /\ r \in Services \/ req[q] = Unrouted
    /\ Write(q, {r} \cup {i \in Items : TableAt(req[q])[i] # 0 /\ queueOf[i] = r}, 0)
    /\ UNCHANGED queueOf

-----------------------------------------------------------------------------

Init ==
    /\ public = [r \in Rows |-> 0] /\ tenant = [r \in Rows |-> 0]
    /\ exists = FALSE /\ pointer = "none" /\ tier = "FREE"
    /\ queueOf = [i \in Items |-> CHOOSE k \in Queues : TRUE]
    /\ mig = [m \in Migrators |-> Idle]
    /\ req = [q \in Requests |-> "idle"]
    /\ begun = 0
    /\ latest = [r \in Rows |-> 0] /\ raced = {} /\ mishaps = {}

Upgrade(m) == Begin(m, "upgrade") \/ CreateSchema(m) \/ Copy(m) \/ Delete(m) \/ Point(m)
Downgrade(m) == Begin(m, "downgrade") \/ Copy(m) \/ Drop(m) \/ Clear(m)
Migrate(m) == Upgrade(m) \/ Downgrade(m) \/ SetTier(m) \/ MigrationFails(m)

Serve(q) ==
    \/ StartRequest(q) \/ EndRequest(q)
    \/ \E r \in Rows : Create(q, r) \/ Change(q, r) \/ Remove(q, r)
    \/ \E i \in Items, k \in Queues : Join(q, i, k)

Next == (\E m \in Migrators : Migrate(m)) \/ (\E q \in Requests : Serve(q))

Spec == Init /\ [][Next]_vars

-----------------------------------------------------------------------------
(* Properties.                                                             *)

TypeOK ==
    /\ public \in [Rows -> 0 .. MaxVersion] /\ tenant \in [Rows -> 0 .. MaxVersion]
    /\ exists \in BOOLEAN /\ pointer \in {"tenant", "none"} /\ tier \in {"FREE", "PREMIUM"}
    /\ queueOf \in [Items -> Queues]
    /\ mig \in [Migrators -> [op : {"none", "upgrade", "downgrade"},
                              step : {"idle", "create", "copy", "delete", "clear", "tier"},
                              done : 0 .. 3, copies : [Rows -> 0 .. MaxVersion], deletes : SUBSET Rows]]
    /\ req \in [Requests -> {"idle", "tenant", "none"}]
    /\ begun \in 0 .. MaxMigrations
    /\ latest \in [Rows -> Gone .. MaxVersion] /\ raced \subseteq Rows
    /\ mishaps \subseteq {"crossed", "interrupted"}

\* A row that nobody writes while the shop is being moved, nor from a request
\* that began before the move, is found with its last version where the
\* pointer leads, and a deleted one does not come back: at any moment of a
\* move, after an interrupted one, and when two upgrades or two downgrades
\* overlap; an upgrade that began before a downgrade and creates its schema
\* after the drop would hide the rows (migrate_to_premium, migrate_to_free).
QuietRowsAreServed ==
    "crossed" \notin mishaps => \A r \in Rows \ raced :
        TableAt(pointer)[r] = IF latest[r] = Gone THEN 0 ELSE latest[r]

\* Whatever writes come in between, no row is in both schemas: an id means
\* one row (_delete_from_public, drop_tenant_schema).
NeverInBoth == \A r \in Rows : public[r] = 0 \/ tenant[r] = 0

\* The pointer names a schema that exists, unless a downgrade is between its
\* two commits, or one was interrupted there or crossed by an upgrade (then it
\* does not, and the shop can be moved neither up nor down).
PointerHasSchema ==
    (pointer = "tenant" /\ ~exists) =>
        mishaps # {} \/ \E m \in Migrators : mig[m].step = "clear"

\* The owner's tier says where the rows are, whenever no move is under
\* way, unless moves crossed or stopped between their commits (upgrade_shop, downgrade_shop).
TierSaysWhere ==
    (mishaps = {} /\ ~Busy) => (tier = "PREMIUM" <=> pointer = "tenant")

\* What the shop and its owner say of where the rows are is true between the
\* commits of a move, of two that overlap, and after one that breaks off, but
\* for the two mishaps named above.
MarksAreTrue == PointerHasSchema /\ TierSaysWhere

\* What TenantMiddleware is for: a request finds the shop's rows.  It is not
\* so for the routes that name a queue or an item.
RequestsFindTheRows ==
    \A r \in (Queues \cup Items) \ raced : latest[r] > 0 => TableAt(Unrouted)[r] = latest[r]

-----------------------------------------------------------------------------
(* What the inductive invariant adds.                                      *)

Upgrades == {m \in Migrators : mig[m].op = "upgrade"}
Downgrades == {m \in Migrators : mig[m].op = "downgrade"}

\* A migration holds copies and deletes only until its first commit.
MovesAreWhole ==
    \A m \in Migrators :
        /\ mig[m].step = "idle" => mig[m] = Idle
        /\ mig[m].op = "none" => mig[m].step = "idle"
        /\ mig[m].op = "upgrade" => mig[m].step \in {"create", "copy", "delete", "tier"}
        /\ mig[m].op = "downgrade" => mig[m].step \in {"copy", "clear", "tier"}
        /\ Inserted(m) # {} => mig[m].step \in {"copy", "delete"}
        /\ mig[m].deletes # {} => mig[m].step = "delete"
        /\ mig[m].step = "create" => mig[m].done = 0

\* Ids are used once: a row that is anywhere has been written.
RowsAreKnown ==
    \A r \in Rows : latest[r] = 0 =>
        public[r] = 0 /\ tenant[r] = 0 /\ \A m \in Migrators : r \notin Inserted(m)

\* Without its schema the shop has nothing there, and nothing on its way there.
SchemaHoldsRows ==
    ~exists => /\ \A r \in Rows : tenant[r] = 0
               /\ \A m \in Upgrades : Inserted(m) = {}

\* The foreign key of the shared tables.
ItemsHaveQueues == \A i \in Items : public[i] # 0 => public[queueOf[i]] # 0

\* No row is being copied twice, nor to where it is; an item goes back to the
\* shared tables with its queue.
CopiesAreApart ==
    /\ \A m \in Migrators : \A o \in Others(m) : Inserted(m) \cap Inserted(o) = {}
    /\ \A m \in Upgrades : \A r \in Inserted(m) : tenant[r] = 0
    /\ \A m \in Downgrades : \A r \in Inserted(m) : public[r] = 0
    /\ \A m \in Downgrades : \A i \in Inserted(m) \cap Items : queueOf[i] \in Inserted(m)

\* What is being deleted is there and locked, a queue with all its items; and
\* of the tables that have been deleted from, no copied row is left.
DeletesAreLocked ==
    \A m \in Migrators :
        /\ \A o \in Others(m) : mig[m].deletes \cap mig[o].deletes = {}
        /\ \A r \in mig[m].deletes : public[r] # 0
        /\ \A i \in Items :
            public[i] # 0 /\ queueOf[i] \in mig[m].deletes => i \in mig[m].deletes
        /\ mig[m].step = "delete" => \A k \in 1 .. mig[m].done :
            \A r \in Deleted[k] \cap Inserted(m) : public[r] = 0 \/ r \in mig[m].deletes

\* Moves that do not cross go one way, and know where they are.
MovesKnowWhere ==
    "crossed" \notin mishaps =>
        /\ Upgrades = {} \/ Downgrades = {}
        /\ \A m \in Upgrades : /\ mig[m].step \in {"copy", "delete"} => exists
                               /\ mig[m].step = "tier" => pointer = "tenant"
                               /\ pointer = "tenant" => exists
        /\ \A m \in Downgrades : /\ mig[m].step = "clear" => ~exists
                                 /\ mig[m].step = "tier" => pointer = "none"
                                 /\ pointer = "none" => ~exists

From(m) == IF mig[m].op = "upgrade" THEN public ELSE tenant

\* The tables m has copied.
HasCopied(m, k) == mig[m].step = "delete" \/ (mig[m].step = "copy" /\ k <= mig[m].done)

\* A row nobody writes is in the table that is served and not in the other; a
\* migration's copy of it is true, and is made when its table is copied.
QuietRowsAreCopied ==
    "crossed" \notin mishaps => \A r \in Rows \ raced :
        /\ IF Resolve(pointer) = "tenant" THEN public[r] = 0 ELSE tenant[r] = 0
        /\ \A m \in Migrators :
            /\ r \in Inserted(m) => mig[m].copies[r] = From(m)[r]
            /\ \A k \in 1 .. Len(Copied) :
                HasCopied(m, k) /\ r \in Copied[k] /\ From(m)[r] # 0 => r \in Inserted(m)

\* The schema's tables have no foreign keys, but such an item is in its queue.
QuietItemsHaveQueues ==
    "crossed" \notin mishaps => \A i \in Items \ raced :
        /\ tenant[i] # 0 => tenant[queueOf[i]] # 0
        /\ \A m \in Upgrades :
            HasCopied(m, 2) /\ public[i] # 0 => queueOf[i] \in Inserted(m)

\* The tier is behind the pointer only while a move is at its last commit.
TierFollows ==
    mishaps = {} => \/ tier = "PREMIUM" <=> pointer = "tenant"
                    \/ \E m \in Migrators : mig[m].step = "tier"

\* However moves, failures and requests interleave, no row is in two places, and
\* quiet rows are where the shop's pointer leads; with what these need to know of
\* the statements under way.
IInv ==
    /\ TypeOK /\ MovesAreWhole /\ RowsAreKnown /\ SchemaHoldsRows
    /\ ItemsHaveQueues /\ CopiesAreApart /\ DeletesAreLocked /\ NeverInBoth
    /\ MovesKnowWhere /\ QuietRowsAreServed /\ QuietRowsAreCopied /\ QuietItemsHaveQueues
    /\ PointerHasSchema /\ TierFollows
=============================================================================
