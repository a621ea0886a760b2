----------------------- MODULE TenantMigrationProofs -----------------------
(***************************************************************************)
(* A shop that moves between the shared tables and a schema of its own,    *)
(* for any numbers of rows, versions, migrations and requests: no row is   *)
(* in both, and rows nobody writes meanwhile are where the pointer leads.  *)
(***************************************************************************)
EXTENDS TenantMigration, TLAPS

-----------------------------------------------------------------------------
(* Tables and statements.                                                  *)

LEMMA Tables ==
    /\ Len(Copied) = 3 /\ Len(Deleted) = 3
    /\ Copied[1] = Services /\ Copied[2] = Queues /\ Copied[3] = Items
    /\ Deleted[1] = Items /\ Deleted[2] = Queues /\ Deleted[3] = Services
    /\ \A k \in 1 .. 3 : Copied[k] \subseteq Rows /\ Deleted[k] \subseteq Rows
    /\ \A r \in Rows : (\E k \in 1 .. 3 : r \in Copied[k]) /\ (\E k \in 1 .. 3 : r \in Deleted[k])
<1>1. /\ Len(Copied) = 3 /\ Len(Deleted) = 3
      /\ Copied[1] = Services /\ Copied[2] = Queues /\ Copied[3] = Items
      /\ Deleted[1] = Items /\ Deleted[2] = Queues /\ Deleted[3] = Services
  BY DEF Copied, Deleted
<1> HIDE DEF Copied, Deleted
<1>2. \A k \in 1 .. 3 : k = 1 \/ k = 2 \/ k = 3
  OBVIOUS
<1>3. 1 \in 1 .. 3 /\ 2 \in 1 .. 3 /\ 3 \in 1 .. 3
  OBVIOUS
<1>4. \A k \in 1 .. 3 : Copied[k] \subseteq Rows /\ Deleted[k] \subseteq Rows
  BY <1>1, <1>2 DEF Rows
<1>5. \A r \in Rows : (\E k \in 1 .. 3 : r \in Copied[k]) /\ (\E k \in 1 .. 3 : r \in Deleted[k])
  BY <1>1, <1>3 DEF Rows
<1> QED BY <1>1, <1>4, <1>5

\* The kinds of rows do not overlap.
LEMMA Kinds ==
    /\ Services \subseteq Rows /\ Queues \subseteq Rows /\ Items \subseteq Rows
    /\ Services \cap Queues = {} /\ Services \cap Items = {} /\ Queues \cap Items = {}
BY TenantConstants DEF Rows

Move == [op : {"none", "upgrade", "downgrade"},
         step : {"idle", "create", "copy", "delete", "clear", "tier"},
         done : 0 .. 3, copies : [Rows -> 0 .. MaxVersion], deletes : SUBSET Rows]

LEMMA MoveType == ASSUME IInv, NEW m \in Migrators PROVE mig[m] \in Move
BY DEF IInv, TypeOK, Move

LEMMA IdleIsMove ==
    /\ Idle \in Move
    /\ [Idle EXCEPT !.op = "upgrade", !.step = "tier"] \in Move
    /\ [Idle EXCEPT !.op = "downgrade", !.step = "clear"] \in Move
<1>1. [r \in Rows |-> 0] \in [Rows -> 0 .. MaxVersion] /\ {} \in SUBSET Rows /\ 0 \in 0 .. 3
  BY TenantConstants
<1> QED BY <1>1 DEF Idle, Move

Places ==
    /\ TypeOK /\ MovesAreWhole /\ RowsAreKnown /\ SchemaHoldsRows
    /\ ItemsHaveQueues /\ CopiesAreApart /\ DeletesAreLocked /\ NeverInBoth
Quiet == QuietRowsAreServed /\ QuietRowsAreCopied /\ QuietItemsHaveQueues
Marks == MovesKnowWhere /\ PointerHasSchema /\ TierFollows

LEMMA Parts == IInv <=> Places /\ Quiet /\ Marks
BY DEF IInv, Places, Quiet, Marks

LEMMA PartsPrime == IInv' <=> Places' /\ Quiet' /\ Marks'
BY Parts, PTL

\* One thread's migration goes on.
Goes(m, w) == mig' = [mig EXCEPT ![m] = w]

InsertedBy(w) == {r \in Rows : w.copies[r] # 0}

LEMMA OneGoes ==
    ASSUME IInv, NEW m \in Migrators, NEW w \in Move, Goes(m, w)
    PROVE  /\ mig' \in [Migrators -> Move]
           /\ mig'[m] = w /\ \A o \in Others(m) : mig'[o] = mig[o]
           /\ Inserted(m)' = InsertedBy(w) /\ \A o \in Others(m) : Inserted(o)' = Inserted(o)
           /\ \A o \in Migrators : o # m => o \in Others(m)
<1>1. mig \in [Migrators -> Move]
  BY DEF IInv, TypeOK, Move
<1>2. /\ mig' \in [Migrators -> Move]
      /\ mig'[m] = w /\ \A o \in Others(m) : mig'[o] = mig[o]
  BY <1>1 DEF Goes, Others
<1>3. Inserted(m)' = InsertedBy(w) /\ \A o \in Others(m) : Inserted(o)' = Inserted(o)
  BY <1>2 DEF Inserted, InsertedBy, Others
<1> QED BY <1>2, <1>3 DEF Others

\* A record of a migration that is between its commits, or has just begun.
EmptyHanded(w) ==
    /\ w.copies = [r \in Rows |-> 0] /\ w.deletes = {} /\ w.step # "delete"
    /\ w.step = "idle" => w = Idle
    /\ w.op = "none" => w.step = "idle"
    /\ w.op = "upgrade" => w.step \in {"create", "copy", "tier"}
    /\ w.op = "downgrade" => w.step \in {"copy", "clear", "tier"}
    /\ w.step \in {"create", "copy"} => w.done = 0

LEMMA EmptyInserts == ASSUME NEW w, EmptyHanded(w) PROVE InsertedBy(w) = {}
BY DEF EmptyHanded, InsertedBy

\* A step between statements that write rows leaves the rows in their places.
LEMMA EmptyHandedKeepsPlaces ==
    ASSUME IInv, NEW m \in Migrators, NEW w \in Move, Goes(m, w), EmptyHanded(w),
           UNCHANGED <<public, tenant, queueOf, latest, req, raced>>,
           exists' \in BOOLEAN, exists => exists', pointer' \in {"tenant", "none"},
           tier' \in {"FREE", "PREMIUM"}, begun' \in 0 .. MaxMigrations,
           mishaps' \subseteq {"crossed", "interrupted"}
    PROVE  Places'
<1> USE Parts DEF Places
<1>1. /\ mig' \in [Migrators -> Move]
      /\ mig'[m] = w /\ \A o \in Others(m) : mig'[o] = mig[o]
      /\ Inserted(m)' = {} /\ \A o \in Others(m) : Inserted(o)' = Inserted(o)
      /\ \A o \in Migrators : o # m => o \in Others(m)
  BY OneGoes, EmptyInserts
<1>2. \A o \in Migrators : Inserted(o)' \subseteq Inserted(o)
  BY <1>1
<1>3. TypeOK'
  BY <1>1 DEF TypeOK, Move
<1>4. MovesAreWhole'
  <2> SUFFICES ASSUME NEW o \in Migrators
               PROVE  /\ mig'[o].step = "idle" => mig'[o] = Idle
                      /\ mig'[o].op = "none" => mig'[o].step = "idle"
                      /\ mig'[o].op = "upgrade" => mig'[o].step \in {"create", "copy", "delete", "tier"}
                      /\ mig'[o].op = "downgrade" => mig'[o].step \in {"copy", "clear", "tier"}
                      /\ Inserted(o)' # {} => mig'[o].step \in {"copy", "delete"}
                      /\ mig'[o].deletes # {} => mig'[o].step = "delete"
                      /\ mig'[o].step = "create" => mig'[o].done = 0
    BY DEF MovesAreWhole, Idle
  <2>1. CASE o = m
    BY <1>1, <2>1 DEF EmptyHanded
  <2>2. CASE o # m
    BY <1>1, <2>2 DEF MovesAreWhole
  <2> QED BY <2>1, <2>2
<1>5. RowsAreKnown'
  BY <1>2 DEF RowsAreKnown
<1>6. \A o \in Upgrades' : Inserted(o)' = {} \/ (o \in Upgrades /\ Inserted(o)' = Inserted(o))
  BY <1>1 DEF Upgrades
<1>7. \A o \in Downgrades' : Inserted(o)' = {} \/ (o \in Downgrades /\ Inserted(o)' = Inserted(o))
  BY <1>1 DEF Downgrades
<1>8. SchemaHoldsRows'
  BY <1>6 DEF SchemaHoldsRows
<1>9. ItemsHaveQueues'
  BY DEF ItemsHaveQueues
<1>10. CopiesAreApart'
  <2>1. \A p \in Migrators : \A o \in Others(p) : (Inserted(p) \cap Inserted(o))' = {}
    BY <1>2 DEF CopiesAreApart, Others
  <2>2. \A p \in Upgrades' : \A r \in Inserted(p)' : tenant'[r] = 0
    BY <1>6 DEF CopiesAreApart
  <2>3. \A p \in Downgrades' : \A r \in Inserted(p)' : public'[r] = 0
    BY <1>7 DEF CopiesAreApart
  <2>4. \A p \in Downgrades' : \A i \in Inserted(p)' \cap Items : queueOf'[i] \in Inserted(p)'
    BY <1>7 DEF CopiesAreApart
  <2> QED BY <2>1, <2>2, <2>3, <2>4 DEF CopiesAreApart, Others
<1>11. DeletesAreLocked'
  <2>1. \A o \in Migrators : mig'[o] = mig[o] \/ (mig'[o].deletes = {} /\ mig'[o].step # "delete")
    BY <1>1 DEF EmptyHanded
  <2>2. \A o \in Migrators : mig'[o].deletes = mig[o].deletes \/ mig'[o].deletes = {}
    BY <2>1
  <2>3. \A p \in Migrators : \A o \in Others(p) : mig'[p].deletes \cap mig'[o].deletes = {}
    BY <2>2 DEF DeletesAreLocked, Others
  <2>4. ASSUME NEW p \in Migrators
        PROVE  /\ \A r \in mig'[p].deletes : public'[r] # 0
               /\ \A i \in Items :
                    public'[i] # 0 /\ queueOf'[i] \in mig'[p].deletes => i \in mig'[p].deletes
    BY <2>2 DEF DeletesAreLocked
  <2>5. ASSUME NEW p \in Migrators, mig'[p].step = "delete", NEW k \in 1 .. mig'[p].done,
               NEW r \in Deleted[k] \cap Inserted(p)'
        PROVE  public'[r] = 0 \/ r \in mig'[p].deletes
    BY <1>2, <2>1, <2>5 DEF DeletesAreLocked
  <2> QED BY <2>3, <2>4, <2>5 DEF DeletesAreLocked, Others
<1>12. NeverInBoth'
  BY DEF NeverInBoth
<1> QED BY <1>3, <1>4, <1>5, <1>8, <1>9, <1>10, <1>11, <1>12

\* Nor do they change what is served of the rows nobody writes.
LEMMA EmptyHandedKeepsQuiet ==
    ASSUME IInv, NEW m \in Migrators, NEW w \in Move, Goes(m, w), EmptyHanded(w),
           UNCHANGED <<public, tenant, queueOf, latest, req, raced>>,
           mishaps \subseteq mishaps',
           "crossed" \notin mishaps' => (Resolve(pointer)' = Resolve(pointer))
    PROVE  Quiet'
<1> USE Parts DEF Quiet
<1> SUFFICES ASSUME "crossed" \notin mishaps' PROVE Quiet'
  BY DEF QuietRowsAreServed, QuietRowsAreCopied, QuietItemsHaveQueues
<1>1. /\ mig'[m] = w /\ \A o \in Others(m) : mig'[o] = mig[o]
      /\ Inserted(m)' = {} /\ \A o \in Others(m) : Inserted(o)' = Inserted(o)
      /\ \A o \in Migrators : o # m => o \in Others(m)
  BY OneGoes, EmptyInserts
<1>2. "crossed" \notin mishaps /\ Resolve(pointer)' = Resolve(pointer)
  OBVIOUS
<1>3. \A k \in 1 .. 3 : ~HasCopied(m, k)'
  BY <1>1 DEF EmptyHanded, HasCopied
<1>4. \A o \in Others(m) : From(o)' = From(o) /\ \A k \in 1 .. 3 : HasCopied(o, k)' = HasCopied(o, k)
  BY <1>1 DEF HasCopied, From
<1>5. QuietRowsAreServed'
  BY <1>2 DEF QuietRowsAreServed, TableAt
<1>6. QuietRowsAreCopied'
  <2> SUFFICES ASSUME NEW r \in Rows \ raced'
               PROVE  /\ IF Resolve(pointer)' = "tenant" THEN public'[r] = 0 ELSE tenant'[r] = 0
                      /\ \A o \in Migrators :
                          /\ r \in Inserted(o)' => mig'[o].copies[r] = From(o)'[r]
                          /\ \A k \in 1 .. Len(Copied) :
                              HasCopied(o, k)' /\ r \in Copied[k] /\ From(o)'[r] # 0 => r \in Inserted(o)'
    BY DEF QuietRowsAreCopied
  <2>1. r \in Rows \ raced
    OBVIOUS
  <2>2. IF Resolve(pointer)' = "tenant" THEN public'[r] = 0 ELSE tenant'[r] = 0
    BY <1>2, <2>1 DEF QuietRowsAreCopied
  <2>3. ASSUME NEW o \in Migrators, r \in Inserted(o)' PROVE mig'[o].copies[r] = From(o)'[r]
    BY <1>1, <1>2, <1>4, <2>1, <2>3 DEF QuietRowsAreCopied
  <2>4. ASSUME NEW o \in Migrators, NEW k \in 1 .. Len(Copied),
               HasCopied(o, k)', r \in Copied[k], From(o)'[r] # 0
        PROVE  r \in Inserted(o)'
    <3>1. k \in 1 .. 3
      BY Tables
    <3>2. o \in Others(m)
      BY <1>1, <1>3, <2>4, <3>1
    <3> QED BY <1>1, <1>2, <1>4, <2>1, <2>4, <3>1, <3>2 DEF QuietRowsAreCopied
  <2> QED BY <2>2, <2>3, <2>4
<1>7. QuietItemsHaveQueues'
  <2>1. ASSUME NEW i \in Items \ raced', tenant'[i] # 0 PROVE tenant'[queueOf'[i]] # 0
    BY <1>2, <2>1 DEF QuietItemsHaveQueues
  <2>2. ASSUME NEW i \in Items \ raced', NEW o \in Upgrades', HasCopied(o, 2)', public'[i] # 0
        PROVE  queueOf'[i] \in Inserted(o)'
    <3>1. o \in Others(m) /\ HasCopied(o, 2) /\ o \in Upgrades
      BY <1>1, <1>3, <1>4, <2>2 DEF Upgrades
    <3> QED BY <1>1, <1>2, <2>2, <3>1 DEF QuietItemsHaveQueues
  <2> QED BY <2>1, <2>2 DEF QuietItemsHaveQueues
<1> QED BY <1>5, <1>6, <1>7

-----------------------------------------------------------------------------
(* The steps of a migration that commit no rows.                           *)

LEMMA BeginKeeps ==
    ASSUME IInv, NEW m \in Migrators, NEW op \in {"upgrade", "downgrade"}, Begin(m, op)
    PROVE  IInv'
<1> DEFINE w == [mig[m] EXCEPT !.op = op, !.step = IF op = "upgrade" THEN "create" ELSE "copy"]
<1>1. /\ mig[m] = Idle /\ begun < MaxMigrations /\ pointer = IF op = "upgrade" THEN "none" ELSE "tenant"
      /\ begun' = begun + 1 /\ UNCHANGED <<tables, req, latest, raced>>
  BY DEF Begin, IInv, MovesAreWhole
<1>2. mig \in [Migrators -> Move] /\ mig[m] \in Move
  BY MoveType DEF IInv, TypeOK, Move
<1>3. w \in Move
  BY <1>2 DEF Move
<1>4. Goes(m, w)
  BY <1>2 DEF Begin, Goes
<1>5. /\ w.op = op /\ w.step = (IF op = "upgrade" THEN "create" ELSE "copy")
      /\ w.copies = [r \in Rows |-> 0] /\ w.deletes = {} /\ w.done = 0
  BY <1>1 DEF Idle
<1>6. EmptyHanded(w)
  BY <1>5 DEF EmptyHanded
<1> HIDE DEF w
<1>7. mishaps \subseteq mishaps' /\ mishaps' \subseteq {"crossed", "interrupted"}
  BY DEF Begin, IInv, TypeOK
<1>8. UNCHANGED <<public, tenant, exists, pointer, tier, queueOf>>
  BY <1>1 DEF tables
<1>9. Places'
  <2>1. begun' \in 0 .. MaxMigrations
    BY <1>1, TenantConstants DEF IInv, TypeOK
  <2>2. exists' \in BOOLEAN /\ (exists => exists') /\ pointer' \in {"tenant", "none"} /\ tier' \in {"FREE", "PREMIUM"}
    BY <1>8 DEF IInv, TypeOK
  <2> QED BY <1>1, <1>3, <1>4, <1>6, <1>7, <1>8, <2>1, <2>2, EmptyHandedKeepsPlaces
<1>10. Quiet'
  <2>1. Resolve(pointer)' = Resolve(pointer)
    BY <1>8 DEF Resolve
  <2> QED BY <1>1, <1>3, <1>4, <1>6, <1>7, <1>8, <2>1, EmptyHandedKeepsQuiet
<1>11. /\ mig'[m] = w /\ \A o \in Others(m) : mig'[o] = mig[o]
       /\ \A o \in Migrators : o # m => o \in Others(m)
  BY <1>3, <1>4, OneGoes
<1>12. Marks'
  <2>1. MovesKnowWhere'
    <3> SUFFICES ASSUME "crossed" \notin mishaps' PROVE MovesKnowWhere'
      BY DEF MovesKnowWhere
    <3>1. "crossed" \notin mishaps /\ \A o \in Others(m) : mig[o].step = "idle" \/ mig[o].op = op
      BY DEF Begin
    <3>2. \A o \in Others(m) : mig[o].op = op \/ mig[o].op = "none"
      BY <3>1 DEF IInv, MovesAreWhole, Others, Idle
    <3>3. \A o \in Migrators : mig'[o].op = op \/ mig'[o].op = "none"
      BY <3>2, <1>11, <1>5
    <3>4. Upgrades' = {} \/ Downgrades' = {}
      BY <3>3 DEF Upgrades, Downgrades
    <3>5. \A o \in Upgrades' : /\ mig'[o].step \in {"copy", "delete"} => exists'
                               /\ mig'[o].step = "tier" => pointer' = "tenant"
                               /\ pointer' = "tenant" => exists'
      BY <3>1, <1>1, <1>5, <1>8, <1>11 DEF IInv, MovesKnowWhere, Upgrades
    <3>6. \A o \in Downgrades' : /\ mig'[o].step = "clear" => ~exists'
                                 /\ mig'[o].step = "tier" => pointer' = "none"
                                 /\ pointer' = "none" => ~exists'
      BY <3>1, <1>1, <1>5, <1>8, <1>11 DEF IInv, MovesKnowWhere, Downgrades
    <3> QED BY <3>4, <3>5, <3>6 DEF MovesKnowWhere
  <2>2. \A o \in Migrators : mig[o].step # "idle" => mig'[o] = mig[o]
    BY <1>1, <1>11 DEF Idle
  <2>3. PointerHasSchema'
    BY <1>7, <1>8, <2>2 DEF IInv, PointerHasSchema
  <2>4. TierFollows'
    BY <1>7, <1>8, <2>2 DEF IInv, TierFollows
  <2> QED BY <2>1, <2>3, <2>4 DEF Marks
<1> QED BY <1>9, <1>10, <1>12, PartsPrime

LEMMA CreateSchemaKeeps == ASSUME IInv, NEW m \in Migrators, CreateSchema(m) PROVE IInv'
<1> DEFINE w == [mig[m] EXCEPT !.step = "copy"]
<1>1. /\ mig[m].step = "create" /\ exists' = TRUE
      /\ UNCHANGED <<public, tenant, pointer, tier, queueOf, req, begun, latest, raced, mishaps>>
  BY DEF CreateSchema
<1>2. mig[m] \in Move
  BY MoveType
<1>3. w \in Move /\ w.step = "copy" /\ w.op = mig[m].op /\ w.copies = mig[m].copies
      /\ w.deletes = mig[m].deletes /\ w.done = mig[m].done
  BY <1>2 DEF Move
<1>4. Goes(m, w)
  BY DEF CreateSchema, Goes
<1>5. mig[m].op = "upgrade" /\ mig[m].deletes = {} /\ mig[m].done = 0 /\ Inserted(m) = {}
  BY <1>1, <1>2 DEF IInv, MovesAreWhole, Move
<1>6. w.copies = [r \in Rows |-> 0]
  BY <1>2, <1>3, <1>5 DEF Inserted, Move
<1>7. EmptyHanded(w)
  BY <1>3, <1>5, <1>6 DEF EmptyHanded
<1> HIDE DEF w
<1>8. exists' \in BOOLEAN /\ (exists => exists') /\ pointer' \in {"tenant", "none"}
      /\ tier' \in {"FREE", "PREMIUM"} /\ begun' \in 0 .. MaxMigrations
      /\ mishaps' \subseteq {"crossed", "interrupted"} /\ mishaps \subseteq mishaps'
  BY <1>1 DEF IInv, TypeOK
<1>9. Places'
  BY <1>1, <1>3, <1>4, <1>7, <1>8, EmptyHandedKeepsPlaces
<1>10. Quiet'
  <2>1. "crossed" \notin mishaps' => (Resolve(pointer)' = Resolve(pointer))
    BY <1>1, <1>5 DEF IInv, MovesKnowWhere, Upgrades, Resolve
  <2> QED BY <1>1, <1>3, <1>4, <1>7, <1>8, <2>1, EmptyHandedKeepsQuiet
<1>11. /\ mig'[m] = w /\ \A o \in Others(m) : mig'[o] = mig[o]
       /\ \A o \in Migrators : o # m => o \in Others(m)
  BY <1>3, <1>4, OneGoes
<1>12. Upgrades' = Upgrades /\ Downgrades' = Downgrades /\ m \in Upgrades
  BY <1>3, <1>5, <1>11 DEF Upgrades, Downgrades
<1>13. MovesKnowWhere'
  <2>1. m \notin Downgrades
    BY <1>5 DEF Downgrades
  <2> SUFFICES ASSUME "crossed" \notin mishaps' PROVE MovesKnowWhere'
    BY DEF MovesKnowWhere
  <2>2. Downgrades' = {}
    BY <1>1, <1>12 DEF IInv, MovesKnowWhere
  <2>3. \A o \in Upgrades' : mig'[o].step = "tier" => pointer' = "tenant"
    BY <1>1, <1>3, <1>11, <1>12 DEF IInv, MovesKnowWhere, Upgrades
  <2> QED BY <1>1, <2>2, <2>3 DEF MovesKnowWhere
<1>14. PointerHasSchema'
  BY <1>1 DEF PointerHasSchema
<1>15. TierFollows'
  <2>1. \A o \in Migrators : mig[o].step = "tier" => mig'[o] = mig[o]
    BY <1>1, <1>11
  <2> QED BY <1>1, <2>1 DEF IInv, TierFollows
<1> QED BY <1>9, <1>10, <1>13, <1>14, <1>15, PartsPrime DEF Marks

LEMMA ClearKeeps == ASSUME IInv, NEW m \in Migrators, Clear(m) PROVE IInv'
<1> DEFINE w == [mig[m] EXCEPT !.step = "tier"]
<1>1. /\ mig[m].step = "clear" /\ pointer' = "none"
      /\ UNCHANGED <<public, tenant, exists, tier, queueOf, req, begun, latest, raced, mishaps>>
  BY DEF Clear, Cleared
<1>2. mig[m] \in Move
  BY MoveType
<1>3. w \in Move /\ w.step = "tier" /\ w.op = mig[m].op /\ w.copies = mig[m].copies
      /\ w.deletes = mig[m].deletes
  BY <1>2 DEF Move
<1>4. Goes(m, w)
  BY DEF Clear, Goes
<1>5. mig[m].op = "downgrade" /\ mig[m].deletes = {} /\ Inserted(m) = {}
  BY <1>1, <1>2 DEF IInv, MovesAreWhole, Move
<1>6. w.copies = [r \in Rows |-> 0]
  BY <1>2, <1>3, <1>5 DEF Inserted, Move
<1>7. EmptyHanded(w)
  BY <1>3, <1>5, <1>6 DEF EmptyHanded
<1> HIDE DEF w
<1>8. exists' \in BOOLEAN /\ (exists => exists') /\ pointer' \in {"tenant", "none"}
      /\ tier' \in {"FREE", "PREMIUM"} /\ begun' \in 0 .. MaxMigrations
      /\ mishaps' \subseteq {"crossed", "interrupted"} /\ mishaps \subseteq mishaps'
  BY <1>1 DEF IInv, TypeOK
<1>9. Places'
  BY <1>1, <1>3, <1>4, <1>7, <1>8, EmptyHandedKeepsPlaces
<1>10. "crossed" \notin mishaps => ~exists
  BY <1>1, <1>5 DEF IInv, MovesKnowWhere, Downgrades
<1>11. Quiet'
  <2>1. "crossed" \notin mishaps' => (Resolve(pointer)' = Resolve(pointer))
    BY <1>1, <1>10 DEF Resolve
  <2> QED BY <1>1, <1>3, <1>4, <1>7, <1>8, <2>1, EmptyHandedKeepsQuiet
<1>12. /\ mig'[m] = w /\ \A o \in Others(m) : mig'[o] = mig[o]
       /\ \A o \in Migrators : o # m => o \in Others(m)
  BY <1>3, <1>4, OneGoes
<1>13. Upgrades' = Upgrades /\ Downgrades' = Downgrades /\ m \in Downgrades
  BY <1>3, <1>5, <1>12 DEF Upgrades, Downgrades
<1>14. MovesKnowWhere'
  <2> SUFFICES ASSUME "crossed" \notin mishaps' PROVE MovesKnowWhere'
    BY DEF MovesKnowWhere
  <2>1. Upgrades' = {}
    BY <1>1, <1>13 DEF IInv, MovesKnowWhere
  <2>2. ~exists'
    BY <1>1, <1>10
  <2> QED BY <1>1, <2>1, <2>2 DEF MovesKnowWhere
<1>15. PointerHasSchema'
  BY <1>1 DEF PointerHasSchema
<1>16. TierFollows'
  BY <1>3, <1>12 DEF TierFollows
<1> QED BY <1>9, <1>11, <1>14, <1>15, <1>16, PartsPrime DEF Marks

LEMMA IdleIsEmpty == EmptyHanded(Idle) /\ Idle.step = "idle" /\ Idle.op = "none"
BY DEF EmptyHanded, Idle

LEMMA SetTierKeeps == ASSUME IInv, NEW m \in Migrators, SetTier(m) PROVE IInv'
<1>1. /\ mig[m].step = "tier" /\ tier' = TierAfter(mig[m].op) /\ Goes(m, Idle)
      /\ UNCHANGED <<public, tenant, exists, pointer, queueOf, req, begun, latest, raced, mishaps>>
  BY DEF SetTier, Goes
<1>2. exists' \in BOOLEAN /\ (exists => exists') /\ pointer' \in {"tenant", "none"}
      /\ tier' \in {"FREE", "PREMIUM"} /\ begun' \in 0 .. MaxMigrations
      /\ mishaps' \subseteq {"crossed", "interrupted"} /\ mishaps \subseteq mishaps'
  BY <1>1 DEF IInv, TypeOK, TierAfter
<1>3. Places'
  BY <1>1, <1>2, IdleIsMove, IdleIsEmpty, EmptyHandedKeepsPlaces
<1>4. Quiet'
  <2>1. Resolve(pointer)' = Resolve(pointer)
    BY <1>1 DEF Resolve
  <2> QED BY <1>1, <1>2, <2>1, IdleIsMove, IdleIsEmpty, EmptyHandedKeepsQuiet
<1>5. /\ mig'[m] = Idle /\ \A o \in Others(m) : mig'[o] = mig[o]
      /\ \A o \in Migrators : o # m => o \in Others(m)
  BY <1>1, IdleIsMove, OneGoes
<1>6. \A o \in Migrators : mig'[o].op # "none" \/ mig'[o].step # "idle" => mig'[o] = mig[o]
  BY <1>5, IdleIsEmpty
<1>7. MovesKnowWhere'
  BY <1>1, <1>6 DEF IInv, MovesKnowWhere, Upgrades, Downgrades
<1>8. PointerHasSchema'
  <2>1. \A o \in Migrators : mig[o].step = "clear" => mig'[o] = mig[o]
    BY <1>1, <1>5
  <2> QED BY <1>1, <2>1 DEF IInv, PointerHasSchema
<1>9. TierFollows'
  <2> SUFFICES ASSUME mishaps' = {} PROVE tier' = "PREMIUM" <=> pointer' = "tenant"
    BY DEF TierFollows
  <2>1. "crossed" \notin mishaps
    BY <1>1
  <2>2. mig[m].op \in {"upgrade", "downgrade"}
    BY <1>1, MoveType DEF IInv, MovesAreWhole, Move
  <2>3. CASE mig[m].op = "upgrade"
    BY <1>1, <2>1, <2>3 DEF IInv, MovesKnowWhere, Upgrades, TierAfter
  <2>4. CASE mig[m].op = "downgrade"
    BY <1>1, <2>1, <2>4 DEF IInv, MovesKnowWhere, Downgrades, TierAfter
  <2> QED BY <2>2, <2>3, <2>4
<1> QED BY <1>3, <1>4, <1>7, <1>8, <1>9, PartsPrime DEF Marks

LEMMA MigrationFailsKeeps == ASSUME IInv, NEW m \in Migrators, MigrationFails(m) PROVE IInv'
<1>1. /\ Goes(m, Idle)
      /\ UNCHANGED <<public, tenant, exists, pointer, tier, queueOf, req, begun, latest, raced>>
      /\ mishaps' = IF mig[m].step \in {"clear", "tier"} THEN mishaps \cup {"interrupted"} ELSE mishaps
  BY DEF MigrationFails, Goes, tables
<1>2. exists' \in BOOLEAN /\ (exists => exists') /\ pointer' \in {"tenant", "none"}
      /\ tier' \in {"FREE", "PREMIUM"} /\ begun' \in 0 .. MaxMigrations
      /\ mishaps' \subseteq {"crossed", "interrupted"} /\ mishaps \subseteq mishaps'
  BY <1>1 DEF IInv, TypeOK
<1>3. Places'
  BY <1>1, <1>2, IdleIsMove, IdleIsEmpty, EmptyHandedKeepsPlaces
<1>4. Quiet'
  <2>1. Resolve(pointer)' = Resolve(pointer)
    BY <1>1 DEF Resolve
  <2> QED BY <1>1, <1>2, <2>1, IdleIsMove, IdleIsEmpty, EmptyHandedKeepsQuiet
<1>5. /\ mig'[m] = Idle /\ \A o \in Others(m) : mig'[o] = mig[o]
      /\ \A o \in Migrators : o # m => o \in Others(m)
  BY <1>1, IdleIsMove, OneGoes
<1>6. \A o \in Migrators : mig'[o].op # "none" \/ mig'[o].step # "idle" => mig'[o] = mig[o]
  BY <1>5, IdleIsEmpty
<1>7. MovesKnowWhere'
  BY <1>1, <1>2, <1>6 DEF IInv, MovesKnowWhere, Upgrades, Downgrades
<1>8. mishaps' = {} => /\ mishaps = {}
                       /\ \A o \in Migrators : mig[o].step \in {"clear", "tier"} => mig'[o] = mig[o]
  BY <1>1, <1>2, <1>5
<1>9. PointerHasSchema' /\ TierFollows'
  BY <1>1, <1>8 DEF IInv, PointerHasSchema, TierFollows
<1> QED BY <1>3, <1>4, <1>7, <1>9, PartsPrime DEF Marks

-----------------------------------------------------------------------------
(* Statements that copy and delete.                                        *)

\* What the shop says of itself concerns the commits alone.
LEMMA MarksStay ==
    ASSUME IInv, UNCHANGED <<exists, pointer, tier, mishaps>>,
           \A o \in Migrators :
               /\ mig'[o].op = mig[o].op
               /\ \/ mig'[o].step = mig[o].step
                  \/ mig[o].step = "copy" /\ mig'[o].step = "delete"
    PROVE  Marks'
<1>1. Upgrades' = Upgrades /\ Downgrades' = Downgrades
  BY DEF Upgrades, Downgrades
<1>2. MovesKnowWhere'
  <2> SUFFICES ASSUME "crossed" \notin mishaps' PROVE MovesKnowWhere'
    BY DEF MovesKnowWhere
  <2>1. \A o \in Upgrades' : /\ mig'[o].step \in {"copy", "delete"} => exists'
                             /\ mig'[o].step = "tier" => pointer' = "tenant"
                             /\ pointer' = "tenant" => exists'
    BY <1>1 DEF IInv, MovesKnowWhere, Upgrades
  <2>2. \A o \in Downgrades' : /\ mig'[o].step = "clear" => ~exists'
                               /\ mig'[o].step = "tier" => pointer' = "none"
                               /\ pointer' = "none" => ~exists'
    BY <1>1 DEF IInv, MovesKnowWhere, Downgrades
  <2> QED BY <1>1, <2>1, <2>2 DEF IInv, MovesKnowWhere
<1>3. PointerHasSchema'
  BY DEF IInv, PointerHasSchema
<1>4. TierFollows'
  BY DEF IInv, TierFollows
<1> QED BY <1>2, <1>3, <1>4 DEF Marks

LEMMA SelectedRows ==
    ASSUME NEW rows \in SUBSET Rows, NEW table
    PROVE  Selected(rows, table) \subseteq rows /\ \A r \in Selected(rows, table) : r \in Rows /\ table[r] # 0
BY DEF Selected

LEMMA MoveCopies ==
    ASSUME NEW v \in Move, NEW d \in 0 .. 3, NEW c \in [Rows -> 0 .. MaxVersion]
    PROVE  [v EXCEPT !.done = d, !.copies = c] \in Move
<1> DEFINE Versions == [Rows -> 0 .. MaxVersion]
           Numbers == 0 .. 3
<1>1. c \in Versions /\ d \in Numbers
  OBVIOUS
<1>2. Move = [op : {"none", "upgrade", "downgrade"},
              step : {"idle", "create", "copy", "delete", "clear", "tier"},
              done : Numbers, copies : Versions, deletes : SUBSET Rows]
  BY DEF Move
<1> HIDE DEF Versions, Numbers
<1> QED BY <1>1, <1>2

\* What a copy changes: m has inserted the rows it selected, with the versions it saw.
LEMMA CopySteps ==
    ASSUME IInv, NEW m \in Migrators, Copy(m)
    PROVE  \E k \in 1 .. 3, rows \in SUBSET Rows, w \in Move :
               /\ k = mig[m].done + 1 /\ rows = Selected(Copied[k], From(m)) /\ Goes(m, w)
               /\ w.op = mig[m].op /\ w.step = "copy" /\ w.done = k /\ w.deletes = {}
               /\ \A r \in Rows : w.copies[r] = IF r \in rows THEN From(m)[r] ELSE mig[m].copies[r]
               /\ InsertedBy(w) = Inserted(m) \cup rows
               /\ mig[m].op \in {"upgrade", "downgrade"} /\ mig[m].step = "copy" /\ mig[m].deletes = {}
               /\ exists /\ Referenced(m, rows)
               /\ \A r \in rows : IF mig[m].op = "upgrade" THEN tenant[r] = 0 ELSE public[r] = 0
               /\ \A o \in Others(m) : mig[o].op = mig[m].op => rows \cap Inserted(o) = {}
               /\ UNCHANGED <<tables, req, begun, latest, raced, mishaps>>
<1> DEFINE k == mig[m].done + 1
           rows == Selected(Copied[k], From(m))
           copies == [r \in Rows |-> IF r \in rows THEN From(m)[r] ELSE mig[m].copies[r]]
           w == [mig[m] EXCEPT !.done = k, !.copies = copies]
<1>1. mig[m] \in Move /\ mig \in [Migrators -> Move]
  BY MoveType DEF IInv, TypeOK, Move
<1>2. k \in 1 .. 3
  BY <1>1, Tables DEF Copy, Move
<1>3. rows \subseteq Rows /\ \A r \in rows : From(m)[r] # 0
  BY <1>2, Tables, SelectedRows
<1>4. From(m) \in [Rows -> 0 .. MaxVersion]
  BY DEF From, IInv, TypeOK
<1>5. /\ mig[m].step = "copy" /\ exists
      /\ \A r \in rows : IF mig[m].op = "upgrade" THEN tenant[r] = 0 ELSE public[r] = 0
      /\ Referenced(m, rows)
      /\ \A o \in Others(m) : mig[o].op = mig[m].op => rows \cap Inserted(o) = {}
      /\ mig' = [mig EXCEPT ![m].done = k,
                            ![m].copies = [r \in Rows |-> IF r \in rows THEN From(m)[r] ELSE @[r]]]
      /\ UNCHANGED <<tables, req, begun, latest, raced, mishaps>>
  BY DEF Copy, From
<1>6. mig[m].op \in {"upgrade", "downgrade"} /\ mig[m].deletes = {}
  BY <1>1, <1>5 DEF IInv, MovesAreWhole, Move
<1> HIDE DEF rows
<1>7. copies \in [Rows -> 0 .. MaxVersion]
  BY <1>1, <1>3, <1>4 DEF Move
<1> HIDE DEF copies
<1>8. w \in Move
  <2>1. k \in 0 .. 3
    BY <1>2
  <2> HIDE DEF k
  <2> QED BY <1>1, <1>7, <2>1, MoveCopies
<1>9. Goes(m, w)
  <2>1. DOMAIN mig' = Migrators /\ \A o \in Migrators \ {m} : mig'[o] = mig[o]
    BY <1>1, <1>5
  <2>2. mig'[m] = w
    BY <1>1, <1>5 DEF Move, copies
  <2> QED BY <1>1, <1>5, <2>1, <2>2 DEF Goes
<1>10. /\ w.op = mig[m].op /\ w.step = "copy" /\ w.done = k /\ w.deletes = {} /\ w.copies = copies
  BY <1>1, <1>5, <1>6 DEF Move
<1>11. InsertedBy(w) = Inserted(m) \cup rows
  BY <1>3, <1>10 DEF InsertedBy, Inserted, copies
<1> HIDE DEF k, w
<1>12. rows = Selected(Copied[k], From(m)) /\ k = mig[m].done + 1
  BY DEF rows, k
<1>13. \A r \in Rows : w.copies[r] = IF r \in rows THEN From(m)[r] ELSE mig[m].copies[r]
  BY <1>10 DEF copies
<1>14. rows \in SUBSET Rows
  BY <1>3
<1> QED BY <1>2, <1>5, <1>6, <1>8, <1>9, <1>10, <1>11, <1>12, <1>13, <1>14

LEMMA CopyKeeps == ASSUME IInv, NEW m \in Migrators, Copy(m) PROVE IInv'
<1> USE Parts DEF Places, Quiet
<1>1. PICK k \in 1 .. 3, rows \in SUBSET Rows, w \in Move :
               /\ k = mig[m].done + 1 /\ rows = Selected(Copied[k], From(m)) /\ Goes(m, w)
               /\ w.op = mig[m].op /\ w.step = "copy" /\ w.done = k /\ w.deletes = {}
               /\ \A r \in Rows : w.copies[r] = IF r \in rows THEN From(m)[r] ELSE mig[m].copies[r]
               /\ InsertedBy(w) = Inserted(m) \cup rows
               /\ mig[m].op \in {"upgrade", "downgrade"} /\ mig[m].step = "copy" /\ mig[m].deletes = {}
               /\ exists /\ Referenced(m, rows)
               /\ \A r \in rows : IF mig[m].op = "upgrade" THEN tenant[r] = 0 ELSE public[r] = 0
               /\ \A o \in Others(m) : mig[o].op = mig[m].op => rows \cap Inserted(o) = {}
               /\ UNCHANGED <<tables, req, begun, latest, raced, mishaps>>
  BY CopySteps
<1>2. /\ mig' \in [Migrators -> Move]
      /\ mig'[m] = w /\ \A o \in Others(m) : mig'[o] = mig[o]
      /\ Inserted(m)' = Inserted(m) \cup rows /\ \A o \in Others(m) : Inserted(o)' = Inserted(o)
      /\ \A o \in Migrators : o # m => o \in Others(m)
  BY <1>1, OneGoes
<1>3. \A r \in rows : r \in Copied[k] /\ r \in Rows /\ From(m)[r] # 0
  BY <1>1, Tables, SelectedRows
<1>4. UNCHANGED <<public, tenant, exists, pointer, tier, queueOf>>
  BY <1>1 DEF tables
<1>5. Upgrades' = Upgrades /\ Downgrades' = Downgrades
  BY <1>1, <1>2 DEF Upgrades, Downgrades
<1>6. TypeOK'
  BY <1>1, <1>2, <1>4 DEF TypeOK, Move
<1>7. MovesAreWhole'
  <2> SUFFICES ASSUME NEW o \in Migrators
               PROVE  /\ mig'[o].step = "idle" => mig'[o] = Idle
                      /\ mig'[o].op = "none" => mig'[o].step = "idle"
                      /\ mig'[o].op = "upgrade" => mig'[o].step \in {"create", "copy", "delete", "tier"}
                      /\ mig'[o].op = "downgrade" => mig'[o].step \in {"copy", "clear", "tier"}
                      /\ Inserted(o)' # {} => mig'[o].step \in {"copy", "delete"}
                      /\ mig'[o].deletes # {} => mig'[o].step = "delete"
                      /\ mig'[o].step = "create" => mig'[o].done = 0
    BY DEF MovesAreWhole, Idle
  <2>1. CASE o = m
    BY <1>1, <1>2, <2>1
  <2>2. CASE o # m
    BY <1>2, <2>2 DEF MovesAreWhole
  <2> QED BY <2>1, <2>2
<1>8. \A o \in Others(m) : o \in Migrators /\ m \in Others(o)
  BY DEF Others
<1>9. \A r \in rows : (mig[m].op = "upgrade" => public[r] # 0) /\ (mig[m].op = "downgrade" => tenant[r] # 0)
  BY <1>3 DEF From
<1>10. \A o \in Others(m) : rows \cap Inserted(o) = {}
  <2> SUFFICES ASSUME NEW o \in Others(m), NEW r \in rows, r \in Inserted(o) PROVE FALSE
    OBVIOUS
  <2>1. o \in Migrators /\ mig[o] \in Move
    BY <1>8, MoveType
  <2>2. mig[o].op # mig[m].op /\ mig[o].op # "none"
    BY <1>1, <2>1, MoveType DEF MovesAreWhole
  <2>3. CASE mig[m].op = "upgrade" /\ mig[o].op = "downgrade"
    BY <1>9, <2>1, <2>3 DEF CopiesAreApart, Downgrades
  <2>4. CASE mig[m].op = "downgrade" /\ mig[o].op = "upgrade"
    BY <1>9, <2>1, <2>4 DEF CopiesAreApart, Upgrades
  <2> QED BY <1>1, <2>1, <2>2, <2>3, <2>4 DEF Move
<1>11. RowsAreKnown'
  <2>1. \A r \in rows : latest[r] # 0
    BY <1>1, <1>3, <1>9 DEF RowsAreKnown
  <2> QED BY <1>1, <1>2, <1>4, <2>1 DEF RowsAreKnown
<1>12. SchemaHoldsRows' /\ ItemsHaveQueues' /\ NeverInBoth'
  BY <1>1, <1>4 DEF SchemaHoldsRows, ItemsHaveQueues, NeverInBoth
<1>13. CopiesAreApart'
  <2>1. ASSUME NEW p \in Migrators, NEW o \in Others(p) PROVE (Inserted(p) \cap Inserted(o))' = {}
    <3>1. o \in Migrators /\ o # p
      BY DEF Others
    <3>2. Inserted(p) \cap Inserted(o) = {}
      BY DEF CopiesAreApart
    <3> QED BY <1>2, <1>10, <3>1, <3>2
  <2>2. \A p \in Upgrades' : \A r \in Inserted(p)' : tenant'[r] = 0
    BY <1>1, <1>2, <1>4, <1>5 DEF CopiesAreApart, Upgrades
  <2>3. \A p \in Downgrades' : \A r \in Inserted(p)' : public'[r] = 0
    BY <1>1, <1>2, <1>4, <1>5 DEF CopiesAreApart, Downgrades
  <2>4. ASSUME NEW p \in Downgrades', NEW i \in Inserted(p)' \cap Items PROVE queueOf'[i] \in Inserted(p)'
    <3>1. CASE p = m /\ i \in rows
      <4>1. mig[m].op = "downgrade"
        BY <1>5, <3>1 DEF Downgrades
      <4>2. tenant[queueOf[i]] # 0
        BY <1>1, <3>1, <4>1 DEF Selected, From
      <4>3. queueOf[i] \in Rows
        BY Kinds DEF TypeOK
      <4>4. public[queueOf[i]] = 0
        BY <4>2, <4>3 DEF NeverInBoth
      <4> QED BY <1>1, <1>2, <1>4, <3>1, <4>1, <4>4 DEF Referenced
    <3>2. CASE p = m /\ i \notin rows
      BY <1>2, <1>4, <1>5, <3>2 DEF CopiesAreApart
    <3>3. CASE p # m
      BY <1>2, <1>4, <1>5, <3>3 DEF CopiesAreApart, Downgrades
    <3> QED BY <3>1, <3>2, <3>3
  <2> QED BY <2>1, <2>2, <2>3, <2>4 DEF CopiesAreApart, Others
<1>14. DeletesAreLocked'
  <2>1. \A o \in Migrators : mig'[o].deletes = mig[o].deletes
    BY <1>1, <1>2
  <2>2. \A p \in Migrators : \A o \in Others(p) : mig'[p].deletes \cap mig'[o].deletes = {}
    BY <2>1 DEF DeletesAreLocked, Others
  <2>3. ASSUME NEW p \in Migrators
        PROVE  /\ \A r \in mig'[p].deletes : public'[r] # 0
               /\ \A i \in Items :
                    public'[i] # 0 /\ queueOf'[i] \in mig'[p].deletes => i \in mig'[p].deletes
    BY <1>4, <2>1 DEF DeletesAreLocked
  <2>4. ASSUME NEW p \in Migrators, mig'[p].step = "delete", NEW j \in 1 .. mig'[p].done,
               NEW r \in Deleted[j] \cap Inserted(p)'
        PROVE  public'[r] = 0 \/ r \in mig'[p].deletes
    <3>1. p \in Others(m)
      BY <1>1, <1>2, <2>4
    <3> QED BY <1>2, <1>4, <2>4, <3>1 DEF DeletesAreLocked
  <2> QED BY <2>2, <2>3, <2>4 DEF DeletesAreLocked, Others
<1>15. Places'
  BY <1>6, <1>7, <1>11, <1>12, <1>13, <1>14
<1>16. From(m)' = From(m) /\ \A o \in Others(m) : From(o)' = From(o) /\ \A j \in 1 .. 3 : HasCopied(o, j)' = HasCopied(o, j)
  BY <1>1, <1>2, <1>4 DEF HasCopied, From
<1>17. \A j \in 1 .. 3 : HasCopied(m, j)' => HasCopied(m, j) \/ j = k
  <2>1. mig[m].done \in 0 .. 3
    BY MoveType DEF Move
  <2> QED BY <1>1, <1>2, <2>1 DEF HasCopied
<1>18. QuietRowsAreServed'
  BY <1>1, <1>4 DEF QuietRowsAreServed, TableAt, Resolve
<1>19. QuietRowsAreCopied'
  <2> SUFFICES ASSUME "crossed" \notin mishaps', NEW r \in Rows \ raced'
               PROVE  /\ IF Resolve(pointer)' = "tenant" THEN public'[r] = 0 ELSE tenant'[r] = 0
                      /\ \A o \in Migrators :
                          /\ r \in Inserted(o)' => mig'[o].copies[r] = From(o)'[r]
                          /\ \A j \in 1 .. Len(Copied) :
                              HasCopied(o, j)' /\ r \in Copied[j] /\ From(o)'[r] # 0 => r \in Inserted(o)'
    BY DEF QuietRowsAreCopied
  <2>1. r \in Rows \ raced /\ "crossed" \notin mishaps
    BY <1>1
  <2>2. IF Resolve(pointer)' = "tenant" THEN public'[r] = 0 ELSE tenant'[r] = 0
    BY <1>4, <2>1 DEF QuietRowsAreCopied, Resolve
  <2>3. ASSUME NEW o \in Migrators, r \in Inserted(o)' PROVE mig'[o].copies[r] = From(o)'[r]
    <3>1. CASE o = m /\ r \in rows
      BY <1>1, <1>2, <1>16, <3>1
    <3>2. CASE o = m /\ r \notin rows
      BY <1>1, <1>2, <1>16, <2>1, <2>3, <3>2 DEF QuietRowsAreCopied
    <3>3. CASE o # m
      BY <1>2, <1>16, <2>1, <2>3, <3>3 DEF QuietRowsAreCopied
    <3> QED BY <3>1, <3>2, <3>3
  <2>4. ASSUME NEW o \in Migrators, NEW j \in 1 .. Len(Copied),
               HasCopied(o, j)', r \in Copied[j], From(o)'[r] # 0
        PROVE  r \in Inserted(o)'
    <3>1. j \in 1 .. 3
      BY Tables
    <3>2. CASE o # m
      BY <1>2, <1>16, <2>1, <2>4, <3>1, <3>2 DEF QuietRowsAreCopied
    <3>3. CASE o = m /\ HasCopied(m, j)
      BY <1>2, <1>16, <2>1, <2>4, <3>3 DEF QuietRowsAreCopied
    <3>4. CASE o = m /\ j = k
      <4>1. From(m)[r] # 0 /\ r \in Copied[k]
        BY <1>16, <2>4, <3>4
      <4>2. r \in Items => From(m)[queueOf[r]] # 0
        <5>1. CASE mig[m].op = "upgrade"
          BY <4>1, <5>1 DEF From, ItemsHaveQueues
        <5>2. CASE mig[m].op = "downgrade"
          BY <2>1, <4>1, <5>2 DEF From, QuietItemsHaveQueues
        <5> QED BY <1>1, <5>1, <5>2
      <4>3. r \in rows
        BY <1>1, <4>1, <4>2 DEF Selected
      <4> QED BY <1>2, <3>4, <4>3
    <3> QED BY <1>17, <2>4, <3>1, <3>2, <3>3, <3>4
  <2> QED BY <2>2, <2>3, <2>4
<1>20. QuietItemsHaveQueues'
  <2> SUFFICES ASSUME "crossed" \notin mishaps', NEW i \in Items \ raced'
               PROVE  /\ tenant'[i] # 0 => tenant'[queueOf'[i]] # 0
                      /\ \A o \in Upgrades' :
                          HasCopied(o, 2)' /\ public'[i] # 0 => queueOf'[i] \in Inserted(o)'
    BY DEF QuietItemsHaveQueues
  <2>1. i \in Items \ raced /\ "crossed" \notin mishaps
    BY <1>1
  <2>2. tenant'[i] # 0 => tenant'[queueOf'[i]] # 0
    BY <1>4, <2>1 DEF QuietItemsHaveQueues
  <2>3. ASSUME NEW o \in Upgrades', HasCopied(o, 2)', public'[i] # 0 PROVE queueOf'[i] \in Inserted(o)'
    <3>1. o \in Migrators /\ o \in Upgrades
      BY <1>5 DEF Upgrades
    <3>2. CASE HasCopied(o, 2)
      BY <1>2, <1>4, <2>1, <2>3, <3>1, <3>2 DEF QuietItemsHaveQueues
    <3>3. CASE o = m /\ k = 2
      <4>1. queueOf[i] \in Copied[2] /\ public[queueOf[i]] # 0
        BY <1>4, <2>1, <2>3, Tables DEF ItemsHaveQueues, TypeOK
      <4>2. queueOf[i] \notin Items
        BY <2>1, Kinds DEF TypeOK
      <4>3. From(m) = public
        BY <3>1, <3>3 DEF From, Upgrades
      <4>4. queueOf[i] \in rows
        BY <1>1, <3>3, <4>1, <4>2, <4>3 DEF Selected
      <4> QED BY <1>2, <1>4, <3>3, <4>4
    <3> QED BY <1>2, <1>16, <1>17, <2>3, <3>1, <3>2, <3>3
  <2> QED BY <2>2, <2>3
<1>21. Marks'
  <2>1. \A o \in Migrators : mig'[o].op = mig[o].op /\ mig'[o].step = mig[o].step
    BY <1>1, <1>2
  <2> QED BY <1>1, <1>4, <2>1, MarksStay
<1> QED BY <1>15, <1>18, <1>19, <1>20, <1>21, PartsPrime

\* Shared queues go with their items.
WithItems(rows) == rows \cup {i \in Items : public[i] # 0 /\ queueOf[i] \in rows}

\* What a delete changes: m has deleted, in all, rows that are there, and with
\* a queue its items.
LEMMA DeleteSteps ==
    ASSUME IInv, NEW m \in Migrators, Delete(m)
    PROVE  \E k \in 1 .. 3, rows \in SUBSET Rows, all \in SUBSET Rows, w \in Move :
               /\ rows = Selected(Deleted[k], public)
               /\ all = WithItems(rows)
               /\ Goes(m, w) /\ w.op = "upgrade" /\ w.step = "delete" /\ w.done = k
               /\ w.copies = mig[m].copies /\ w.deletes = mig[m].deletes \cup all
               /\ mig[m].op = "upgrade"
               /\ \/ mig[m].step = "delete" /\ k = mig[m].done + 1
                  \/ mig[m].step = "copy" /\ mig[m].done = 3 /\ k = 1
               /\ \A o \in Others(m) : all \cap mig[o].deletes = {}
               /\ UNCHANGED <<tables, req, begun, latest, raced, mishaps>>
<1> DEFINE k == IF mig[m].step = "delete" THEN mig[m].done + 1 ELSE 1
           rows == Selected(Deleted[k], public)
           all == rows \cup {i \in Items : public[i] # 0 /\ queueOf[i] \in rows}
           w == [mig[m] EXCEPT !.step = "delete", !.done = k, !.deletes = mig[m].deletes \cup all]
<1>1. mig[m] \in Move /\ mig \in [Migrators -> Move]
  BY MoveType DEF IInv, TypeOK, Move
<1>2. k \in 1 .. 3
  BY <1>1, Tables DEF Delete, Move
<1>3. rows \subseteq Rows
  BY <1>2, Tables, SelectedRows
<1>4. all \subseteq Rows
  BY <1>3, Kinds
<1>5. /\ mig[m].step = "delete" \/ (mig[m].step = "copy" /\ mig[m].op = "upgrade" /\ mig[m].done = 3)
      /\ \A o \in Others(m) : all \cap mig[o].deletes = {}
      /\ mig' = [mig EXCEPT ![m].step = "delete", ![m].done = k, ![m].deletes = @ \cup all]
      /\ UNCHANGED <<tables, req, begun, latest, raced, mishaps>>
  BY Tables DEF Delete, CopyDone
<1>6. mig[m].op = "upgrade"
  BY <1>1, <1>5 DEF IInv, MovesAreWhole, Move
<1> HIDE DEF k, rows, all
<1>7. w \in Move /\ w.op = mig[m].op /\ w.step = "delete" /\ w.done = k
      /\ w.copies = mig[m].copies /\ w.deletes = mig[m].deletes \cup all
  <2>1. k \in 0 .. 3 /\ mig[m].deletes \cup all \in SUBSET Rows
    BY <1>1, <1>2, <1>4 DEF Move
  <2> QED BY <1>1, <2>1 DEF Move
<1>8. Goes(m, w)
  BY <1>1, <1>5 DEF Goes, Move
<1> HIDE DEF w
<1>9. rows = Selected(Deleted[k], public)
      /\ all = WithItems(rows)
  BY DEF rows, all, WithItems
<1>10. \/ mig[m].step = "delete" /\ k = mig[m].done + 1
       \/ mig[m].step = "copy" /\ mig[m].done = 3 /\ k = 1
  BY <1>5 DEF k
<1>11. rows \in SUBSET Rows /\ all \in SUBSET Rows /\ w.op = "upgrade"
  BY <1>3, <1>4, <1>6, <1>7
<1> QED BY <1>2, <1>5, <1>6, <1>7, <1>8, <1>9, <1>10, <1>11

LEMMA DeleteKeeps == ASSUME IInv, NEW m \in Migrators, Delete(m) PROVE IInv'
<1> USE Parts DEF Places, Quiet
<1>1. PICK k \in 1 .. 3, rows \in SUBSET Rows, all \in SUBSET Rows, w \in Move :
               /\ rows = Selected(Deleted[k], public)
               /\ all = WithItems(rows)
               /\ Goes(m, w) /\ w.op = "upgrade" /\ w.step = "delete" /\ w.done = k
               /\ w.copies = mig[m].copies /\ w.deletes = mig[m].deletes \cup all
               /\ mig[m].op = "upgrade"
               /\ \/ mig[m].step = "delete" /\ k = mig[m].done + 1
                  \/ mig[m].step = "copy" /\ mig[m].done = 3 /\ k = 1
               /\ \A o \in Others(m) : all \cap mig[o].deletes = {}
               /\ UNCHANGED <<tables, req, begun, latest, raced, mishaps>>
  BY DeleteSteps
<1>2. /\ mig' \in [Migrators -> Move]
      /\ mig'[m] = w /\ \A o \in Others(m) : mig'[o] = mig[o]
      /\ \A o \in Migrators : Inserted(o)' = Inserted(o)
      /\ \A o \in Migrators : o # m => o \in Others(m)
  <2>1. InsertedBy(w) = Inserted(m)
    BY <1>1 DEF InsertedBy, Inserted
  <2> QED BY <1>1, <2>1, OneGoes
<1>3. UNCHANGED <<public, tenant, exists, pointer, tier, queueOf>>
  BY <1>1 DEF tables
<1>4. Upgrades' = Upgrades /\ Downgrades' = Downgrades
  BY <1>1, <1>2 DEF Upgrades, Downgrades
<1>5. \A r \in all : public[r] # 0
  <2>1. \A r \in rows : public[r] # 0
    BY <1>1 DEF Selected
  <2> QED BY <1>1, <2>1 DEF WithItems
<1>6. TypeOK'
  BY <1>1, <1>2, <1>3 DEF TypeOK, Move
<1>7. MovesAreWhole'
  <2> SUFFICES ASSUME NEW o \in Migrators
               PROVE  /\ mig'[o].step = "idle" => mig'[o] = Idle
                      /\ mig'[o].op = "none" => mig'[o].step = "idle"
                      /\ mig'[o].op = "upgrade" => mig'[o].step \in {"create", "copy", "delete", "tier"}
                      /\ mig'[o].op = "downgrade" => mig'[o].step \in {"copy", "clear", "tier"}
                      /\ Inserted(o)' # {} => mig'[o].step \in {"copy", "delete"}
                      /\ mig'[o].deletes # {} => mig'[o].step = "delete"
                      /\ mig'[o].step = "create" => mig'[o].done = 0
    BY DEF MovesAreWhole, Idle
  <2>1. CASE o = m
    BY <1>1, <1>2, <2>1
  <2>2. CASE o # m
    BY <1>2, <2>2 DEF MovesAreWhole
  <2> QED BY <2>1, <2>2
<1>8. RowsAreKnown' /\ SchemaHoldsRows' /\ ItemsHaveQueues' /\ NeverInBoth'
  BY <1>1, <1>2, <1>3, <1>4 DEF RowsAreKnown, SchemaHoldsRows, ItemsHaveQueues, NeverInBoth, Upgrades
<1>9. CopiesAreApart'
  BY <1>2, <1>3, <1>4 DEF CopiesAreApart, Others, Upgrades, Downgrades
<1>10. DeletesAreLocked'
  <2>1. mig'[m].deletes = mig[m].deletes \cup all
    BY <1>1, <1>2
  <2>2. ASSUME NEW p \in Migrators, NEW o \in Others(p) PROVE mig'[p].deletes \cap mig'[o].deletes = {}
    <3>1. o \in Migrators /\ o # p
      BY DEF Others
    <3>2. mig[p].deletes \cap mig[o].deletes = {}
      BY DEF DeletesAreLocked
    <3>3. CASE p = m
      BY <1>1, <1>2, <2>1, <3>1, <3>2, <3>3
    <3>4. CASE o = m
      BY <1>1, <1>2, <2>1, <3>1, <3>2, <3>4
    <3>5. CASE p # m /\ o # m
      BY <1>2, <3>1, <3>2, <3>5
    <3> QED BY <3>3, <3>4, <3>5
  <2>3. ASSUME NEW p \in Migrators, NEW r \in mig'[p].deletes PROVE public'[r] # 0
    BY <1>2, <1>3, <1>5, <2>1 DEF DeletesAreLocked
  <2>4. ASSUME NEW p \in Migrators, NEW i \in Items, public'[i] # 0, queueOf'[i] \in mig'[p].deletes
        PROVE  i \in mig'[p].deletes
    <3>1. CASE queueOf[i] \in mig[p].deletes
      BY <1>2, <1>3, <2>1, <2>4, <3>1 DEF DeletesAreLocked
    <3>2. CASE queueOf[i] \notin mig[p].deletes
      <4>1. p = m /\ queueOf[i] \in all
        BY <1>2, <1>3, <2>1, <2>4, <3>2
      <4>2. queueOf[i] \notin Items
        BY Kinds DEF TypeOK
      <4> QED BY <1>1, <1>3, <2>1, <2>4, <4>1, <4>2 DEF WithItems
    <3> QED BY <3>1, <3>2
  <2>5. ASSUME NEW p \in Migrators, mig'[p].step = "delete", NEW j \in 1 .. mig'[p].done,
               NEW r \in Deleted[j] \cap Inserted(p)'
        PROVE  public'[r] = 0 \/ r \in mig'[p].deletes
    <3>1. CASE p # m
      BY <1>2, <1>3, <2>5, <3>1 DEF DeletesAreLocked
    <3>2. CASE p = m /\ j = k
      <4>1. r \in Rows /\ r \in Deleted[k]
        BY <1>2, <2>5, <3>2 DEF Inserted
      <4>2. public[r] # 0 => r \in rows
        BY <1>1, <4>1 DEF ItemsHaveQueues, Selected
      <4> QED BY <1>1, <1>3, <2>1, <3>2, <4>2 DEF WithItems
    <3>3. CASE p = m /\ j # k
      <4>1. j \in 1 .. mig[m].done /\ mig[m].step = "delete"
        <5>1. mig[m].done \in 0 .. 3
          BY MoveType DEF Move
        <5> QED BY <1>1, <1>2, <2>5, <3>3, <5>1
      <4>2. public[r] = 0 \/ r \in mig[m].deletes
        BY <1>2, <2>5, <3>3, <4>1 DEF DeletesAreLocked
      <4> QED BY <1>3, <2>1, <3>3, <4>2
    <3> QED BY <3>1, <3>2, <3>3
  <2> QED BY <2>2, <2>3, <2>4, <2>5 DEF DeletesAreLocked, Others
<1>11. Places'
  BY <1>6, <1>7, <1>8, <1>9, <1>10
<1>12. ASSUME NEW o \in Migrators
       PROVE  /\ From(o)' = From(o) /\ mig'[o].copies = mig[o].copies
              /\ \A j \in 1 .. 3 : HasCopied(o, j)' => HasCopied(o, j)
  BY <1>1, <1>2, <1>3 DEF HasCopied, From
<1>13. Quiet'
  <2>1. QuietRowsAreServed'
    BY <1>1, <1>3 DEF QuietRowsAreServed, TableAt, Resolve
  <2>2. QuietRowsAreCopied'
    <3> SUFFICES ASSUME "crossed" \notin mishaps', NEW r \in Rows \ raced'
                 PROVE  /\ IF Resolve(pointer)' = "tenant" THEN public'[r] = 0 ELSE tenant'[r] = 0
                        /\ \A o \in Migrators :
                            /\ r \in Inserted(o)' => mig'[o].copies[r] = From(o)'[r]
                            /\ \A j \in 1 .. Len(Copied) :
                                HasCopied(o, j)' /\ r \in Copied[j] /\ From(o)'[r] # 0 => r \in Inserted(o)'
      BY DEF QuietRowsAreCopied
    <3>1. r \in Rows \ raced /\ "crossed" \notin mishaps
      BY <1>1
    <3>2. IF Resolve(pointer)' = "tenant" THEN public'[r] = 0 ELSE tenant'[r] = 0
      BY <1>3, <3>1 DEF QuietRowsAreCopied, Resolve
    <3>3. ASSUME NEW o \in Migrators
          PROVE  /\ r \in Inserted(o)' => mig'[o].copies[r] = From(o)'[r]
                 /\ \A j \in 1 .. Len(Copied) :
                      HasCopied(o, j)' /\ r \in Copied[j] /\ From(o)'[r] # 0 => r \in Inserted(o)'
      BY <1>2, <1>12, <3>1, Tables DEF QuietRowsAreCopied
    <3> QED BY <3>2, <3>3
  <2>3. QuietItemsHaveQueues'
    <3>1. 2 \in 1 .. 3 /\ \A o \in Upgrades : o \in Migrators
      BY DEF Upgrades
    <3> SUFFICES ASSUME "crossed" \notin mishaps', NEW i \in Items \ raced'
                 PROVE  /\ tenant'[i] # 0 => tenant'[queueOf'[i]] # 0
                        /\ \A o \in Upgrades' :
                            HasCopied(o, 2)' /\ public'[i] # 0 => queueOf'[i] \in Inserted(o)'
      BY DEF QuietItemsHaveQueues
    <3>2. i \in Items \ raced /\ "crossed" \notin mishaps
      BY <1>1
    <3>3. tenant'[i] # 0 => tenant'[queueOf'[i]] # 0
      BY <1>3, <3>2 DEF QuietItemsHaveQueues
    <3>4. ASSUME NEW o \in Upgrades', HasCopied(o, 2)', public'[i] # 0 PROVE queueOf'[i] \in Inserted(o)'
      <4>1. HasCopied(o, 2) /\ o \in Upgrades
        BY <1>4, <1>12, <3>1, <3>4
      <4> QED BY <1>2, <1>3, <3>1, <3>2, <3>4, <4>1 DEF QuietItemsHaveQueues
    <3> QED BY <3>3, <3>4
  <2> QED BY <2>1, <2>2, <2>3
<1>14. Marks'
  <2>1. /\ mig'[m].op = mig[m].op
        /\ mig'[m].step = mig[m].step \/ (mig[m].step = "copy" /\ mig'[m].step = "delete")
    BY <1>1, <1>2
  <2>2. \A o \in Migrators : /\ mig'[o].op = mig[o].op
                             /\ \/ mig'[o].step = mig[o].step
                                \/ mig[o].step = "copy" /\ mig'[o].step = "delete"
    BY <1>2, <2>1
  <2> QED BY <1>1, <1>3, <2>2, MarksStay
<1> QED BY <1>11, <1>13, <1>14, PartsPrime

-----------------------------------------------------------------------------
(* The commits that move the rows.                                         *)

LEMMA PointKeepsPlaces == ASSUME IInv, NEW m \in Migrators, Point(m) PROVE Places'
<1> USE Parts DEF Places
<1> DEFINE w == [Idle EXCEPT !.op = "upgrade", !.step = "tier"]
           I == Inserted(m)
           D == mig[m].deletes
<1>1. /\ mig[m].step = "delete" /\ mig[m].done = 3 /\ pointer' = "tenant" /\ Goes(m, w)
      /\ tenant' = WithCopies(tenant, m) /\ public' = WithoutDeletes(public, m)
      /\ UNCHANGED <<exists, tier, queueOf, req, begun, latest, raced, mishaps>>
  BY Tables DEF Point, Goes
<1>2. mig[m] \in Move /\ mig[m].op = "upgrade" /\ m \in Upgrades
  BY <1>1, MoveType DEF MovesAreWhole, Move, Upgrades
<1>3. w \in Move /\ EmptyHanded(w) /\ w.op = "upgrade" /\ w.step = "tier" /\ w.deletes = {}
  BY IdleIsMove DEF EmptyHanded, Idle
<1> HIDE DEF w
<1>4. /\ mig' \in [Migrators -> Move]
      /\ mig'[m] = w /\ \A o \in Others(m) : mig'[o] = mig[o]
      /\ Inserted(m)' = {} /\ \A o \in Others(m) : Inserted(o)' = Inserted(o)
      /\ \A o \in Migrators : o # m => o \in Others(m)
  BY <1>1, <1>3, OneGoes, EmptyInserts
<1>5. Upgrades' = Upgrades /\ Downgrades' = Downgrades
  BY <1>2, <1>3, <1>4 DEF Upgrades, Downgrades
<1>6. \A r \in Rows : /\ tenant'[r] = IF r \in I THEN mig[m].copies[r] ELSE tenant[r]
                      /\ public'[r] = IF r \in D THEN 0 ELSE public[r]
                      /\ r \in I => mig[m].copies[r] # 0
  BY <1>1 DEF WithCopies, WithoutDeletes, Inserted
<1> HIDE DEF I, D
<1>7. ASSUME NEW r \in I PROVE public'[r] = 0
  <2>1. r \in Rows /\ r \in Inserted(m)
    BY DEF I, Inserted
  <2>2. PICK j \in 1 .. 3 : r \in Deleted[j]
    BY <2>1, Tables
  <2>3. public[r] = 0 \/ r \in D
    BY <1>1, <2>1, <2>2 DEF DeletesAreLocked, D
  <2> QED BY <1>6, <2>1, <2>3
<1>8. TypeOK'
  <2>1. tenant' \in [Rows -> 0 .. MaxVersion] /\ public' \in [Rows -> 0 .. MaxVersion]
    <3>1. mig[m].copies \in [Rows -> 0 .. MaxVersion] /\ 0 \in 0 .. MaxVersion
      BY <1>2, TenantConstants DEF Move
    <3> QED BY <1>1, <3>1 DEF TypeOK, WithCopies, WithoutDeletes
  <2> QED BY <1>1, <1>4, <2>1 DEF TypeOK, Move
<1>9. MovesAreWhole'
  <2> SUFFICES ASSUME NEW o \in Migrators
               PROVE  /\ mig'[o].step = "idle" => mig'[o] = Idle
                      /\ mig'[o].op = "none" => mig'[o].step = "idle"
                      /\ mig'[o].op = "upgrade" => mig'[o].step \in {"create", "copy", "delete", "tier"}
                      /\ mig'[o].op = "downgrade" => mig'[o].step \in {"copy", "clear", "tier"}
                      /\ Inserted(o)' # {} => mig'[o].step \in {"copy", "delete"}
                      /\ mig'[o].deletes # {} => mig'[o].step = "delete"
                      /\ mig'[o].step = "create" => mig'[o].done = 0
    BY DEF MovesAreWhole, Idle
  <2>1. CASE o = m
    BY <1>3, <1>4, <2>1
  <2>2. CASE o # m
    BY <1>4, <2>2 DEF MovesAreWhole
  <2> QED BY <2>1, <2>2
<1>10. RowsAreKnown'
  BY <1>1, <1>4, <1>6 DEF RowsAreKnown, I
<1>11. SchemaHoldsRows'
  BY <1>1, <1>2, <1>4, <1>5, <1>6 DEF SchemaHoldsRows, I, Upgrades
<1>12. ItemsHaveQueues'
  <2> SUFFICES ASSUME NEW i \in Items, public'[i] # 0 PROVE public'[queueOf'[i]] # 0
    BY DEF ItemsHaveQueues
  <2>1. i \in Rows /\ queueOf[i] \in Rows /\ queueOf'[i] = queueOf[i]
    BY <1>1, Kinds DEF TypeOK
  <2>2. public[i] # 0 /\ i \notin D
    BY <1>6, <2>1
  <2>3. public[queueOf[i]] # 0 /\ queueOf[i] \notin D
    BY <2>2 DEF ItemsHaveQueues, DeletesAreLocked, D
  <2> QED BY <1>6, <2>1, <2>3
<1>13. CopiesAreApart'
  <2>1. ASSUME NEW p \in Migrators, NEW o \in Others(p) PROVE (Inserted(p) \cap Inserted(o))' = {}
    <3>1. Inserted(p) \cap Inserted(o) = {} /\ o \in Migrators
      BY DEF CopiesAreApart, Others
    <3> QED BY <1>4, <3>1
  <2>2. ASSUME NEW p \in Upgrades', NEW r \in Inserted(p)' PROVE tenant'[r] = 0
    <3>1. p \in Others(m) /\ p \in Upgrades /\ r \in Inserted(p) /\ r \in Rows
      BY <1>4, <1>5, <2>2 DEF Upgrades, Inserted
    <3>2. r \notin I /\ tenant[r] = 0
      BY <1>2, <3>1 DEF CopiesAreApart, I
    <3> QED BY <1>6, <3>1, <3>2
  <2>3. ASSUME NEW p \in Downgrades', NEW r \in Inserted(p)' PROVE public'[r] = 0
    <3>1. p \in Downgrades /\ r \in Inserted(p) /\ r \in Rows
      BY <1>4, <1>5, <2>3 DEF Downgrades, Inserted
    <3> QED BY <1>6, <3>1 DEF CopiesAreApart
  <2>4. ASSUME NEW p \in Downgrades', NEW i \in Inserted(p)' \cap Items PROVE queueOf'[i] \in Inserted(p)'
    BY <1>1, <1>4, <1>5, <2>4 DEF CopiesAreApart, Downgrades
  <2> QED BY <2>1, <2>2, <2>3, <2>4 DEF CopiesAreApart, Others
<1>14. DeletesAreLocked'
  <2>1. mig'[m].deletes = {} /\ mig'[m].step # "delete"
    BY <1>3, <1>4
  <2>2. ASSUME NEW p \in Migrators, NEW o \in Others(p) PROVE mig'[p].deletes \cap mig'[o].deletes = {}
    <3>1. mig[p].deletes \cap mig[o].deletes = {} /\ o \in Migrators
      BY DEF DeletesAreLocked, Others
    <3> QED BY <1>4, <2>1, <3>1
  <2>3. ASSUME NEW p \in Migrators, NEW r \in mig'[p].deletes PROVE public'[r] # 0
    <3>1. p \in Others(m) /\ r \in mig[p].deletes
      BY <1>4, <2>1, <2>3
    <3>2. r \notin D /\ public[r] # 0 /\ r \in Rows
      BY <1>2, <3>1, MoveType DEF DeletesAreLocked, D, Others, Move
    <3> QED BY <1>6, <3>2
  <2>4. ASSUME NEW p \in Migrators, NEW i \in Items, public'[i] # 0, queueOf'[i] \in mig'[p].deletes
        PROVE  i \in mig'[p].deletes
    <3>1. p \in Others(m) /\ queueOf[i] \in mig[p].deletes
      BY <1>1, <1>4, <2>1, <2>4
    <3>2. public[i] # 0
      BY <1>6, <2>4, Kinds
    <3> QED BY <1>4, <3>1, <3>2 DEF DeletesAreLocked
  <2>5. ASSUME NEW p \in Migrators, mig'[p].step = "delete", NEW j \in 1 .. mig'[p].done,
               NEW r \in Deleted[j] \cap Inserted(p)'
        PROVE  public'[r] = 0 \/ r \in mig'[p].deletes
    <3>1. p \in Others(m) /\ mig'[p] = mig[p] /\ r \in Inserted(p) /\ r \in Rows
      BY <1>4, <2>1, <2>5 DEF Inserted
    <3>2. public[r] = 0 \/ r \in mig[p].deletes
      BY <2>5, <3>1 DEF DeletesAreLocked
    <3> QED BY <1>6, <3>1, <3>2
  <2> QED BY <2>2, <2>3, <2>4, <2>5 DEF DeletesAreLocked, Others
<1>15. NeverInBoth'
  BY <1>6, <1>7 DEF NeverInBoth
<1> QED BY <1>8, <1>9, <1>10, <1>11, <1>12, <1>13, <1>14, <1>15

\* The version a row nobody else writes has.
Last(r) == IF latest[r] = Gone THEN 0 ELSE latest[r]

\* What a migration at the end of its statements holds of a quiet row: the
\* row itself, if it is there at all.
LEMMA WholeCopies ==
    ASSUME IInv, "crossed" \notin mishaps, NEW m \in Migrators, NEW r \in Rows \ raced,
           \A k \in 1 .. 3 : HasCopied(m, k)
    PROVE  /\ r \in Inserted(m) <=> From(m)[r] # 0
           /\ r \in Inserted(m) => mig[m].copies[r] = From(m)[r]
<1>1. r \in Inserted(m) => mig[m].copies[r] = From(m)[r]
  BY DEF IInv, QuietRowsAreCopied
<1>2. r \in Inserted(m) => From(m)[r] # 0
  BY <1>1 DEF Inserted
<1>3. ASSUME From(m)[r] # 0 PROVE r \in Inserted(m)
  <2>1. PICK k \in 1 .. 3 : r \in Copied[k]
    BY Tables
  <2> QED BY <1>3, <2>1, Tables DEF IInv, QuietRowsAreCopied
<1> QED BY <1>1, <1>2, <1>3

LEMMA ServedAt ==
    ASSUME IInv, "crossed" \notin mishaps, NEW r \in Rows \ raced
    PROVE  IF Resolve(pointer) = "tenant" THEN tenant[r] = Last(r) /\ public[r] = 0
                                          ELSE public[r] = Last(r) /\ tenant[r] = 0
BY DEF IInv, QuietRowsAreServed, QuietRowsAreCopied, TableAt, Last

LEMMA PointKeepsTheRest == ASSUME IInv, NEW m \in Migrators, Point(m) PROVE Quiet' /\ Marks'
<1> USE Parts DEF Places
<1> DEFINE w == [Idle EXCEPT !.op = "upgrade", !.step = "tier"]
           I == Inserted(m)
<1>1. /\ mig[m].step = "delete" /\ mig[m].done = 3 /\ pointer' = "tenant" /\ Goes(m, w)
      /\ tenant' = WithCopies(tenant, m) /\ public' = WithoutDeletes(public, m)
      /\ UNCHANGED <<exists, tier, queueOf, req, begun, latest, raced, mishaps>>
  BY Tables DEF Point, Goes
<1>2. mig[m] \in Move /\ mig[m].op = "upgrade" /\ m \in Upgrades
  BY <1>1, MoveType DEF MovesAreWhole, Move, Upgrades
<1>3. w \in Move /\ EmptyHanded(w) /\ w.op = "upgrade" /\ w.step = "tier"
  BY IdleIsMove DEF EmptyHanded, Idle
<1> HIDE DEF w
<1>4. /\ mig'[m] = w /\ \A o \in Others(m) : mig'[o] = mig[o]
      /\ Inserted(m)' = {} /\ \A o \in Others(m) : Inserted(o)' = Inserted(o)
      /\ \A o \in Migrators : o # m => o \in Others(m)
  BY <1>1, <1>3, OneGoes, EmptyInserts
<1>5. Upgrades' = Upgrades /\ Downgrades' = Downgrades
  BY <1>2, <1>3, <1>4 DEF Upgrades, Downgrades
<1>6. \A r \in Rows : /\ tenant'[r] = IF r \in I THEN mig[m].copies[r] ELSE tenant[r]
                      /\ r \in I => mig[m].copies[r] # 0
  BY <1>1 DEF WithCopies, Inserted
<1>7. From(m) = public /\ \A k \in 1 .. 3 : HasCopied(m, k)
  BY <1>1, <1>2 DEF From, HasCopied
<1>8. PointerHasSchema' /\ TierFollows' /\ ("crossed" \notin mishaps => MovesKnowWhere' /\ exists)
  <2>1. "crossed" \notin mishaps => Downgrades = {} /\ exists
    BY <1>1, <1>2 DEF Marks, MovesKnowWhere
  <2>2. "crossed" \notin mishaps => MovesKnowWhere'
    BY <1>1, <1>5, <2>1 DEF MovesKnowWhere
  <2>3. PointerHasSchema'
    BY <1>1, <2>1 DEF PointerHasSchema
  <2>4. TierFollows'
    BY <1>3, <1>4 DEF TierFollows
  <2> QED BY <2>1, <2>2, <2>3, <2>4
<1>9. Marks'
  BY <1>1, <1>8 DEF Marks, MovesKnowWhere
<1>10. SUFFICES ASSUME "crossed" \notin mishaps PROVE Quiet'
  BY <1>1, <1>9 DEF Quiet, QuietRowsAreServed, QuietRowsAreCopied, QuietItemsHaveQueues
<1>11. Resolve(pointer)' = "tenant" /\ Downgrades = {}
  BY <1>1, <1>2, <1>8, <1>10 DEF Resolve, Marks, MovesKnowWhere
<1>12. ASSUME NEW r \in Rows \ raced
       PROVE  tenant'[r] = Last(r) /\ public'[r] = 0
  <2>1. r \in I <=> public[r] # 0
    BY <1>7, <1>10, WholeCopies
  <2>2. r \in I => mig[m].copies[r] = public[r]
    BY <1>7, <1>10, WholeCopies
  <2>3. tenant'[r] = Last(r)
    BY <1>6, <1>10, <2>1, <2>2, ServedAt
  <2>4. tenant'[r] # 0 => public'[r] = 0
    BY <1>1, PointKeepsPlaces DEF NeverInBoth, Places
  <2>5. public[r] # 0 => tenant'[r] # 0
    BY <1>6, <2>1
  <2>6. public'[r] # 0 => public[r] # 0
    BY <1>1 DEF WithoutDeletes
  <2> QED BY <2>3, <2>4, <2>5, <2>6
<1>13. QuietRowsAreServed'
  BY <1>1, <1>11, <1>12 DEF QuietRowsAreServed, TableAt, Last
<1>14. \A o \in Others(m), r \in Rows \ raced : r \notin Inserted(o)
  <2> SUFFICES ASSUME NEW o \in Others(m), NEW r \in Rows \ raced, r \in Inserted(o) PROVE FALSE
    OBVIOUS
  <2>1. o \in Migrators /\ mig[o].op = "upgrade"
    <3>1. o \in Migrators /\ mig[o].op # "none"
      BY DEF Others, MovesAreWhole, Inserted
    <3> QED BY <1>11, <3>1, MoveType DEF Downgrades, Move
  <2>2. public[r] # 0
    BY <1>10, <2>1 DEF Quiet, QuietRowsAreCopied, From, Inserted
  <2>3. r \in Inserted(m)
    BY <1>7, <1>10, <2>2, WholeCopies
  <2> QED BY <2>3 DEF CopiesAreApart
<1>15. QuietRowsAreCopied'
  <2> SUFFICES ASSUME NEW r \in Rows \ raced
               PROVE  /\ public'[r] = 0
                      /\ \A o \in Migrators :
                          /\ r \notin Inserted(o)'
                          /\ \A j \in 1 .. Len(Copied) : HasCopied(o, j)' => From(o)'[r] = 0
    BY <1>1, <1>11 DEF QuietRowsAreCopied
  <2>1. \A o \in Migrators : r \notin Inserted(o)'
    BY <1>4, <1>14
  <2>2. ASSUME NEW o \in Migrators, NEW j \in 1 .. Len(Copied), HasCopied(o, j)' PROVE From(o)'[r] = 0
    <3>1. mig'[o].op = "upgrade"
      <4>1. o \in Others(m) /\ HasCopied(o, j)
        BY <1>3, <1>4, <2>2 DEF HasCopied
      <4>2. mig[o].op # "none"
        BY <4>1 DEF MovesAreWhole, HasCopied
      <4> QED BY <1>4, <1>11, <4>1, <4>2, MoveType DEF Downgrades, Move
    <3> QED BY <1>12, <3>1 DEF From
  <2> QED BY <1>12, <2>1, <2>2
<1>16. QuietItemsHaveQueues'
  <2> SUFFICES ASSUME NEW i \in Items \ raced
               PROVE  /\ tenant'[i] # 0 => tenant'[queueOf[i]] # 0
                      /\ public'[i] = 0
    BY <1>1 DEF QuietItemsHaveQueues
  <2>1. i \in Rows \ raced /\ queueOf[i] \in Rows
    BY Kinds DEF TypeOK
  <2>2. CASE i \in I
    <3>1. public[i] # 0
      BY <1>7, <1>10, <2>1, <2>2, WholeCopies
    <3>2. queueOf[i] \in I
      BY <1>2, <1>7, <1>10, <3>1 DEF Quiet, QuietItemsHaveQueues
    <3> QED BY <1>6, <1>12, <2>1, <3>2
  <2>3. CASE i \notin I
    <3>1. tenant'[i] # 0 => tenant[queueOf[i]] # 0
      BY <1>6, <1>10, <2>1, <2>3 DEF Quiet, QuietItemsHaveQueues
    <3> QED BY <1>6, <1>12, <2>1, <3>1
  <2> QED BY <2>2, <2>3
<1> QED BY <1>13, <1>15, <1>16 DEF Quiet

LEMMA DropKeepsPlaces == ASSUME IInv, NEW m \in Migrators, Drop(m) PROVE Places'
<1> USE Parts DEF Places
<1> DEFINE w == [Idle EXCEPT !.op = "downgrade", !.step = "clear"]
           I == Inserted(m)
<1>1. /\ mig[m].step = "copy" /\ mig[m].op = "downgrade" /\ exists' = FALSE /\ Goes(m, w)
      /\ \A o \in Others(m) : mig[o].op = "upgrade" => Inserted(o) = {}
      /\ public' = WithCopies(public, m) /\ tenant' = [r \in Rows |-> 0]
      /\ UNCHANGED <<pointer, tier, queueOf, req, begun, latest, raced, mishaps>>
  BY DEF Drop, CopyDone, Goes
<1>2. mig[m] \in Move /\ m \in Downgrades
  BY <1>1, MoveType DEF Downgrades
<1>3. w \in Move /\ EmptyHanded(w) /\ w.op = "downgrade" /\ w.step = "clear" /\ w.deletes = {}
  BY IdleIsMove DEF EmptyHanded, Idle
<1> HIDE DEF w
<1>4. /\ mig' \in [Migrators -> Move]
      /\ mig'[m] = w /\ \A o \in Others(m) : mig'[o] = mig[o]
      /\ Inserted(m)' = {} /\ \A o \in Others(m) : Inserted(o)' = Inserted(o)
      /\ \A o \in Migrators : o # m => o \in Others(m)
  BY <1>1, <1>3, OneGoes, EmptyInserts
<1>5. Upgrades' = Upgrades /\ Downgrades' = Downgrades
  BY <1>1, <1>3, <1>4 DEF Upgrades, Downgrades
<1>6. \A r \in Rows : /\ public'[r] = IF r \in I THEN mig[m].copies[r] ELSE public[r]
                      /\ tenant'[r] = 0
                      /\ r \in I => mig[m].copies[r] # 0
  BY <1>1 DEF WithCopies, Inserted
<1> HIDE DEF I
<1>7. \A r \in I : public[r] = 0
  BY <1>2 DEF CopiesAreApart, I
<1>8. TypeOK'
  <2>1. tenant' \in [Rows -> 0 .. MaxVersion] /\ public' \in [Rows -> 0 .. MaxVersion]
    <3>1. mig[m].copies \in [Rows -> 0 .. MaxVersion] /\ 0 \in 0 .. MaxVersion
      BY <1>2, TenantConstants DEF Move
    <3> QED BY <1>1, <3>1 DEF TypeOK, WithCopies
  <2> QED BY <1>1, <1>4, <2>1 DEF TypeOK, Move
<1>9. MovesAreWhole'
  <2> SUFFICES ASSUME NEW o \in Migrators
               PROVE  /\ mig'[o].step = "idle" => mig'[o] = Idle
                      /\ mig'[o].op = "none" => mig'[o].step = "idle"
                      /\ mig'[o].op = "upgrade" => mig'[o].step \in {"create", "copy", "delete", "tier"}
                      /\ mig'[o].op = "downgrade" => mig'[o].step \in {"copy", "clear", "tier"}
                      /\ Inserted(o)' # {} => mig'[o].step \in {"copy", "delete"}
                      /\ mig'[o].deletes # {} => mig'[o].step = "delete"
                      /\ mig'[o].step = "create" => mig'[o].done = 0
    BY DEF MovesAreWhole, Idle
  <2>1. CASE o = m
    BY <1>3, <1>4, <2>1
  <2>2. CASE o # m
    BY <1>4, <2>2 DEF MovesAreWhole
  <2> QED BY <2>1, <2>2
<1>10. RowsAreKnown'
  BY <1>1, <1>4, <1>6 DEF RowsAreKnown, I
<1>11. SchemaHoldsRows'
  BY <1>1, <1>4, <1>5, <1>6 DEF SchemaHoldsRows, Upgrades
<1>12. ItemsHaveQueues'
  <2> SUFFICES ASSUME NEW i \in Items, public'[i] # 0 PROVE public'[queueOf'[i]] # 0
    BY DEF ItemsHaveQueues
  <2>1. i \in Rows /\ queueOf[i] \in Rows /\ queueOf'[i] = queueOf[i]
    BY <1>1, Kinds DEF TypeOK
  <2>2. CASE i \in I
    BY <1>2, <1>6, <2>1, <2>2 DEF CopiesAreApart, I
  <2>3. CASE i \notin I
    BY <1>6, <2>1, <2>3 DEF ItemsHaveQueues
  <2> QED BY <2>2, <2>3
<1>13. CopiesAreApart'
  <2>1. ASSUME NEW p \in Migrators, NEW o \in Others(p) PROVE (Inserted(p) \cap Inserted(o))' = {}
    <3>1. Inserted(p) \cap Inserted(o) = {} /\ o \in Migrators
      BY DEF CopiesAreApart, Others
    <3> QED BY <1>4, <3>1
  <2>2. ASSUME NEW p \in Upgrades', NEW r \in Inserted(p)' PROVE tenant'[r] = 0
    BY <1>6 DEF Inserted
  <2>3. ASSUME NEW p \in Downgrades', NEW r \in Inserted(p)' PROVE public'[r] = 0
    <3>1. p \in Others(m) /\ p \in Downgrades /\ r \in Inserted(p) /\ r \in Rows
      BY <1>4, <1>5, <2>3 DEF Downgrades, Inserted
    <3>2. r \notin I /\ public[r] = 0
      BY <1>2, <3>1 DEF CopiesAreApart, I
    <3> QED BY <1>6, <3>1, <3>2
  <2>4. ASSUME NEW p \in Downgrades', NEW i \in Inserted(p)' \cap Items PROVE queueOf'[i] \in Inserted(p)'
    BY <1>1, <1>4, <1>5, <2>4 DEF CopiesAreApart, Downgrades
  <2> QED BY <2>1, <2>2, <2>3, <2>4 DEF CopiesAreApart, Others
<1>14. DeletesAreLocked'
  <2>1. mig'[m].deletes = {} /\ mig'[m].step # "delete"
    BY <1>3, <1>4
  <2>2. ASSUME NEW p \in Migrators, NEW o \in Others(p) PROVE mig'[p].deletes \cap mig'[o].deletes = {}
    <3>1. mig[p].deletes \cap mig[o].deletes = {} /\ o \in Migrators
      BY DEF DeletesAreLocked, Others
    <3> QED BY <1>4, <2>1, <3>1
  <2>3. ASSUME NEW p \in Migrators, NEW r \in mig'[p].deletes PROVE public'[r] # 0
    <3>1. p \in Others(m) /\ r \in mig[p].deletes /\ p \in Migrators
      BY <1>4, <2>1, <2>3
    <3>2. public[r] # 0 /\ r \in Rows
      BY <3>1, MoveType DEF DeletesAreLocked, Move
    <3> QED BY <1>6, <3>2
  <2>4. ASSUME NEW p \in Migrators, NEW i \in Items, public'[i] # 0, queueOf'[i] \in mig'[p].deletes
        PROVE  i \in mig'[p].deletes
    <3>1. p \in Others(m) /\ queueOf[i] \in mig[p].deletes
      BY <1>1, <1>4, <2>1, <2>4
    <3>2. public[queueOf[i]] # 0
      BY <3>1 DEF DeletesAreLocked
    <3>3. i \notin I
      BY <1>2, <1>7, <3>2 DEF CopiesAreApart, I
    <3>4. public[i] # 0
      BY <1>6, <2>4, <3>3, Kinds
    <3> QED BY <1>4, <3>1, <3>4 DEF DeletesAreLocked
  <2>5. ASSUME NEW p \in Migrators, mig'[p].step = "delete", NEW j \in 1 .. mig'[p].done,
               NEW r \in Deleted[j] \cap Inserted(p)'
        PROVE  public'[r] = 0 \/ r \in mig'[p].deletes
    <3>1. p \in Others(m) /\ mig'[p] = mig[p] /\ r \in Inserted(p) /\ r \in Rows
      BY <1>4, <2>1, <2>5 DEF Inserted
    <3>2. public[r] = 0 \/ r \in mig[p].deletes
      BY <2>5, <3>1 DEF DeletesAreLocked
    <3>3. r \notin I
      BY <3>1 DEF CopiesAreApart, I
    <3> QED BY <1>6, <3>1, <3>2, <3>3
  <2> QED BY <2>2, <2>3, <2>4, <2>5 DEF DeletesAreLocked, Others
<1>15. NeverInBoth'
  BY <1>6 DEF NeverInBoth
<1> QED BY <1>8, <1>9, <1>10, <1>11, <1>12, <1>13, <1>14, <1>15

LEMMA DropKeepsTheRest == ASSUME IInv, NEW m \in Migrators, Drop(m) PROVE Quiet' /\ Marks'
<1> USE Parts DEF Places
<1> DEFINE w == [Idle EXCEPT !.op = "downgrade", !.step = "clear"]
           I == Inserted(m)
<1>1. /\ mig[m].step = "copy" /\ mig[m].op = "downgrade" /\ mig[m].done = 3 /\ exists' = FALSE
      /\ Goes(m, w) /\ public' = WithCopies(public, m) /\ tenant' = [r \in Rows |-> 0]
      /\ UNCHANGED <<pointer, tier, queueOf, req, begun, latest, raced, mishaps>>
  BY Tables DEF Drop, CopyDone, Goes
<1>2. mig[m] \in Move /\ m \in Downgrades
  BY <1>1, MoveType DEF Downgrades
<1>3. w \in Move /\ EmptyHanded(w) /\ w.op = "downgrade" /\ w.step = "clear"
  BY IdleIsMove DEF EmptyHanded, Idle
<1> HIDE DEF w
<1>4. /\ mig'[m] = w /\ \A o \in Others(m) : mig'[o] = mig[o]
      /\ Inserted(m)' = {} /\ \A o \in Others(m) : Inserted(o)' = Inserted(o)
      /\ \A o \in Migrators : o # m => o \in Others(m)
  BY <1>1, <1>3, OneGoes, EmptyInserts
<1>5. Upgrades' = Upgrades /\ Downgrades' = Downgrades
  BY <1>1, <1>3, <1>4 DEF Upgrades, Downgrades
<1>6. \A r \in Rows : /\ public'[r] = IF r \in I THEN mig[m].copies[r] ELSE public[r]
                      /\ tenant'[r] = 0
  BY <1>1 DEF WithCopies
<1>7. From(m) = tenant /\ \A k \in 1 .. 3 : HasCopied(m, k)
  BY <1>1 DEF From, HasCopied
<1>8. "crossed" \notin mishaps => Upgrades = {}
  BY <1>2 DEF Marks, MovesKnowWhere
<1>9. Marks'
  <2>1. MovesKnowWhere'
    BY <1>1, <1>3, <1>4, <1>5, <1>8 DEF Marks, MovesKnowWhere, Downgrades
  <2>2. PointerHasSchema'
    BY <1>3, <1>4 DEF PointerHasSchema
  <2>3. \A o \in Migrators : mig[o].step = "tier" => mig'[o] = mig[o]
    BY <1>1, <1>4
  <2>4. TierFollows'
    BY <1>1, <2>3 DEF Marks, TierFollows
  <2> QED BY <2>1, <2>2, <2>4 DEF Marks
<1>10. SUFFICES ASSUME "crossed" \notin mishaps PROVE Quiet'
  BY <1>1, <1>9 DEF Quiet, QuietRowsAreServed, QuietRowsAreCopied, QuietItemsHaveQueues
<1>11. Resolve(pointer)' = "public"
  BY <1>1 DEF Resolve
<1>12. ASSUME NEW r \in Rows \ raced PROVE public'[r] = Last(r)
  BY <1>6, <1>7, <1>10, WholeCopies, ServedAt
<1>13. QuietRowsAreServed'
  BY <1>1, <1>11, <1>12 DEF QuietRowsAreServed, TableAt, Last
<1>14. \A o \in Others(m), r \in Rows \ raced : r \notin Inserted(o)
  <2> SUFFICES ASSUME NEW o \in Others(m), NEW r \in Rows \ raced, r \in Inserted(o) PROVE FALSE
    OBVIOUS
  <2>1. o \in Migrators /\ mig[o].op # "upgrade"
    BY <1>8, <1>10 DEF Others, Upgrades
  <2>2. tenant[r] # 0
    BY <1>10, <2>1 DEF Quiet, QuietRowsAreCopied, From, Inserted
  <2>3. r \in Inserted(m)
    BY <1>7, <1>10, <2>2, WholeCopies
  <2> QED BY <2>3 DEF CopiesAreApart
<1>15. QuietRowsAreCopied'
  <2> SUFFICES ASSUME NEW r \in Rows \ raced
               PROVE  /\ tenant'[r] = 0
                      /\ \A o \in Migrators : r \notin Inserted(o)' /\ From(o)'[r] = 0
    BY <1>1, <1>11 DEF QuietRowsAreCopied
  <2>1. \A o \in Migrators : r \notin Inserted(o)'
    BY <1>4, <1>14
  <2>2. \A o \in Migrators : From(o)' = tenant'
    BY <1>5, <1>8, <1>10 DEF Upgrades, From
  <2> QED BY <1>6, <2>1, <2>2
<1>16. QuietItemsHaveQueues'
  BY <1>5, <1>6, <1>8, <1>10, Kinds DEF QuietItemsHaveQueues
<1> QED BY <1>13, <1>15, <1>16 DEF Quiet

-----------------------------------------------------------------------------
(* Requests.                                                               *)

\* What the writes of the handlers have in common: a row is given a version
\* when it is new or there; an item's queue is chosen when it is new, and is
\* there; with a queue go its items.
Lawful(q, rows, version) ==
    /\ queueOf' \in [Items -> Queues]
    /\ \A i \in Items : queueOf'[i] = queueOf[i] \/ (i \in rows /\ latest[i] = 0)
    /\ version # 0 => \A r \in rows : latest[r] = 0 \/ TableAt(req[q])[r] # 0
    /\ version # 0 => \A i \in rows \cap Items : TableAt(req[q])[queueOf'[i]] # 0
    /\ version # 0 => \A i \in rows \cap Items : latest[i] = 0 => Free(q, {queueOf'[i]})
    /\ version = 0 => \A i \in Items : TableAt(req[q])[i] # 0 /\ queueOf[i] \in rows => i \in rows

LEMMA WriteKeepsPlaces ==
    ASSUME IInv, NEW q \in Requests, NEW rows \in SUBSET Rows, NEW version \in 0 .. MaxVersion,
           Write(q, rows, version), Lawful(q, rows, version)
    PROVE  Places'
<1> USE Parts DEF Places
<1>1. /\ Free(q, rows) /\ UNCHANGED <<exists, pointer, tier, mig, begun, mishaps>>
      /\ req' = [req EXCEPT ![q] = "idle"]
  BY DEF Write
<1>2. /\ Resolve(req[q]) = "tenant" =>
           /\ tenant' = [r \in Rows |-> IF r \in rows THEN version ELSE tenant[r]]
           /\ public' = public /\ TableAt(req[q]) = tenant /\ exists
      /\ Resolve(req[q]) # "tenant" =>
           /\ public' = [r \in Rows |-> IF r \in rows THEN version ELSE public[r]]
           /\ tenant' = tenant /\ TableAt(req[q]) = public /\ Resolve(req[q]) = "public"
  BY DEF Write, TableAt, Resolve
<1>3. latest' = [r \in Rows |-> IF r \in rows THEN (IF version = 0 THEN Gone ELSE version) ELSE latest[r]]
      /\ (raced' = raced \/ raced' = raced \cup rows)
  BY DEF Write
<1>4. /\ \A m \in Migrators : Inserted(m)' = Inserted(m)
      /\ Upgrades' = Upgrades /\ Downgrades' = Downgrades
  BY <1>1 DEF Inserted, Upgrades, Downgrades
<1>5. \A r \in Rows : /\ tenant'[r] # tenant[r] => r \in rows /\ tenant'[r] = version /\ Resolve(req[q]) = "tenant"
                      /\ public'[r] # public[r] => r \in rows /\ public'[r] = version /\ Resolve(req[q]) = "public"
  BY <1>2
<1>6. TypeOK'
  <2>1. public' \in [Rows -> 0 .. MaxVersion] /\ tenant' \in [Rows -> 0 .. MaxVersion]
    BY <1>2 DEF TypeOK
  <2>2. latest' \in [Rows -> Gone .. MaxVersion]
    <3>1. (IF version = 0 THEN Gone ELSE version) \in Gone .. MaxVersion
      BY TenantConstants DEF Gone
    <3> QED BY <1>3, <3>1 DEF TypeOK
  <2>3. req' \in [Requests -> {"idle", "tenant", "none"}] /\ raced' \subseteq Rows
    BY <1>1, <1>3 DEF TypeOK
  <2> QED BY <1>1, <2>1, <2>2, <2>3 DEF TypeOK, Lawful
<1>7. MovesAreWhole'
  BY <1>1, <1>4 DEF MovesAreWhole, Idle
<1>8. \A r \in Rows : latest'[r] = 0 => r \notin rows /\ latest[r] = 0
  BY <1>3 DEF Gone
<1>9. RowsAreKnown'
  BY <1>4, <1>5, <1>8 DEF RowsAreKnown
<1>10. SchemaHoldsRows'
  <2>1. \A m \in Upgrades : m \in Migrators
    BY DEF Upgrades
  <2>2. ~exists => tenant' = tenant
    BY <1>2
  <2> QED BY <1>1, <1>4, <2>1, <2>2 DEF SchemaHoldsRows
<1>11. \A i \in Items : /\ i \in Rows /\ queueOf[i] \in Rows /\ queueOf'[i] \in Rows
                        /\ latest[i] # 0 => queueOf'[i] = queueOf[i]
  BY Kinds DEF TypeOK, Lawful
<1>12. ItemsHaveQueues'
  <2> SUFFICES ASSUME NEW i \in Items, public'[i] # 0 PROVE public'[queueOf'[i]] # 0
    BY DEF ItemsHaveQueues
  <2>1. CASE Resolve(req[q]) = "tenant"
    <3>1. public[i] # 0 /\ public' = public
      BY <1>2, <2>1
    <3>2. queueOf'[i] = queueOf[i]
      BY <1>11, <3>1 DEF RowsAreKnown
    <3> QED BY <3>1, <3>2 DEF ItemsHaveQueues
  <2>2. CASE Resolve(req[q]) # "tenant" /\ i \in rows
    <3>1. version # 0
      BY <1>2, <1>11, <2>2
    <3>2. public[queueOf'[i]] # 0
      BY <1>2, <2>2, <3>1 DEF Lawful
    <3> QED BY <1>2, <1>11, <2>2, <3>1, <3>2
  <2>3. CASE Resolve(req[q]) # "tenant" /\ i \notin rows
    <3>1. public[i] # 0 /\ queueOf'[i] = queueOf[i]
      BY <1>2, <1>11, <2>3 DEF Lawful
    <3>2. public[queueOf[i]] # 0
      BY <3>1 DEF ItemsHaveQueues
    <3>3. version = 0 => queueOf[i] \notin rows
      BY <1>2, <2>3, <3>1 DEF Lawful
    <3> QED BY <1>2, <1>11, <2>3, <3>1, <3>2, <3>3
  <2> QED BY <2>1, <2>2, <2>3
<1>13. CopiesAreApart'
  <2>1. \A p \in Migrators : \A o \in Others(p) : (Inserted(p) \cap Inserted(o))' = {}
    BY <1>4 DEF CopiesAreApart, Others
  <2>2. ASSUME NEW p \in Upgrades', NEW r \in Inserted(p)' PROVE tenant'[r] = 0
    <3>1. p \in Upgrades /\ p \in Migrators /\ r \in Inserted(p) /\ r \in Rows
      BY <1>4 DEF Upgrades, Inserted
    <3>2. tenant[r] = 0 /\ latest[r] # 0
      BY <3>1 DEF CopiesAreApart, RowsAreKnown
    <3> QED BY <1>2, <1>5, <3>1, <3>2 DEF Lawful
  <2>3. ASSUME NEW p \in Downgrades', NEW r \in Inserted(p)' PROVE public'[r] = 0
    <3>1. p \in Downgrades /\ p \in Migrators /\ r \in Inserted(p) /\ r \in Rows
      BY <1>4 DEF Downgrades, Inserted
    <3>2. public[r] = 0 /\ latest[r] # 0
      BY <3>1 DEF CopiesAreApart, RowsAreKnown
    <3> QED BY <1>2, <1>5, <3>1, <3>2 DEF Lawful
  <2>4. ASSUME NEW p \in Downgrades', NEW i \in Inserted(p)' \cap Items PROVE queueOf'[i] \in Inserted(p)'
    <3>1. p \in Downgrades /\ p \in Migrators /\ i \in Inserted(p) /\ i \in Rows
      BY <1>4 DEF Downgrades, Inserted
    <3>2. latest[i] # 0 /\ queueOf[i] \in Inserted(p)
      BY <3>1 DEF CopiesAreApart, RowsAreKnown
    <3> QED BY <1>4, <1>11, <3>1, <3>2
  <2> QED BY <2>1, <2>2, <2>3, <2>4 DEF CopiesAreApart, Others
<1>14. DeletesAreLocked'
  <2>1. ASSUME NEW p \in Migrators PROVE Resolve(req[q]) = "public" => rows \cap mig[p].deletes = {}
    BY <1>1 DEF Free
  <2>2. ASSUME NEW p \in Migrators, NEW r \in mig'[p].deletes PROVE public'[r] # 0
    <3>1. r \in Rows /\ r \in mig[p].deletes /\ public[r] # 0
      BY <1>1, MoveType DEF Move, DeletesAreLocked
    <3> QED BY <1>5, <2>1, <3>1
  <2>3. ASSUME NEW p \in Migrators, NEW i \in Items, public'[i] # 0, queueOf'[i] \in mig'[p].deletes
        PROVE  i \in mig'[p].deletes
    <3>1. queueOf'[i] \in mig[p].deletes /\ i \in Rows
      BY <1>1, <1>11, <2>3
    <3>2. CASE public[i] # 0
      <4>1. queueOf'[i] = queueOf[i]
        BY <1>11, <3>1, <3>2 DEF RowsAreKnown
      <4> QED BY <1>1, <3>1, <3>2, <4>1 DEF DeletesAreLocked
    <3>3. CASE public[i] = 0
      <4>1. i \in rows /\ version # 0 /\ Resolve(req[q]) = "public" /\ TableAt(req[q]) = public
        BY <1>2, <1>5, <2>3, <3>1, <3>3
      <4>2. latest[i] = 0
        BY <3>3, <4>1 DEF Lawful
      <4>3. Free(q, {queueOf'[i]})
        BY <4>1, <4>2 DEF Lawful
      <4> QED BY <3>1, <4>1, <4>3 DEF Free
    <3> QED BY <3>2, <3>3
  <2>4. ASSUME NEW p \in Migrators, mig'[p].step = "delete", NEW j \in 1 .. mig'[p].done,
               NEW r \in Deleted[j] \cap Inserted(p)'
        PROVE  public'[r] = 0 \/ r \in mig'[p].deletes
    <3>1. r \in Inserted(p) /\ r \in Rows
      BY <1>4 DEF Inserted
    <3>2. public[r] = 0 \/ r \in mig[p].deletes
      BY <1>1, <2>4, <3>1 DEF DeletesAreLocked
    <3>3. latest[r] # 0
      BY <3>1 DEF RowsAreKnown
    <3> QED BY <1>1, <1>2, <1>5, <3>1, <3>2, <3>3 DEF Lawful
  <2>5. \A p \in Migrators : \A o \in Others(p) : mig'[p].deletes \cap mig'[o].deletes = {}
    BY <1>1 DEF DeletesAreLocked
  <2> QED BY <2>2, <2>3, <2>4, <2>5 DEF DeletesAreLocked, Others
<1>15. NeverInBoth'
  <2> SUFFICES ASSUME NEW r \in Rows PROVE public'[r] = 0 \/ tenant'[r] = 0
    BY DEF NeverInBoth
  <2>1. public[r] = 0 \/ tenant[r] = 0
    BY DEF NeverInBoth
  <2>2. CASE r \notin rows
    BY <1>5, <2>1, <2>2
  <2>3. CASE r \in rows /\ version = 0
    BY <1>5, <2>1, <2>3
  <2>4. CASE r \in rows /\ version # 0
    <3>1. \/ public[r] = 0 /\ tenant[r] = 0
          \/ TableAt(req[q])[r] # 0
      BY <2>4 DEF Lawful, RowsAreKnown
    <3> QED BY <1>2, <1>5, <2>1, <3>1
  <2> QED BY <2>2, <2>3, <2>4
<1> QED BY <1>6, <1>7, <1>9, <1>10, <1>12, <1>13, <1>14, <1>15

LEMMA WriteKeeps ==
    ASSUME IInv, NEW q \in Requests, NEW rows \in SUBSET Rows, NEW version \in 0 .. MaxVersion,
           Write(q, rows, version), Lawful(q, rows, version)
    PROVE  IInv'
<1> USE Parts DEF Places
<1>1. /\ UNCHANGED <<exists, pointer, tier, mig, begun, mishaps>>
      /\ raced' = IF Busy \/ Resolve(req[q]) # Resolve(pointer) THEN raced \cup rows ELSE raced
  BY DEF Write
<1>2. /\ Resolve(req[q]) = "tenant" =>
           /\ tenant' = [r \in Rows |-> IF r \in rows THEN version ELSE tenant[r]]
           /\ public' = public /\ TableAt(req[q]) = tenant
      /\ Resolve(req[q]) # "tenant" =>
           /\ public' = [r \in Rows |-> IF r \in rows THEN version ELSE public[r]]
           /\ tenant' = tenant /\ TableAt(req[q]) = public /\ Resolve(req[q]) = "public"
  BY DEF Write, TableAt, Resolve
<1>3. latest' = [r \in Rows |-> IF r \in rows THEN (IF version = 0 THEN Gone ELSE version) ELSE latest[r]]
  BY DEF Write
<1>4. /\ \A m \in Migrators : Inserted(m)' = Inserted(m) /\ \A k \in 1 .. 3 : HasCopied(m, k)' = HasCopied(m, k)
      /\ Upgrades' = Upgrades /\ Resolve(pointer)' = Resolve(pointer)
  BY <1>1 DEF Inserted, Upgrades, HasCopied, Resolve
<1>5. \A r \in Rows \ rows : tenant'[r] = tenant[r] /\ public'[r] = public[r] /\ latest'[r] = latest[r]
  BY <1>2, <1>3
<1>6. ASSUME NEW r \in Rows \ raced'
      PROVE  /\ r \in Rows \ raced
             /\ r \in rows => ~Busy /\ Resolve(req[q]) = Resolve(pointer)
  BY <1>1
<1>7. ~Busy => \A m \in Migrators : mig[m] = Idle /\ Inserted(m) = {} /\ m \notin Upgrades
                                    /\ \A k \in 1 .. 3 : ~HasCopied(m, k)
  <2> SUFFICES ASSUME ~Busy, NEW m \in Migrators
               PROVE  mig[m] = Idle /\ Inserted(m) = {} /\ m \notin Upgrades
                      /\ \A k \in 1 .. 3 : ~HasCopied(m, k)
    OBVIOUS
  <2>1. mig[m] = Idle
    BY DEF Busy, MovesAreWhole
  <2>2. mig[m].step = "idle" /\ mig[m].op = "none" /\ mig[m].copies = [r \in Rows |-> 0]
    BY <2>1 DEF Idle
  <2> QED BY <2>1, <2>2 DEF Inserted, Upgrades, HasCopied
<1>8. Marks'
  BY <1>1, MarksStay
<1>9. Places'
  BY WriteKeepsPlaces
<1> SUFFICES ASSUME "crossed" \notin mishaps PROVE Quiet'
  BY <1>1, <1>8, <1>9, PartsPrime DEF Quiet, QuietRowsAreServed, QuietRowsAreCopied, QuietItemsHaveQueues
<1>10. QuietRowsAreServed'
  <2> SUFFICES ASSUME NEW r \in Rows \ raced'
               PROVE  TableAt(pointer)'[r] = IF latest'[r] = Gone THEN 0 ELSE latest'[r]
    BY DEF QuietRowsAreServed
  <2>1. TableAt(pointer)' = IF Resolve(pointer) = "tenant" THEN tenant' ELSE public'
    BY <1>4 DEF TableAt
  <2>2. CASE r \in rows
    <3>1. TableAt(pointer)'[r] = version
      BY <1>2, <1>6, <2>1, <2>2
    <3>2. latest'[r] = IF version = 0 THEN Gone ELSE version
      BY <1>3, <2>2
    <3> QED BY <3>1, <3>2 DEF Gone
  <2>3. CASE r \notin rows
    <3>1. TableAt(pointer)[r] = Last(r)
      BY <1>6 DEF Quiet, QuietRowsAreServed, Last
    <3> QED BY <1>5, <2>1, <2>3, <3>1 DEF TableAt, Last
  <2> QED BY <2>2, <2>3
<1>11. QuietRowsAreCopied'
  <2> SUFFICES ASSUME NEW r \in Rows \ raced'
               PROVE  /\ IF Resolve(pointer)' = "tenant" THEN public'[r] = 0 ELSE tenant'[r] = 0
                      /\ \A o \in Migrators :
                          /\ r \in Inserted(o)' => mig'[o].copies[r] = From(o)'[r]
                          /\ \A j \in 1 .. Len(Copied) :
                              HasCopied(o, j)' /\ r \in Copied[j] /\ From(o)'[r] # 0 => r \in Inserted(o)'
    BY <1>1 DEF QuietRowsAreCopied
  <2>1. IF Resolve(pointer) = "tenant" THEN public[r] = 0 ELSE tenant[r] = 0
    BY <1>6 DEF Quiet, QuietRowsAreCopied
  <2>2. IF Resolve(pointer)' = "tenant" THEN public'[r] = 0 ELSE tenant'[r] = 0
    BY <1>2, <1>4, <1>5, <1>6, <2>1
  <2>3. CASE r \in rows
    BY <1>4, <1>6, <1>7, <2>2, <2>3, Tables
  <2>4. CASE r \notin rows
    <3>1. ASSUME NEW o \in Migrators
          PROVE  /\ r \in Inserted(o) => mig[o].copies[r] = From(o)[r]
                 /\ \A j \in 1 .. 3 : HasCopied(o, j) /\ r \in Copied[j] /\ From(o)[r] # 0 => r \in Inserted(o)
      BY <1>6, Tables DEF Quiet, QuietRowsAreCopied
    <3>2. \A o \in Migrators : From(o)'[r] = From(o)[r]
      BY <1>1, <1>5, <2>4 DEF From
    <3> QED BY <1>1, <1>4, <2>2, <3>1, <3>2, Tables
  <2> QED BY <2>3, <2>4
<1>12. QuietItemsHaveQueues'
  <2> SUFFICES ASSUME NEW i \in Items \ raced'
               PROVE  /\ tenant'[i] # 0 => tenant'[queueOf'[i]] # 0
                      /\ \A m \in Upgrades' :
                          HasCopied(m, 2)' /\ public'[i] # 0 => queueOf'[i] \in Inserted(m)'
    BY DEF QuietItemsHaveQueues
  <2>1. i \in Rows \ raced' /\ queueOf[i] \in Rows /\ queueOf'[i] \in Rows
    BY Kinds DEF TypeOK, Lawful
  <2>2. CASE i \in rows
    <3>1. ~Busy /\ Resolve(req[q]) = Resolve(pointer)
      BY <1>6, <2>1, <2>2
    <3>2. Upgrades' = {}
      BY <1>4, <1>7, <3>1 DEF Upgrades
    <3>3. CASE Resolve(pointer) = "tenant"
      BY <1>2, <2>1, <2>2, <3>1, <3>2, <3>3 DEF Lawful
    <3>4. CASE Resolve(pointer) # "tenant"
      BY <1>2, <1>6, <2>1, <3>1, <3>2, <3>4, ServedAt
    <3> QED BY <3>3, <3>4
  <2>3. CASE i \notin rows
    <3>1. /\ queueOf'[i] = queueOf[i] /\ tenant'[i] = tenant[i] /\ public'[i] = public[i]
          /\ i \in Items \ raced
      BY <1>5, <1>6, <2>1, <2>3 DEF Lawful
    <3>2. ASSUME NEW m \in Upgrades', HasCopied(m, 2)', public'[i] # 0 PROVE queueOf'[i] \in Inserted(m)'
      <4>1. m \in Upgrades /\ m \in Migrators /\ 2 \in 1 .. 3
        BY <1>4 DEF Upgrades
      <4> QED BY <1>4, <3>1, <3>2, <4>1 DEF Quiet, QuietItemsHaveQueues
    <3>3. ASSUME tenant'[i] # 0 PROVE tenant'[queueOf'[i]] # 0
      <4>1. tenant[i] # 0 /\ tenant[queueOf[i]] # 0
        BY <3>1, <3>3 DEF Quiet, QuietItemsHaveQueues
      <4>2. Resolve(req[q]) = "tenant" /\ version = 0 => queueOf[i] \notin rows
        BY <1>2, <2>3, <4>1 DEF Lawful
      <4> QED BY <1>2, <2>1, <3>1, <4>1, <4>2
    <3> QED BY <3>2, <3>3
  <2> QED BY <2>2, <2>3
<1> QED BY <1>10, <1>11, <1>12 DEF Quiet

LEMMA CreateKeeps == ASSUME IInv, NEW q \in Requests, NEW r \in Rows, Create(q, r) PROVE IInv'
<1>1. r \notin Items /\ latest[r] = 0 /\ Write(q, {r}, 1) /\ queueOf' = queueOf
  BY Kinds DEF Create
<1>2. Lawful(q, {r}, 1)
  BY <1>1 DEF Lawful, IInv, TypeOK
<1>3. 1 \in 0 .. MaxVersion /\ {r} \in SUBSET Rows
  BY TenantConstants
<1> QED BY <1>1, <1>2, <1>3, WriteKeeps

LEMMA JoinKeeps ==
    ASSUME IInv, NEW q \in Requests, NEW i \in Items, NEW k \in Queues, Join(q, i, k) PROVE IInv'
<1>1. /\ latest[i] = 0 /\ TableAt(req[q])[k] # 0 /\ Free(q, {k}) /\ Write(q, {i}, 1)
      /\ queueOf' = [queueOf EXCEPT ![i] = k]
  BY DEF Join
<1>2. Lawful(q, {i}, 1)
  <2>1. queueOf' \in [Items -> Queues] /\ queueOf'[i] = k
        /\ \A j \in Items : queueOf'[j] = queueOf[j] \/ (j \in {i} /\ latest[j] = 0)
    BY <1>1 DEF IInv, TypeOK
  <2> QED BY <1>1, <2>1 DEF Lawful
<1>3. 1 \in 0 .. MaxVersion /\ {i} \in SUBSET Rows
  BY TenantConstants, Kinds
<1> QED BY <1>1, <1>2, <1>3, WriteKeeps

LEMMA ChangeKeeps == ASSUME IInv, NEW q \in Requests, NEW r \in Rows, Change(q, r) PROVE IInv'
<1> DEFINE v == TableAt(req[q])[r] + 1
<1>1. /\ TableAt(req[q])[r] \in 1 .. MaxVersion - 1
      /\ r \in Services \/ req[q] = Unrouted
      /\ Write(q, {r}, v) /\ queueOf' = queueOf
  BY DEF Change
<1>2. v \in 0 .. MaxVersion /\ v # 0 /\ TableAt(req[q])[r] # 0
  <2>1. \A n \in 1 .. MaxVersion - 1 : n + 1 \in 0 .. MaxVersion /\ n + 1 # 0 /\ n # 0
    BY TenantConstants
  <2> QED BY <1>1, <2>1
<1> HIDE DEF v
<1>3. ASSUME r \in Items PROVE latest[r] # 0 /\ TableAt(req[q])[queueOf[r]] # 0
  <2>1. req[q] = "none" /\ TableAt(req[q]) = public
    BY <1>1, <1>3, Kinds DEF Unrouted, TableAt, Resolve
  <2> QED BY <1>2, <1>3, <2>1 DEF IInv, ItemsHaveQueues, RowsAreKnown
<1>4. Lawful(q, {r}, v)
  BY <1>1, <1>2, <1>3 DEF Lawful, IInv, TypeOK
<1> QED BY <1>1, <1>2, <1>4, WriteKeeps

LEMMA RemoveKeeps == ASSUME IInv, NEW q \in Requests, NEW r \in Rows, Remove(q, r) PROVE IInv'
<1> DEFINE rows == {r} \cup {i \in Items : TableAt(req[q])[i] # 0 /\ queueOf[i] = r}
<1>1. r \in Services \/ req[q] = Unrouted
  BY DEF Remove
<1>2. Write(q, rows, 0) /\ queueOf' = queueOf
  BY DEF Remove
<1>3. \A i \in Items : queueOf[i] \in rows => queueOf[i] = r
  BY Kinds DEF IInv, TypeOK
<1>4. \A i \in Items : TableAt(req[q])[i] # 0 /\ queueOf[i] \in rows => i \in rows
  BY <1>3
<1>5. rows \in SUBSET Rows /\ 0 \in 0 .. MaxVersion
  BY Kinds, TenantConstants
<1> HIDE DEF rows
<1>6. Lawful(q, rows, 0)
  BY <1>2, <1>4 DEF Lawful, IInv, TypeOK
<1> QED BY <1>2, <1>5, <1>6, WriteKeeps

\* A request that begins, or ends without a write, changes its path alone.
LEMMA PathsKeep ==
    ASSUME IInv, UNCHANGED <<tables, mig, begun, latest, raced, mishaps>>,
           req' \in [Requests -> {"idle", "tenant", "none"}]
    PROVE  IInv'
<1> USE Parts DEF Places, Quiet
<1>1. /\ UNCHANGED <<public, tenant, exists, pointer, tier, queueOf, mig, begun, latest, raced, mishaps>>
      /\ Upgrades' = Upgrades /\ Downgrades' = Downgrades
      /\ \A m \in Migrators : /\ Inserted(m)' = Inserted(m) /\ From(m)' = From(m)
                              /\ \A k \in 1 .. 3 : HasCopied(m, k)' = HasCopied(m, k)
  BY DEF tables, Upgrades, Downgrades, Inserted, From, HasCopied
<1>2. TypeOK' /\ MovesAreWhole'
  BY <1>1 DEF TypeOK, MovesAreWhole, Idle
<1>3. RowsAreKnown' /\ SchemaHoldsRows' /\ ItemsHaveQueues' /\ NeverInBoth'
  BY <1>1 DEF RowsAreKnown, SchemaHoldsRows, ItemsHaveQueues, NeverInBoth, Upgrades
<1>4. CopiesAreApart' /\ DeletesAreLocked'
  BY <1>1 DEF CopiesAreApart, DeletesAreLocked, Others, Upgrades, Downgrades
<1>5. QuietRowsAreServed'
  BY <1>1 DEF QuietRowsAreServed, TableAt, Resolve
<1>6. QuietRowsAreCopied'
  BY <1>1, Tables DEF QuietRowsAreCopied, Resolve
<1>7. QuietItemsHaveQueues'
  BY <1>1 DEF QuietItemsHaveQueues, Upgrades
<1>8. Marks'
  BY <1>1, MarksStay
<1> QED BY <1>2, <1>3, <1>4, <1>5, <1>6, <1>7, <1>8, PartsPrime

-----------------------------------------------------------------------------
(* The theorems.                                                           *)

LEMMA InitHolds == Init => IInv
<1> SUFFICES ASSUME Init PROVE IInv
  OBVIOUS
<1> USE DEF Init
<1>1. /\ \A r \in Rows : public[r] = 0 /\ tenant[r] = 0 /\ latest[r] = 0
      /\ \A m \in Migrators : mig[m] = Idle /\ Inserted(m) = {} /\ mig[m].step = "idle"
                              /\ mig[m].op = "none" /\ mig[m].deletes = {}
                              /\ \A k \in 1 .. 3 : ~HasCopied(m, k)
  BY DEF Idle, Inserted, HasCopied
<1>2. TypeOK
  <2>1. queueOf \in [Items -> Queues]
    BY TenantConstants
  <2>2. mig \in [Migrators -> Move]
    BY IdleIsMove
  <2>3. 0 \in 0 .. MaxVersion /\ 0 \in Gone .. MaxVersion /\ 0 \in 0 .. MaxMigrations
    BY TenantConstants DEF Gone
  <2> QED BY <2>1, <2>2, <2>3 DEF TypeOK, Move
<1>3. Upgrades = {} /\ Downgrades = {} /\ Resolve(pointer) = "public" /\ TableAt(pointer) = public
  BY <1>1 DEF Upgrades, Downgrades, Resolve, TableAt
<1>4. MovesAreWhole /\ RowsAreKnown /\ SchemaHoldsRows /\ NeverInBoth
  BY <1>1, <1>3 DEF MovesAreWhole, RowsAreKnown, SchemaHoldsRows, NeverInBoth
<1>5. ItemsHaveQueues
  BY <1>1, Kinds DEF ItemsHaveQueues
<1>6. CopiesAreApart /\ DeletesAreLocked
  BY <1>1, <1>3, Kinds DEF CopiesAreApart, DeletesAreLocked, Others
<1>7. MovesKnowWhere /\ PointerHasSchema /\ TierFollows
  BY <1>3 DEF MovesKnowWhere, PointerHasSchema, TierFollows
<1>8. QuietRowsAreServed /\ QuietRowsAreCopied /\ QuietItemsHaveQueues
  BY <1>1, <1>3, Kinds, Tables DEF QuietRowsAreServed, QuietRowsAreCopied, QuietItemsHaveQueues, Gone
<1> QED BY <1>2, <1>4, <1>5, <1>6, <1>7, <1>8 DEF IInv

LEMMA StepKeeps == IInv /\ [Next]_vars => IInv'
<1> SUFFICES ASSUME IInv, [Next]_vars PROVE IInv'
  OBVIOUS
<1>1. ASSUME NEW m \in Migrators, Migrate(m) PROVE IInv'
  <2>1. CASE Begin(m, "upgrade") \/ Begin(m, "downgrade")
    BY <2>1, BeginKeeps
  <2>2. CASE CreateSchema(m)
    BY <2>2, CreateSchemaKeeps
  <2>3. CASE Copy(m)
    BY <2>3, CopyKeeps
  <2>4. CASE Delete(m)
    BY <2>4, DeleteKeeps
  <2>5. CASE Point(m)
    BY <2>5, PointKeepsPlaces, PointKeepsTheRest, PartsPrime
  <2>6. CASE Drop(m)
    BY <2>6, DropKeepsPlaces, DropKeepsTheRest, PartsPrime
  <2>7. CASE Clear(m)
    BY <2>7, ClearKeeps
  <2>8. CASE SetTier(m)
    BY <2>8, SetTierKeeps
  <2>9. CASE MigrationFails(m)
    BY <2>9, MigrationFailsKeeps
  <2> QED BY <1>1, <2>1, <2>2, <2>3, <2>4, <2>5, <2>6, <2>7, <2>8, <2>9 DEF Migrate, Upgrade, Downgrade
<1>2. ASSUME NEW q \in Requests, Serve(q) PROVE IInv'
  <2>1. CASE StartRequest(q) \/ EndRequest(q)
    <3>1. req \in [Requests -> {"idle", "tenant", "none"}] /\ pointer \in {"tenant", "none"}
      BY DEF IInv, TypeOK
    <3>2. req' \in [Requests -> {"idle", "tenant", "none"}]
      BY <2>1, <3>1 DEF StartRequest, EndRequest, Routed, Unrouted
    <3>3. UNCHANGED <<tables, mig, begun, latest, raced, mishaps>>
      BY <2>1 DEF StartRequest, EndRequest
    <3> QED BY <3>2, <3>3, PathsKeep
  <2>2. ASSUME NEW r \in Rows, Create(q, r) \/ Change(q, r) \/ Remove(q, r) PROVE IInv'
    BY <2>2, CreateKeeps, ChangeKeeps, RemoveKeeps
  <2>3. ASSUME NEW i \in Items, NEW k \in Queues, Join(q, i, k) PROVE IInv'
    BY <2>3, JoinKeeps
  <2> QED BY <1>2, <2>1, <2>2, <2>3 DEF Serve
<1>3. CASE UNCHANGED vars
  <2>1. UNCHANGED <<tables, mig, begun, latest, raced, mishaps, req>>
    BY <1>3 DEF vars
  <2>2. req' \in [Requests -> {"idle", "tenant", "none"}]
    BY <2>1 DEF IInv, TypeOK
  <2> QED BY <2>1, <2>2, PathsKeep
<1> QED BY <1>1, <1>2, <1>3 DEF Next

\* However the statements of upgrades, downgrades and requests interleave and
\* wherever a move breaks off, the invariant of the open transactions holds
\* (migrate_to_premium, migrate_to_free, TenantMiddleware).
THEOREM Invariance == Spec => []IInv
BY InitHolds, StepKeeps, PTL DEF Spec

\* However moves overlap, cross, fail and race with requests, no row is in
\* the shared tables and in the shop's schema at once (_copy_table,
\* _delete_from_public, _copy_table_reverse, drop_tenant_schema).
THEOREM RowsAreInOnePlace == Spec => []NeverInBoth
<1>1. IInv => NeverInBoth
  BY DEF IInv
<1> QED BY <1>1, Invariance, PTL

\* Unless an upgrade and a downgrade cross, a row that nobody writes during a
\* move is found where the shop's pointer leads, with its last version
\* (migrate_to_premium, migrate_to_free, _on_session_begin).
THEOREM QuietRowsStayServed == Spec => []QuietRowsAreServed
<1>1. IInv => QuietRowsAreServed
  BY DEF IInv
<1> QED BY <1>1, Invariance, PTL

\* The pointer and the owner's tier say where the rows are, unless moves
\* crossed or were interrupted between their commits (upgrade_shop,
\* downgrade_shop).
THEOREM MarksStayTrue == Spec => []MarksAreTrue
<1>1. IInv => MarksAreTrue
  <2> SUFFICES ASSUME IInv PROVE MarksAreTrue
    OBVIOUS
  <2>1. ~Busy => \A m \in Migrators : mig[m].step # "tier"
    BY DEF Busy
  <2> QED BY <2>1 DEF IInv, MarksAreTrue, TierSaysWhere, TierFollows
<1> QED BY <1>1, Invariance, PTL
=============================================================================
