------------------------------- MODULE EntityRows -------------------------------
(***************************************************************************)
(* opentk-db::sync_writer, the rows: what write_sync_page makes of the     *)
(* parsed entities of a page, given the tables they are to be stored in.   *)
(* (SyncWriter has the transaction's locks and interleavings.)             *)
(*                                                                         *)
(* A database is a record of the registry sync_entity, by identity, and    *)
(* the rows of the entity tables, the relation tables and the tables of    *)
(* repeated scalars.                                                       *)
(***************************************************************************)
EXTENDS EntityPayload

NoRows == [registry |-> <<>>, entities |-> {}, relations |-> {}, scalars |-> {}]

IdentityOf(row) == <<row.source_category, row.source_id>>

(* bind_from_parsed_value: a value of this kind fits a column of this type.*)
Binds(sqlType, value) ==
  \/ sqlType \in {"text", "jsonb"} /\ value.as = "text"
  \/ sqlType = "uuid" /\ value.as = "text" /\ value.of \in Reads["uuid"]
  \/ sqlType = "boolean" /\ value.as = "bool"
  \/ sqlType = "integer" /\ value.as \in {"i32", "i64"} /\ value.of \in Reads["i32"]
  \/ sqlType = "bigint" /\ value.as \in {"i32", "i64"}
  \/ sqlType = "timestamptz" /\ value.as = "datetime"
  \/ sqlType = "date" /\ value.as = "date"

(* The columns that do not come from a field.                              *)
OwnColumn(entity, token, name) ==
  CASE name = "source_category" -> entity.category
    [] name = "source_id" -> entity.id
    [] name = "latest_skiptoken" -> token
    [] name = "deleted" -> FALSE
    [] name = "source_updated_at" -> entity.updated
    [] name = "content_type" -> entity.contentType
    [] name = "content_length" -> entity.contentLength
    [] name = "enclosure_url" -> entity.enclosure
    [] OTHER -> NoValue

(* atom_updated_at, the time of the page, is left out.                     *)
OwnColumns == {"source_category", "source_id", "latest_skiptoken", "deleted",
               "source_updated_at", "content_type", "content_length", "enclosure_url"}

(* The official fields: as identifiers they stay apart, from each other    *)
(* and from those columns, and none with a value of its own is a uuid.     *)
ASSUME FieldsAssumption ==
  \A e \in ToSet(EntityTypes) :
    /\ \A f, g \in ToSet(e.fields) : SqlName[f.name] = SqlName[g.name] => f = g
    /\ \A f \in ToSet(e.fields) :
         /\ f.kind \in {"attribute", "relation"} /\ f.min \in Nat
         /\ f.many \in BOOLEAN /\ f.nillable \in BOOLEAN
         /\ SqlName[f.name] \notin OwnColumns \cup {"atom_updated_at"}
         /\ f.kind = "attribute" => SqlType(f.type) # "uuid"
    /\ \A a \in OwnAttributes(e) : SqlName[a.name] \in OwnColumns

ScalarsNamed(entity, column) ==
  {s \in entity.scalars : SqlName[s.name] = column}

(* entity_column_values: every column of the table gets a value that fits. *)
StorableRow(table, entity) ==
  /\ "content_length" \in DOMAIN table.columns => Optional("i32", entity.contentLength)
  /\ \A n \in DOMAIN table.columns \ (OwnColumns \cup {"atom_updated_at"}) :
       /\ \A s \in ScalarsNamed(entity, n) : Binds(table.columns[n].type, s.value)
       /\ ScalarsNamed(entity, n) = {} => table.columns[n].nullable

EntityRow(table, entity, token) ==
  [n \in DOMAIN table.columns \ {"atom_updated_at"} |->
     IF n \in OwnColumns \/ ScalarsNamed(entity, n) = {} THEN OwnColumn(entity, token, n)
     ELSE (CHOOSE s \in ScalarsNamed(entity, n) : TRUE).value.of]

(* insert_relation_rows: a table takes the relations of its name.          *)
RelationRows(e, entity) ==
  UNION {LET table == RelationTable(e, f) IN
         {[table |-> table.name, source_category |-> entity.category,
           source_id |-> entity.id, relation_name |-> r.name,
           target_category |-> r.category, target_id |-> r.id, ordinal |-> r.ordinal] :
          r \in {x \in entity.relations : SqlName[x.name] = table.name[2]}} :
         f \in Relations(e)}

RepeatedScalars(e) == {f \in Attributes(e) : f.many}

(* insert_repeated_scalar_rows                                             *)
ScalarRows(e, entity) ==
  UNION {{[table |-> RepeatedScalarTable(e, f).name, source_category |-> entity.category,
           source_id |-> entity.id, ordinal |-> s.ordinal, value |-> s.value.of] :
          s \in {x \in entity.scalars : x.name = f.name}} :
         f \in RepeatedScalars(e)}

StorableScalars(e, entity) ==
  \A f \in RepeatedScalars(e) : \A s \in entity.scalars :
    s.name = f.name => Binds(RepeatedScalarTable(e, f).columns["value"].type, s.value)

(* The unique keys of the relation tables: no two rows agree on one.       *)
UniqueRows(e, rows) ==
  \A f \in Relations(e) :
    LET table == RelationTable(e, f)
        own == {r \in rows : r.table = table.name}
    IN \A unique \in table.uniques \cup {table.key} : \A r, s \in own :
         (\A i \in DOMAIN unique : r[unique[i]] = s[unique[i]]) => r = s

Storable(e, entity) ==
  entity.deleted \/
    /\ StorableRow(EntityTable(e), entity)
    /\ UniqueRows(e, RelationRows(e, entity))
    /\ StorableScalars(e, entity)

-------------------------------------------------------------------------------
IdOf(entity) == <<entity.category, entity.id>>

(* Mutant: what is gone is not registered.                                 *)
RegisteredUnlessDeleted(registry, entity, token) ==
  IF entity.deleted THEN registry
  ELSE [k \in {IdOf(entity)} |-> [token |-> token, deleted |-> FALSE]] ++ registry

(* upsert_sync_entity                                                      *)
Registered(registry, entity, token) ==
  [k \in {IdOf(entity)} |-> [token |-> token, deleted |-> entity.deleted]] ++ registry

(* upsert_relation_target, for each relation: a token never goes back, and *)
(* what is deleted stays so.                                               *)
Targeted(registry, relations, token) ==
  [k \in {IdOf(r) : r \in relations} |->
     IF k \notin DOMAIN registry THEN [token |-> token, deleted |-> FALSE]
     ELSE [token |-> IF registry[k].token < token THEN token ELSE registry[k].token,
           deleted |-> registry[k].deleted]] ++ registry

OfOthers(rows, entity) == {r \in rows : IdentityOf(r) # IdOf(entity)}

(* Mutant: the rows of the entity's parts are not deleted first.           *)
CurrentRowsDeletedKeepingParts(db, entity) ==
  [registry |-> db.registry, entities |-> OfOthers(db.entities, entity),
   relations |-> db.relations, scalars |-> db.scalars]

(* delete_current_rows, cascading to the parts.                            *)
CurrentRowsDeleted(db, entity) ==
  [registry |-> db.registry, entities |-> OfOthers(db.entities, entity),
   relations |-> OfOthers(db.relations, entity), scalars |-> OfOthers(db.scalars, entity)]

(* One turn of write_sync_page's loop.                                     *)
EntityWritten(db, e, entity, token) ==
  LET registered == Registered(db.registry, entity, token)
      left == CurrentRowsDeleted(db, entity)
  IN IF entity.deleted
     THEN [registry |-> registered, entities |-> left.entities,
           relations |-> left.relations, scalars |-> left.scalars]
     ELSE [registry |-> Targeted(registered, entity.relations, token),
           entities |-> left.entities \cup {EntityRow(EntityTable(e), entity, token)},
           relations |-> left.relations \cup RelationRows(e, entity),
           scalars |-> left.scalars \cup ScalarRows(e, entity)]

(* What is there after each of the entities.                               *)
Stages(db, e, entities, token) ==
  LET written[n \in 0 .. Len(entities)] ==
        IF n = 0 THEN db ELSE EntityWritten(written[n - 1], e, entities[n], token)
  IN written

PageWritten(db, e, entities, token) == Stages(db, e, entities, token)[Len(entities)]
=============================================================================
