------------------------------ MODULE EntitySchema ------------------------------
(***************************************************************************)
(* opentk-db::postgres_schema: the tables and indexes the binaries expect, *)
(* derived from the official entity types.  A table is a record of its     *)
(* columns (name to type and nullability), its key, its unique and foreign *)
(* keys and the names of its checks; its own name is the sequence of the   *)
(* parts that the code joins with "__".  Index names are made of table,    *)
(* purpose and columns, which stand for them here.                         *)
(***************************************************************************)
EXTENDS Naturals, Sequences, SequencesExt, TLC

CONSTANTS
  EntityTypes, \* official_schema::entity_types(), records of OfficialSchema
  SqlName      \* sql_name: official names to identifiers, all distinct

(* The generated slices.                                                   *)
ASSUME TypesAssumption ==
  /\ EntityTypes \in Seq(ToSet(EntityTypes))
  /\ \A e \in ToSet(EntityTypes) :
       /\ e.fields \in Seq(ToSet(e.fields))
       /\ e.attributes \in Seq(ToSet(e.attributes))

Relations(e) == {f \in ToSet(e.fields) : f.kind = "relation"}
Attributes(e) == {f \in ToSet(e.fields) : f.kind = "attribute"}

Identity == <<"source_category", "source_id">>
DocumentIdentity == <<"document_source_category", "document_source_id">>
Target == <<"target_category", "target_id">>

SqlType(xsdType) ==
  CASE xsdType \in {"idType", "referentieLiteral", "referentieType"} -> "uuid"
    [] xsdType \in {"xs:boolean", "booleanType"} -> "boolean"
    [] xsdType \in {"xs:int", "xs:unsignedInt", "intType"} -> "integer"
    [] xsdType = "xs:long" -> "bigint"
    [] xsdType = "xs:dateTime" -> "timestamptz"
    [] xsdType = "xs:date" -> "date"
    [] OTHER -> "text"

(* "identity" is a bigint with GENERATED BY DEFAULT AS IDENTITY.           *)
Column(type, nullable) == [type |-> type, nullable |-> nullable]

Columns(type, names) == [n \in names |-> Column(type, FALSE)]
NullableColumns(type, names) == [n \in names |-> Column(type, TRUE)]

Table(name, columns, key) ==
  [name |-> name, columns |-> columns, key |-> key, uniques |-> {},
   foreignKeys |-> <<>>, checks |-> {}]

Constrained(table, uniques, foreignKeys, checks) ==
  [name |-> table.name, columns |-> table.columns, key |-> table.key,
   uniques |-> uniques, foreignKeys |-> foreignKeys, checks |-> checks]

ForeignKey(columns, table, targets, onDelete) ==
  [columns |-> columns, table |-> table, targets |-> targets, onDelete |-> onDelete]

c ++ d == [n \in DOMAIN c \cup DOMAIN d |-> IF n \in DOMAIN c THEN c[n] ELSE d[n]]

MetadataColumns ==
  Columns("text", {"source_category"}) ++ Columns("uuid", {"source_id"})
  ++ Columns("bigint", {"latest_skiptoken"}) ++ Columns("boolean", {"deleted"})
  ++ Columns("timestamptz", {"source_updated_at", "atom_updated_at"})

SyncEntityTable == Table(<<"sync_entity">>, MetadataColumns, Identity)

SyncCategoryTable ==
  Table(<<"sync_category">>,
        Columns("text", {"source_category", "state"})
        ++ Columns("bigint", {"latest_skiptoken"})
        ++ NullableColumns("text", {"next_url", "resume_url"})
        ++ NullableColumns("timestamptz",
                           {"last_synced_at", "last_fetch_at", "caught_up_at"}),
        <<"source_category">>)

IngestErrorTable ==
  Table(<<"ingest_error">>,
        Columns("identity", {"id"}) ++ Columns("timestamptz", {"created_at"})
        ++ Columns("text", {"phase", "source_category", "message"})
        ++ NullableColumns("uuid", {"source_id"}) ++ NullableColumns("jsonb", {"payload"})
        ++ NullableColumns("bigint", {"latest_skiptoken"}),
        <<"id">>)

SearchIndexCursorTable ==
  Table(<<"search_index_cursor">>,
        Columns("text", {"index_name", "source_category", "state"})
        ++ Columns("bigint", {"latest_skiptoken"})
        ++ NullableColumns("timestamptz", {"last_indexed_at"})
        ++ NullableColumns("text", {"last_error"}),
        <<"index_name", "source_category">>)

SearchIndexFailureTable ==
  Constrained(
    Table(<<"search_index_failure">>,
          Columns("identity", {"id"}) ++ Columns("uuid", {"source_id"})
          ++ Columns("text", {"index_name", "source_category", "operation", "error"})
          ++ Columns("bigint", {"latest_skiptoken"}) ++ Columns("integer", {"attempt_count"})
          ++ Columns("timestamptz", {"next_retry_at", "created_at", "updated_at"}),
          <<"id">>),
    {<<"index_name", "source_category", "source_id", "latest_skiptoken", "operation">>},
    <<>>, {})

SearchReconcilerScratchTable ==
  Constrained(
    Table(<<"search_reconciler_scratch">>,
          Columns("text", {"index_name", "source_category", "operation", "document_id"})
          ++ Columns("uuid", {"source_id"}) ++ NullableColumns("jsonb", {"payload"})
          ++ Columns("bigint", {"latest_skiptoken", "payload_bytes"})
          ++ Columns("timestamptz", {"created_at"}),
          <<"index_name", "source_category", "document_id">>),
    {}, <<>>, {"search_reconciler_scratch_operation_check"})

-------------------------------------------------------------------------------
(* The tables of an entity type.                                           *)

(* The base attributes beside id, verwijderd and bijgewerkt.               *)
OwnAttributes(e) ==
  {a \in ToSet(e.attributes) : a.name \notin {"id", "verwijderd", "bijgewerkt"}}

(* Mutant: a column is null for what need not occur, nil or not.           *)
FieldColumnOfOccurs(f) == Column(SqlType(f.type), f.min = 0 /\ ~f.nillable)

FieldColumn(f) == Column(SqlType(f.type), f.min = 0 \/ f.nillable)

FieldColumns(fields) ==
  [n \in {SqlName[f.name] : f \in fields} |->
     FieldColumn(CHOOSE f \in fields : SqlName[f.name] = n)]

AttributeColumns(attributes) ==
  [n \in {SqlName[a.name] : a \in attributes} |->
     LET a == CHOOSE x \in attributes : SqlName[x.name] = n
     IN Column(SqlType(a.type), ~a.required)]

EntityTable(e) ==
  Constrained(
    Table(<<SqlName[e.category]>>,
          MetadataColumns
          ++ AttributeColumns(OwnAttributes(e))
          ++ NullableColumns("text", IF e.download THEN {"enclosure_url"} ELSE {})
          ++ FieldColumns({f \in Attributes(e) : ~f.many}),
          Identity),
    {}, <<ForeignKey(Identity, <<"sync_entity">>, Identity, "cascade")>>, {})

(* format!("{entity}__{field}")                                            *)
PartName(e, f) == <<SqlName[e.category], SqlName[f.name]>>

PartTable(e, f, columns, key) ==
  Table(PartName(e, f),
        Columns("text", {"source_category"}) ++ Columns("uuid", {"source_id"})
        ++ Columns("integer", {"ordinal"}) ++ columns,
        Identity \o key)

OwnerKey(e) == ForeignKey(Identity, <<SqlName[e.category]>>, Identity, "cascade")

RepeatedScalarTable(e, f) ==
  Constrained(
    PartTable(e, f, [value |-> Column(SqlType(f.type), f.nillable)], <<"ordinal">>),
    {}, <<OwnerKey(e)>>, {})

RelationTable(e, f) ==
  Constrained(
    PartTable(e, f,
              Columns("text", {"relation_name", "target_category"})
              ++ Columns("uuid", {"target_id"}) ++ Columns("timestamptz", {"source_updated_at"}),
              <<"relation_name">> \o Target \o <<"ordinal">>),
    IF f.many THEN {} ELSE {Append(Identity, "relation_name")},
    <<OwnerKey(e), ForeignKey(Target, <<"sync_entity">>, Identity, "restrict")>>, {})

(* No table for an attribute that occurs once: it is a column.             *)
FieldTables(e, f) ==
  IF f.kind = "relation" THEN <<RelationTable(e, f)>>
  ELSE IF f.many THEN <<RepeatedScalarTable(e, f)>> ELSE <<>>

EntityTables(e) ==
  <<EntityTable(e)>> \o FlattenSeq([i \in DOMAIN e.fields |-> FieldTables(e, e.fields[i])])

DocumentAssetTable ==
  Constrained(
   Table(<<"document_asset">>,
         Columns("identity", {"id"}) ++ Columns("uuid", {"document_source_id"})
         ++ Columns("text", {"document_source_category", "asset_url", "upstream_url",
                             "retrieval_status"})
         ++ NullableColumns("text", {"upstream_content_type", "retrieval_error"})
         ++ NullableColumns("bigint", {"upstream_content_length"})
         ++ NullableColumns("timestamptz", {"upstream_last_modified_at", "retrieved_at"})
         ++ Columns("timestamptz", {"created_at", "updated_at"}),
         <<"id">>),
   {Append(DocumentIdentity, "asset_url")},
   <<ForeignKey(DocumentIdentity, <<"document">>, Identity, "cascade")>>,
   {"document_asset_retrieval_status_check"})

DocumentContentTable ==
  Constrained(
   Table(<<"document_content">>,
         Columns("identity", {"id"}) ++ Columns("uuid", {"document_source_id"})
         ++ Columns("bigint", {"document_asset_id"}) ++ Columns("boolean", {"official_source"})
         ++ Columns("text", {"document_source_category", "selected_source_url",
                             "extraction_status", "validation_status", "extraction_tool",
                             "extraction_tool_version", "source_hash"})
         ++ NullableColumns("text", {"selected_source_content_type", "output_hash",
                                     "extraction_error", "extracted_text", "extracted_html"})
         ++ NullableColumns("bigint", {"selected_source_content_length"})
         ++ Columns("integer", {"source_rank"})
         ++ Columns("timestamptz", {"extracted_at", "created_at", "updated_at"}),
         <<"id">>),
   {<<"document_asset_id", "source_hash", "output_hash">>},
   <<ForeignKey(<<"document_asset_id">>, <<"document_asset">>, <<"id">>, "cascade"),
     ForeignKey(DocumentIdentity, <<"document">>, Identity, "cascade")>>,
   {"document_content_extraction_status_check", "document_content_validation_status_check",
    "document_content_extracted_body_check"})

(* schema: the order in which they are created.                            *)
Tables ==
  <<SyncCategoryTable, IngestErrorTable, SyncEntityTable, SearchIndexCursorTable,
    SearchIndexFailureTable, SearchReconcilerScratchTable>>
  \o FlattenSeq([i \in DOMAIN EntityTypes |-> EntityTables(EntityTypes[i])])
  \o <<DocumentAssetTable, DocumentContentTable>>

(* The names that the code makes are distinct: tables are looked up by     *)
(* them.                                                                   *)
ASSUME NamesAssumption ==
  \A i, j \in DOMAIN Tables : Tables[i].name = Tables[j].name => i = j

-------------------------------------------------------------------------------
(* The indexes; no purpose has a unique one.                               *)

Index(table, purpose, columns) ==
  [table |-> table, purpose |-> purpose, columns |-> columns]

SyncIndexes ==
  <<Index(<<"sync_category">>, "CategoryCursor", <<"source_category", "latest_skiptoken">>),
    Index(<<"sync_entity">>, "PrimaryUuidLookup", <<"source_id">>),
    Index(<<"sync_entity">>, "EntityUpdatedAt", <<"source_category", "source_updated_at">>),
    Index(<<"sync_entity">>, "CategoryCursor",
          <<"source_category", "deleted", "latest_skiptoken">>),
    Index(<<"sync_entity">>, "ChangeFeedPage",
          <<"source_category", "latest_skiptoken", "source_id">>),
    Index(<<"search_index_cursor">>, "SearchIndexCursor",
          <<"index_name", "source_category", "latest_skiptoken">>),
    Index(<<"search_index_failure">>, "SearchIndexFailureRetry",
          <<"next_retry_at", "attempt_count">>),
    Index(<<"search_index_failure">>, "SearchIndexFailureSource",
          <<"index_name", "source_category", "source_id", "latest_skiptoken">>),
    Index(<<"search_reconciler_scratch">>, "SearchReconcilerScratch",
          <<"index_name", "source_category", "latest_skiptoken", "source_id">>)>>

DateColumns(table) ==
  {c \in DOMAIN table.columns : table.columns[c].type \in {"date", "timestamptz"}}

DateIndexes(name, dates) ==
  [i \in DOMAIN dates |-> Index(name, "DateScan", <<dates[i]>>)]

EntityIndexes(e) ==
  LET name == <<SqlName[e.category]>>
  IN <<Index(name, "PrimaryUuidLookup", <<"source_id">>),
       Index(name, "EntityUpdatedAt", <<"source_category", "source_updated_at">>),
       Index(name, "ForeignKeyPath", Identity)>>
     \o (IF e.category = "Document"
         THEN <<Index(name, "DocumentNumber", <<"document_nummer">>)>> ELSE <<>>)
     \o (IF e.download
         THEN <<Index(name, "AssetOwner", Append(Identity, "content_type"))>> ELSE <<>>)
     \o DateIndexes(name, SetToSeq(DateColumns(EntityTable(e))))

FieldIndexes(e, f) ==
  LET name == PartName(e, f) IN
  CASE f.kind = "relation" ->
         <<Index(name, "RelationSource", Append(Identity, "relation_name")),
           Index(name, "RelationTarget", Target), Index(name, "ForeignKeyPath", Identity)>>
    [] f.kind = "attribute" /\ f.many -> <<Index(name, "ForeignKeyPath", Identity)>>
    [] OTHER -> <<>>

DocumentIndexes ==
  <<Index(<<"document_asset">>, "AssetOwner", DocumentIdentity),
    Index(<<"document_asset">>, "AssetUrl", <<"asset_url">>),
    Index(<<"document_asset">>, "AssetUrl", <<"upstream_url">>),
    Index(<<"document_content">>, "DocumentContentOwner", DocumentIdentity),
    Index(<<"document_content">>, "ForeignKeyPath", <<"document_asset_id">>),
    Index(<<"document_content">>, "OfficialContentSource",
          <<"official_source", "source_rank">>)>>

TypeIndexes(e) ==
  EntityIndexes(e)
  \o FlattenSeq([k \in DOMAIN e.fields |-> FieldIndexes(e, e.fields[k])])

Indexes ==
  SyncIndexes
  \o FlattenSeq([i \in DOMAIN EntityTypes |-> TypeIndexes(EntityTypes[i])])
  \o DocumentIndexes
=============================================================================
