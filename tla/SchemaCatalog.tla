----------------------------- MODULE SchemaCatalog -----------------------------
(***************************************************************************)
(* What applying the schema promises: "Create missing schema objects"      *)
(* (opentk-db::schema_lifecycle), all of them in one step, and nothing     *)
(* that is there is changed.  Whoever reads the catalog sees it as it was  *)
(* found, or complete.                                                     *)
(***************************************************************************)
CONSTANTS
  Tables,      \* the tables of the schema
  Indexes,     \* its indexes
  Found        \* the catalogs there may be

VARIABLES
  catalog,     \* [tables, indexes], an index with its columns
  installed    \* there is a database

catalogVars == <<catalog, installed>>

MissingTables == {t \in Tables : \A live \in catalog.tables : live.name # t.name}
MissingIndexes == {i \in Indexes : \A live \in catalog.indexes : live[1] # i}

CatalogInit ==
  /\ catalog = [tables |-> {}, indexes |-> {}]
  /\ installed = FALSE

FindCatalog ==
  /\ ~installed
  /\ installed' = TRUE
  /\ catalog' \in Found

CreateMissing ==
  /\ installed
  /\ catalog' = [tables |-> catalog.tables \cup MissingTables,
                 indexes |-> catalog.indexes \cup {<<i, i.columns>> : i \in MissingIndexes}]
  /\ UNCHANGED installed

CatalogSpec == CatalogInit /\ [][FindCatalog \/ CreateMissing]_catalogVars
=============================================================================
