---------------------------- MODULE SchemaBootstrap ----------------------------
(***************************************************************************)
(* opentk-db::schema_lifecycle and the start of the binaries: every sync   *)
(* process at its start and the search reconciler before each pass apply   *)
(* the schema in one transaction (ensure_schema), validate what is there   *)
(* then, and work on it, the sync processes by writing pages.  Locks are   *)
(* PostgreSQL's table locks, held to the end of the transaction; a waiting *)
(* process gets its lock when nobody holds one against it.                 *)
(***************************************************************************)
EXTENDS EntitySchema, FiniteSets

CONSTANTS
  Syncs,       \* sync processes: run, poll, status, verify
  Reconcilers, \* search reconciler processes
  Found,       \* the catalogs they may find
  MaxStarts    \* bound: bootstraps of each process

(* PostgreSQL's catalogs: a name is one table's, an index comes with its   *)
(* columns.                                                                *)
ASSUME FoundAssumption ==
  \A c \in Found :
    /\ \A t, u \in c.tables : t.name = u.name => t = u
    /\ \A x \in c.indexes : x = <<x[1], x[2]>>
ASSUME MaxStartsAssumption == MaxStarts \in Nat

Processes == Syncs \cup Reconcilers
ASSUME ProcessesAssumption == Processes # {}

VARIABLES
  catalog,     \* committed: [tables, indexes], an index with its columns
  stage,       \* stage[p]: where the process is
  line,        \* line[p]: the statement of the script, or table of the page
  writing,     \* writing[p]: the tables its page writes, in order
  locks,       \* locks[p]: <<mode, table>> its transaction holds
  made,        \* made[p]: what its transaction has created, by name
  starts       \* starts[p]: bootstraps so far

bootVars == <<catalog, stage, line, writing, locks, made, starts>>

Nowhere == [tables |-> {}, indexes |-> {}]

BootInit ==
  /\ catalog = Nowhere
  /\ stage = [p \in Processes |-> "uninstalled"]
  /\ line = [p \in Processes |-> 1]
  /\ writing = [p \in Processes |-> <<>>]
  /\ locks = [p \in Processes |-> {}]
  /\ made = [p \in Processes |-> {}]
  /\ starts = [p \in Processes |-> 0]

-------------------------------------------------------------------------------
(* render_ensure_schema.  A table is created and then locks what it        *)
(* references; an index locks its table.                                   *)
CreateTable(t) ==
  <<[op |-> "create", table |-> t.name, object |-> t]>>
  \o [i \in DOMAIN t.foreignKeys |->
        [op |-> "reference", table |-> t.foreignKeys[i].table, object |-> t]]

CreateIndex(i) == [op |-> "index", table |-> i.table, object |-> i]

CreateTables(tables) == FlattenSeq([k \in DOMAIN tables |-> CreateTable(tables[k])])
CreateIndexes(indexes) == [n \in DOMAIN indexes |-> CreateIndex(indexes[n])]

(* The end of the transaction that the statements run in.                  *)
Commit == <<[op |-> "commit", table |-> <<>>, object |-> <<>>]>>

(* Mutant: each table is followed by its indexes.                          *)
ScriptByTable ==
  FlattenSeq([k \in DOMAIN Tables |->
     CreateTable(Tables[k])
     \o CreateIndexes(SelectSeq(Indexes, LAMBDA i : i.table = Tables[k].name))])
  \o Commit

(* Mutant: the tables are committed before the indexes are created.        *)
ScriptInTwo == CreateTables(Tables) \o Commit \o CreateIndexes(Indexes) \o Commit

(* All tables, then all indexes.                                           *)
Script == CreateTables(Tables) \o CreateIndexes(Indexes) \o Commit

(* Two of these modes on one table, of two transactions.                   *)
Conflict(m1, m2) ==
  {m1, m2} \in {{"share", "row exclusive"}, {"share", "share row exclusive"},
                {"row exclusive", "share row exclusive"}, {"share row exclusive"}}

Free(p, mode, table) ==
  \A q \in Processes \ {p} : \A l \in locks[q] : l[2] = table => ~Conflict(mode, l[1])

Named(tables, name) == {t \in tables : t.name = name}
IndexThere(i) == \E x \in catalog.indexes : x[1] = i

(* What a statement creates, by name.                                      *)
Creates(s) == <<s.op, IF s.op = "create" THEN s.table ELSE s.object>>

Visible(p) == catalog.tables \cup {t \in ToSet(Tables) : <<"create", t.name>> \in made[p]}

(* IF NOT EXISTS, and the locks that the transaction has already: the      *)
(* catalog only grows, so what is idle now is idle when its turn comes.    *)
Idle(p, s) ==
  \/ s.op = "create" /\ Named(catalog.tables, s.table) # {}
  \/ /\ s.op = "reference"
     /\ \/ <<"create", s.object.name>> \notin made[p]
        \/ <<"share row exclusive", s.table>> \in locks[p]
  \/ s.op = "index" /\ IndexThere(s.object) /\ <<"share", s.table>> \in locks[p]

(* The statement at k is the next that does something.                     *)
Reaches(p, k, script) ==
  /\ stage[p] = "apply" /\ line[p] <= k
  /\ ~Idle(p, script[k])
  /\ \A n \in line[p] .. k - 1 : Idle(p, script[n])

Collides(p, s) == \E q \in Processes \ {p} : Creates(s) \in made[q]

-------------------------------------------------------------------------------
(* Whoever comes first finds one of the catalogs.                          *)
Install ==
  /\ \A p \in Processes : stage[p] = "uninstalled"
  /\ \E c \in Found : catalog' = c
  /\ stage' = [p \in Processes |-> "down"]
  /\ UNCHANGED <<line, writing, locks, made, starts>>

Start(p) ==
  /\ stage[p] = "down" /\ starts[p] < MaxStarts
  /\ stage' = [stage EXCEPT ![p] = "apply"]
  /\ line' = [line EXCEPT ![p] = 1]
  /\ starts' = [starts EXCEPT ![p] = @ + 1]
  /\ UNCHANGED <<catalog, writing, locks, made>>

(* An object that another transaction has created already is not seen:     *)
(* the insertion into the catalog waits for that transaction.              *)
Make(p, k, s) ==
  IF Collides(p, s)
  THEN /\ stage' = [stage EXCEPT ![p] = "collides"]
       /\ line' = [line EXCEPT ![p] = k]
       /\ UNCHANGED made
  ELSE /\ made' = [made EXCEPT ![p] = @ \cup {Creates(s)}]
       /\ line' = [line EXCEPT ![p] = k + 1]
       /\ UNCHANGED stage

ApplyCreate(p, k, s) ==
  /\ s.op = "create"
  /\ Make(p, k, s)
  /\ UNCHANGED <<catalog, writing, locks, starts>>

(* FOREIGN KEY: the referenced columns have to be a key.                   *)
ApplyReference(p, k, s) ==
  /\ s.op = "reference"
  /\ Free(p, "share row exclusive", s.table)
  /\ \A key \in ToSet(s.object.foreignKeys) : key.table = s.table =>
       \E t \in Named(Visible(p), s.table) : key.targets \in t.uniques \cup {t.key}
  /\ locks' = [locks EXCEPT ![p] = @ \cup {<<"share row exclusive", s.table>>}]
  /\ line' = [line EXCEPT ![p] = k + 1]
  /\ UNCHANGED <<catalog, stage, writing, made, starts>>

(* The table is locked first, be the index there or not; its columns have  *)
(* to be there.                                                            *)
ApplyIndex(p, k, s) ==
  /\ s.op = "index"
  /\ Free(p, "share", s.table)
  /\ locks' = [locks EXCEPT ![p] = @ \cup {<<"share", s.table>>}]
  /\ IF IndexThere(s.object)
     THEN line' = [line EXCEPT ![p] = k + 1] /\ UNCHANGED <<stage, made>>
     ELSE /\ \E t \in Named(Visible(p), s.table) :
               ToSet(s.object.columns) \subseteq DOMAIN t.columns
          /\ Make(p, k, s)
  /\ UNCHANGED <<catalog, writing, starts>>

CommitSchema(p, s) ==
  /\ s.op = "commit"
  /\ catalog' = [tables |-> Visible(p),
                 indexes |-> catalog.indexes \cup
                   {<<i, i.columns>> : i \in {x \in ToSet(Indexes) : <<"index", x>> \in made[p]}}]
  /\ stage' = [stage EXCEPT ![p] = "validate"]
  /\ locks' = [locks EXCEPT ![p] = {}]
  /\ made' = [made EXCEPT ![p] = {}]
  /\ UNCHANGED <<line, writing, starts>>

Apply(p, k, s) ==
  \/ ApplyCreate(p, k, s) \/ ApplyReference(p, k, s) \/ ApplyIndex(p, k, s)
  \/ CommitSchema(p, s)

(* The other transaction failed: the object is created after all.  (Had it *)
(* committed, the statement would fail: Abort.)                            *)
Recover(p, s) ==
  /\ stage[p] = "collides"
  /\ ~Collides(p, s)
  /\ IF s.op = "create" THEN Named(catalog.tables, s.table) = {} ELSE ~IndexThere(s.object)
  /\ stage' = [stage EXCEPT ![p] = "apply"]
  /\ made' = [made EXCEPT ![p] = @ \cup {Creates(s)}]
  /\ line' = [line EXCEPT ![p] = @ + 1]
  /\ UNCHANGED <<catalog, writing, locks, starts>>

-------------------------------------------------------------------------------
(* validate_schema.                                                        *)

(* expected_catalog_type: an identity is a bigint in the catalog.          *)
CatalogType(type) == IF type = "identity" THEN "bigint" ELSE type

ValidColumn(column, live) ==
  /\ CatalogType(live.type) = CatalogType(column.type)
  /\ live.nullable = column.nullable
  /\ column.type = "identity" => live.type = "identity"

ValidConstraints(t, live) ==
  /\ live.key = t.key
  /\ t.uniques \subseteq live.uniques
  /\ ToSet(t.foreignKeys) \subseteq ToSet(live.foreignKeys)
  /\ t.checks \subseteq live.checks

(* Mutant: columns nobody expects are let be.                              *)
ValidTableOrWider(t, live) ==
  /\ \A n \in DOMAIN t.columns :
       n \in DOMAIN live.columns /\ ValidColumn(t.columns[n], live.columns[n])
  /\ ValidConstraints(t, live)

ValidTable(t, live) ==
  /\ \A n \in DOMAIN t.columns :
       n \in DOMAIN live.columns /\ ValidColumn(t.columns[n], live.columns[n])
  /\ \A n \in DOMAIN live.columns : n \in DOMAIN t.columns
  /\ ValidConstraints(t, live)

(* An index is looked up by its name; whether it is unique is not asked.   *)
ValidSchema ==
  /\ \A live \in catalog.tables : Named(ToSet(Tables), live.name) # {}
  /\ \A t \in ToSet(Tables) : \E live \in Named(catalog.tables, t.name) : ValidTable(t, live)
  /\ \A i \in ToSet(Indexes) : \E x \in catalog.indexes : x[1] = i /\ x[2] = i.columns

(* A start that finds the schema incompatible ends with an error.          *)
Validate(p) ==
  /\ stage[p] = "validate"
  /\ stage' = [stage EXCEPT ![p] = IF ValidSchema THEN "working" ELSE "down"]
  /\ UNCHANGED <<catalog, line, writing, locks, made, starts>>

-------------------------------------------------------------------------------
(* write_sync_page, the tables it locks: the registry, the entity's table  *)
(* and its parts, the category last.                                       *)
PageTables(e) ==
  <<SyncEntityTable.name>>
  \o [i \in DOMAIN EntityTables(e) |-> EntityTables(e)[i].name]
  \o <<SyncCategoryTable.name>>

OpenPage(p) ==
  /\ p \in Syncs /\ stage[p] = "working"
  /\ stage' = [stage EXCEPT ![p] = "page"]
  /\ line' = [line EXCEPT ![p] = 1]
  /\ \E e \in ToSet(EntityTypes) : writing' = [writing EXCEPT ![p] = PageTables(e)]
  /\ UNCHANGED <<catalog, locks, made, starts>>

PageLocks(p) ==
  /\ stage[p] = "page" /\ line[p] \in DOMAIN writing[p]
  /\ LET table == writing[p][line[p]] IN
     /\ Free(p, "row exclusive", table)
     /\ locks' = [locks EXCEPT ![p] = @ \cup {<<"row exclusive", table>>}]
  /\ line' = [line EXCEPT ![p] = @ + 1]
  /\ UNCHANGED <<catalog, stage, writing, made, starts>>

(* Mutant: the transaction stays open.                                     *)
ClosePageHolding(p) ==
  /\ stage[p] = "page"
  /\ stage' = [stage EXCEPT ![p] = "working"]
  /\ writing' = [writing EXCEPT ![p] = <<>>]
  /\ UNCHANGED <<catalog, line, locks, made, starts>>

(* Committed, or failed: the runner goes on.                               *)
ClosePage(p) ==
  /\ stage[p] = "page"
  /\ stage' = [stage EXCEPT ![p] = "working"]
  /\ writing' = [writing EXCEPT ![p] = <<>>]
  /\ locks' = [locks EXCEPT ![p] = {}]
  /\ UNCHANGED <<catalog, line, made, starts>>

(* The reconciler's next pass begins anew.                                 *)
EndWork(p) ==
  /\ p \in Reconcilers /\ stage[p] = "working"
  /\ stage' = [stage EXCEPT ![p] = "down"]
  /\ UNCHANGED <<catalog, line, writing, locks, made, starts>>

(* A statement fails, PostgreSQL ends a deadlock, the process or its       *)
(* connection ends: the transaction is rolled back.                        *)
Abort(p) ==
  /\ stage[p] \notin {"uninstalled", "down"}
  /\ stage' = [stage EXCEPT ![p] = "down"]
  /\ writing' = [writing EXCEPT ![p] = <<>>]
  /\ locks' = [locks EXCEPT ![p] = {}]
  /\ made' = [made EXCEPT ![p] = {}]
  /\ UNCHANGED <<catalog, line, starts>>

BootStep(p) ==
  \/ Start(p)
  \/ \E k \in DOMAIN Script : Reaches(p, k, Script) /\ Apply(p, k, Script[k])
  \/ Recover(p, Script[line[p]])
  \/ Validate(p)
  \/ OpenPage(p) \/ PageLocks(p) \/ ClosePage(p) \/ EndWork(p) \/ Abort(p)

BootNext == Install \/ \E p \in Processes : BootStep(p)

BootSpec == BootInit /\ [][BootNext]_bootVars

-------------------------------------------------------------------------------
(* What the script creates, and what pages write.                          *)
Creatable == {Creates(Script[k]) : k \in DOMAIN Script}
Writable == {PageTables(e) : e \in ToSet(EntityTypes)}

(* Types, and what a process holds where: locks in a transaction only,     *)
(* created objects while it applies the schema only.                       *)
BootTypeOK ==
  /\ stage \in [Processes -> {"uninstalled", "down", "apply", "collides", "validate",
                              "working", "page"}]
  /\ line \in [Processes -> Nat \ {0}]
  /\ starts \in [Processes -> 0 .. MaxStarts]
  /\ made \in [Processes -> SUBSET Creatable]
  /\ writing \in [Processes -> {<<>>} \cup Writable]
  /\ DOMAIN locks = Processes
  /\ \A p \in Processes :
       /\ stage[p] \in {"apply", "collides"} => line[p] \in DOMAIN Script
       /\ made[p] # {} => stage[p] \in {"apply", "collides"}
       /\ locks[p] # {} => stage[p] \in {"apply", "collides", "page"}
       /\ writing[p] # <<>> <=> stage[p] = "page"

(* The columns as the catalog tells them.                                  *)
InCatalog(columns) ==
  [n \in DOMAIN columns |-> <<CatalogType(columns[n].type), columns[n].nullable>>]

Expected(t, live) ==
  /\ InCatalog(live.columns) = InCatalog(t.columns)
  /\ \A n \in DOMAIN t.columns :
       t.columns[n].type = "identity" => live.columns[n].type = "identity"
  /\ live.key = t.key
  /\ t.uniques \ live.uniques = {}
  /\ ToSet(t.foreignKeys) \ ToSet(live.foreignKeys) = {}
  /\ t.checks \ live.checks = {}

(* Whoever works, works on the tables and columns an empty database would  *)
(* have been given, whatever was found and whoever applied the schema at   *)
(* the same time.  Extra constraints and what a CHECK says are not         *)
(* compared, nor is an identity where a bigint is expected.                *)
WorksOnExpectedSchema ==
  (\E p \in Processes : stage[p] \in {"working", "page"}) =>
    /\ Cardinality(catalog.tables) = Len(Tables)
    /\ \A t \in ToSet(Tables) : \E live \in catalog.tables : live.name = t.name /\ Expected(t, live)
    /\ \A i \in ToSet(Indexes) : <<i, i.columns>> \in catalog.indexes

(* Applying the schema is one step for whoever reads the catalog: what is  *)
(* missing by its name is created, all of it, whoever else creates some of *)
(* it meanwhile, and nothing else happens to a catalog.                    *)
Catalog == INSTANCE SchemaCatalog WITH
  Tables <- ToSet(Tables), Indexes <- ToSet(Indexes), Found <- Found,
  catalog <- catalog, installed <- \E p \in Processes : stage[p] # "uninstalled"

RefinesSchemaCatalog == Catalog!CatalogSpec

(* The lock a statement asks for, in the mode and on the table of it.      *)
Asks(s) ==
  CASE s.op = "index" -> {<<"share", s.table>>}
    [] s.op = "reference" -> {<<"share row exclusive", s.table>>}
    [] OTHER -> {}

PageAsks(p) ==
  IF stage[p] = "page" /\ line[p] \in DOMAIN writing[p]
  THEN {<<"row exclusive", writing[p][line[p]]>>} ELSE {}

(* p waits for a lock of q, or for q's transaction.                        *)
WaitsForLock(asked, q) ==
  \E a \in asked, l \in locks[q] : a[2] = l[2] /\ Conflict(a[1], l[1])

WaitsFor(p, q) ==
  \/ \E k \in DOMAIN Script : Reaches(p, k, Script) /\ WaitsForLock(Asks(Script[k]), q)
  \/ WaitsForLock(PageAsks(p), q)
  \/ stage[p] = "collides" /\ Creates(Script[line[p]]) \in made[q]

(* Bootstraps never wait for each other in a circle, since all take the    *)
(* tables, and then the indexes, in one order; with a page between them    *)
(* they may: it takes the registry first and the category last, the script *)
(* the category first.  PostgreSQL then fails one of them.                 *)
CyclesNeedAPage ==
  \A circle \in (SUBSET Processes) \ {{}} :
    (\A p \in circle : \E q \in circle \ {p} : WaitsFor(p, q)) =>
      \E p, q \in circle : stage[p] = "page" /\ stage[q] \in {"apply", "collides"}
=============================================================================
