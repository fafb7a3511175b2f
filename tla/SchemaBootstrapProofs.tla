------------------------- MODULE SchemaBootstrapProofs -------------------------
(***************************************************************************)
(* Why whoever works, works on the expected schema, and why bootstraps     *)
(* among themselves never wait in a circle.                                *)
(***************************************************************************)
EXTENDS SchemaBootstrap, Induction

Applying(p) == stage[p] \in {"apply", "collides"}
Creating == {"create", "index"}

(* What a statement creates is in the catalog.                             *)
Exists(m) ==
  \/ m[1] = "create" /\ Named(catalog.tables, m[2]) # {}
  \/ m[1] = "index" /\ IndexThere(m[2])

(* PostgreSQL's catalog, whatever the script adds to it.                   *)
WellFormed ==
  /\ \A t, u \in catalog.tables : t.name = u.name => t = u
  /\ \A x \in catalog.indexes : x = <<x[1], x[2]>>

(* What a transaction has created comes from a statement behind it, is in  *)
(* nobody's catalog yet, and no other transaction has created it.          *)
Made(p) ==
  \A m \in made[p] :
    /\ ~Exists(m)
    /\ \A q \in Processes \ {p} : m \notin made[q]
    /\ \E n \in DOMAIN Script :
         n < line[p] /\ Script[n].op \in Creating /\ m = Creates(Script[n])

(* What lies behind a transaction is there, for everybody or for it.       *)
Passed(p) ==
  Applying(p) =>
    \A n \in DOMAIN Script : n < line[p] /\ Script[n].op \in Creating =>
      Exists(Creates(Script[n])) \/ Creates(Script[n]) \in made[p]

(* What a table lock tells of the transaction that has it.                 *)
Holds(p) ==
  \A l \in locks[p] :
    /\ stage[p] = "page" => l[1] = "row exclusive"
    /\ Applying(p) =>
         \/ l[1] = "share row exclusive" /\ \E m \in made[p] : m[1] = "create"
         \/ l[1] = "share" /\ \E n \in DOMAIN Script : n <= line[p] /\ Script[n].op = "index"

Collided(p) == stage[p] = "collides" => Script[line[p]].op \in Creating

Valid == (\E p \in Processes : stage[p] \in {"working", "page"}) => ValidSchema

BootInv ==
  /\ BootTypeOK
  /\ WellFormed
  /\ \A p \in Processes : Made(p) /\ Passed(p) /\ Holds(p) /\ Collided(p)
  /\ Valid

-------------------------------------------------------------------------------
(* The script.                                                             *)

Shaped(t) == t.foreignKeys \in Seq(ToSet(t.foreignKeys))

LEMMA ShapedTable ==
  ASSUME NEW name, NEW columns, NEW key
  PROVE  Shaped(Table(name, columns, key))
BY DEF Shaped, Table, ToSet

LEMMA ShapedConstrained ==
  ASSUME NEW t, NEW u, NEW c
  PROVE  /\ Shaped(Constrained(t, u, <<>>, c))
         /\ \A k : Shaped(Constrained(t, u, <<k>>, c))
         /\ \A k, l : Shaped(Constrained(t, u, <<k, l>>, c))
<1>1. <<>> \in Seq(ToSet(<<>>))  OBVIOUS
<1>2. ASSUME NEW k PROVE <<k>> \in Seq(ToSet(<<k>>))  BY DEF ToSet
<1>3. ASSUME NEW k, NEW l PROVE <<k, l>> \in Seq(ToSet(<<k, l>>))  BY DEF ToSet
<1>. QED  BY <1>1, <1>2, <1>3 DEF Shaped, Constrained

LEMMA ShapedSyncTables ==
  /\ Shaped(SyncCategoryTable) /\ Shaped(IngestErrorTable) /\ Shaped(SyncEntityTable)
  /\ Shaped(SearchIndexCursorTable) /\ Shaped(SearchIndexFailureTable)
  /\ Shaped(SearchReconcilerScratchTable)
<1>1. /\ Shaped(SyncCategoryTable) /\ Shaped(IngestErrorTable) /\ Shaped(SyncEntityTable)
      /\ Shaped(SearchIndexCursorTable)
  BY ShapedTable
  DEF SyncCategoryTable, IngestErrorTable, SyncEntityTable, SearchIndexCursorTable
<1>2. Shaped(SearchIndexFailureTable) /\ Shaped(SearchReconcilerScratchTable)
  BY ShapedConstrained DEF SearchIndexFailureTable, SearchReconcilerScratchTable
<1>. QED  BY <1>1, <1>2

LEMMA ShapedDocumentTables ==
  Shaped(DocumentAssetTable) /\ Shaped(DocumentContentTable)
BY ShapedConstrained DEF DocumentAssetTable, DocumentContentTable

LEMMA ShapedEntityTables ==
  ASSUME NEW e, NEW f
  PROVE  Shaped(EntityTable(e)) /\ Shaped(RepeatedScalarTable(e, f)) /\ Shaped(RelationTable(e, f))
BY ShapedConstrained DEF EntityTable, RepeatedScalarTable, RelationTable

(* The tables that the official types and the code make.                   *)
ListedTables ==
  {SyncCategoryTable, IngestErrorTable, SyncEntityTable, SearchIndexCursorTable,
   SearchIndexFailureTable, SearchReconcilerScratchTable, DocumentAssetTable,
   DocumentContentTable}
  \cup UNION {{EntityTable(e)}
              \cup {RelationTable(e, f) : f \in ToSet(e.fields)}
              \cup {RepeatedScalarTable(e, f) : f \in ToSet(e.fields)} :
              e \in ToSet(EntityTypes)}

LEMMA ListedShaped == \A t \in ListedTables : Shaped(t)
BY ShapedSyncTables, ShapedDocumentTables, ShapedEntityTables DEF ListedTables

LEMMA ListType ==
  ASSUME NEW X, NEW n \in Nat, NEW s \in [1 .. n -> X]
  PROVE  s \in Seq(X)
OBVIOUS

LEMMA EntityTablesType ==
  ASSUME NEW e \in ToSet(EntityTypes)
  PROVE  EntityTables(e) \in Seq(ListedTables)
<1>. DEFINE parts == [i \in DOMAIN e.fields |-> FieldTables(e, e.fields[i])]
<1>1. e.fields \in Seq(ToSet(e.fields))  BY TypesAssumption
<1>2. ASSUME NEW f \in ToSet(e.fields) PROVE FieldTables(e, f) \in Seq(ListedTables)
  <2>1. RelationTable(e, f) \in ListedTables /\ RepeatedScalarTable(e, f) \in ListedTables
    BY DEF ListedTables
  <2>. QED  BY <2>1 DEF FieldTables
<1>3. parts \in Seq(Seq(ListedTables))
  <2>1. DOMAIN e.fields = 1 .. Len(e.fields) /\ Len(e.fields) \in Nat  BY <1>1
  <2>2. \A i \in DOMAIN e.fields : e.fields[i] \in ToSet(e.fields)  BY DEF ToSet
  <2>3. parts \in [1 .. Len(e.fields) -> Seq(ListedTables)]  BY <1>2, <2>1, <2>2
  <2>. HIDE DEF parts
  <2>. QED  BY <2>1, <2>3, ListType
<1>4. FlattenSeq(parts) \in Seq(ListedTables)
  <2>. HIDE DEF parts
  <2>. QED  BY <1>3, FlattenSeqType
<1>5. EntityTable(e) \in ListedTables  BY DEF ListedTables
<1>. QED  BY <1>4, <1>5 DEF EntityTables

LEMMA TablesType == Tables \in Seq(ListedTables)
<1>. DEFINE parts == [i \in DOMAIN EntityTypes |-> EntityTables(EntityTypes[i])]
<1>1. parts \in Seq(Seq(ListedTables))
  <2>1. DOMAIN EntityTypes = 1 .. Len(EntityTypes) /\ Len(EntityTypes) \in Nat
    BY TypesAssumption
  <2>2. \A i \in DOMAIN EntityTypes : EntityTypes[i] \in ToSet(EntityTypes)  BY DEF ToSet
  <2>3. parts \in [1 .. Len(EntityTypes) -> Seq(ListedTables)]
    BY <2>1, <2>2, EntityTablesType
  <2>. HIDE DEF parts
  <2>. QED  BY <2>1, <2>3, ListType
<1>2. FlattenSeq(parts) \in Seq(ListedTables)
  <2>. HIDE DEF parts
  <2>. QED  BY <1>1, FlattenSeqType
<1>3. /\ <<SyncCategoryTable, IngestErrorTable, SyncEntityTable, SearchIndexCursorTable,
           SearchIndexFailureTable, SearchReconcilerScratchTable>> \in Seq(ListedTables)
      /\ <<DocumentAssetTable, DocumentContentTable>> \in Seq(ListedTables)
  BY DEF ListedTables
<1>. QED  BY <1>2, <1>3 DEF Tables

-------------------------------------------------------------------------------
(* The indexes.                                                            *)

LEMMA FiniteImage ==
  ASSUME NEW S, IsFiniteSet(S), NEW f
  PROVE  IsFiniteSet({f[x] : x \in S})
<1>. DEFINE T == {f[x] : x \in S}
            g == [x \in S |-> f[x]]
<1>1. g \in Surjection(S, T)  BY DEF Surjection
<1>. QED  BY <1>1, FS_Surjection

LEMMA FiniteList ==
  ASSUME NEW S, NEW s \in Seq(S)
  PROVE  IsFiniteSet(ToSet(s))
<1>1. IsFiniteSet(DOMAIN s)
  <2>1. DOMAIN s = 1 .. Len(s) /\ Len(s) \in Int /\ 1 \in Int  OBVIOUS
  <2>. QED  BY <2>1, FS_Interval
<1>. QED  BY <1>1, FiniteImage DEF ToSet

LEMMA FiniteTogether ==
  ASSUME NEW c, NEW d, IsFiniteSet(DOMAIN c), IsFiniteSet(DOMAIN d)
  PROVE  IsFiniteSet(DOMAIN (c ++ d))
<1>1. DOMAIN (c ++ d) = DOMAIN c \cup DOMAIN d  BY DEF ++
<1>. QED  BY <1>1, FS_Union

LEMMA FiniteNames ==
  ASSUME NEW fields, IsFiniteSet(fields)
  PROVE  IsFiniteSet({SqlName[f.name] : f \in fields})
<1>. DEFINE name == [f \in fields |-> SqlName[f.name]]
<1>1. {SqlName[f.name] : f \in fields} = {name[f] : f \in fields}  OBVIOUS
<1>. HIDE DEF name
<1>2. IsFiniteSet({name[f] : f \in fields})  BY FiniteImage
<1>. QED  BY <1>1, <1>2

LEMMA FiniteColumns ==
  /\ \A type, n : /\ IsFiniteSet(DOMAIN Columns(type, {n}))
                  /\ IsFiniteSet(DOMAIN NullableColumns(type, {n}))
  /\ \A type, n, m : IsFiniteSet(DOMAIN Columns(type, {n, m}))
  /\ \A type : IsFiniteSet(DOMAIN NullableColumns(type, {}))
<1>1. \A n : IsFiniteSet({n})  BY FS_Singleton
<1>2. \A n, m : IsFiniteSet({n, m})
  <2>. SUFFICES ASSUME NEW n, NEW m PROVE IsFiniteSet({n, m})  OBVIOUS
  <2>1. {n, m} = {n} \cup {m}  OBVIOUS
  <2>2. IsFiniteSet({n} \cup {m})  BY <1>1, FS_Union
  <2>. QED  BY <2>1, <2>2
<1>3. IsFiniteSet({})  BY FS_EmptySet
<1>. QED  BY <1>1, <1>2, <1>3 DEF Columns, NullableColumns

LEMMA EntityColumnsFinite ==
  ASSUME NEW e \in ToSet(EntityTypes)
  PROVE  IsFiniteSet(DOMAIN EntityTable(e).columns)
<1>1. IsFiniteSet(ToSet(e.fields)) /\ IsFiniteSet(ToSet(e.attributes))
  BY FiniteList, TypesAssumption
<1>. DEFINE fields == {f \in Attributes(e) : ~f.many}
<1>2. IsFiniteSet(fields) /\ IsFiniteSet(OwnAttributes(e))
  <2>1. fields \in SUBSET ToSet(e.fields) /\ OwnAttributes(e) \in SUBSET ToSet(e.attributes)
    BY DEF Attributes, OwnAttributes
  <2>. QED  BY <1>1, <2>1, FS_Subset
<1>3. IsFiniteSet(DOMAIN FieldColumns(fields))
  <2>1. DOMAIN FieldColumns(fields) = {SqlName[f.name] : f \in fields}  BY DEF FieldColumns
  <2>. QED  BY <1>2, <2>1, FiniteNames
<1>4. IsFiniteSet(DOMAIN AttributeColumns(OwnAttributes(e)))
  <2>1. DOMAIN AttributeColumns(OwnAttributes(e)) = {SqlName[a.name] : a \in OwnAttributes(e)}
    BY DEF AttributeColumns
  <2>. QED  BY <1>2, <2>1, FiniteNames
<1>5. IsFiniteSet(DOMAIN MetadataColumns)  BY FiniteColumns, FiniteTogether DEF MetadataColumns
<1>6. IsFiniteSet(DOMAIN NullableColumns("text", IF e.download THEN {"enclosure_url"} ELSE {}))
  BY FiniteColumns
<1>7. EntityTable(e).columns =
        MetadataColumns ++ AttributeColumns(OwnAttributes(e))
        ++ NullableColumns("text", IF e.download THEN {"enclosure_url"} ELSE {})
        ++ FieldColumns(fields)
  BY DEF EntityTable, Constrained, Table
<1>. HIDE DEF fields
<1>. QED  BY <1>3, <1>4, <1>5, <1>6, <1>7, FiniteTogether

LEMMA SetToSeqType ==
  ASSUME NEW S, IsFiniteSet(S)
  PROVE  SetToSeq(S) \in Seq(S)
<1>1. Cardinality(S) \in Nat /\ ExistsBijection(1 .. Cardinality(S), S)  BY FS_CardinalityType
<1>2. \E f \in [1 .. Cardinality(S) -> S] : IsInjective(f)
  BY <1>1 DEF ExistsBijection, Bijection, Injection
<1>3. SetToSeq(S) \in [1 .. Cardinality(S) -> S]
  BY <1>2 DEF SetToSeq
<1>. QED  BY <1>1, <1>3, ListType

IsList(s) == s \in Seq(ToSet(s))

LEMMA ListOf ==
  ASSUME NEW S, NEW s \in Seq(S)
  PROVE  IsList(s)
<1>1. DOMAIN s = 1 .. Len(s) /\ Len(s) \in Nat  OBVIOUS
<1>2. s \in [1 .. Len(s) -> ToSet(s)]  BY <1>1 DEF ToSet
<1>. QED  BY <1>1, <1>2, ListType DEF IsList

LEMMA ListWithin ==
  ASSUME NEW s, IsList(s), NEW S, ToSet(s) \subseteq S
  PROVE  s \in Seq(S)
<1>1. DOMAIN s = 1 .. Len(s) /\ Len(s) \in Nat /\ s \in [1 .. Len(s) -> S]
  BY DEF IsList
<1>. QED  BY <1>1, ListType

LEMMA ListConcat ==
  ASSUME NEW s, NEW t, IsList(s), IsList(t)
  PROVE  /\ IsList(s \o t)
         /\ Len(s \o t) = Len(s) + Len(t)
         /\ \A k \in 1 .. Len(s) : (s \o t)[k] = s[k]
         /\ \A k \in 1 .. Len(t) : (s \o t)[Len(s) + k] = t[k]
<1>. DEFINE S == ToSet(s) \cup ToSet(t)
<1>1. s \in Seq(S) /\ t \in Seq(S)  BY ListWithin
<1>. HIDE DEF S
<1>2. s \o t \in Seq(S)  BY <1>1
<1>3. IsList(s \o t)  BY <1>2, ListOf
<1>4. Len(s \o t) = Len(s) + Len(t) /\ Len(s) \in Nat /\ Len(t) \in Nat  BY <1>1
<1>5. \A k \in 1 .. Len(s) : (s \o t)[k] = s[k]  BY <1>1
<1>6. ASSUME NEW k \in 1 .. Len(t) PROVE (s \o t)[Len(s) + k] = t[k]
  <2>1. (Len(s) + k) - Len(s) = k /\ Len(s) + k > Len(s)  BY <1>4
  <2>2. (s \o t)[Len(s) + k] = t[(Len(s) + k) - Len(s)]  BY <1>1, <1>4
  <2>. QED  BY <2>1, <2>2
<1>. QED  BY <1>3, <1>4, <1>5, <1>6

LEMMA ListFlatten ==
  ASSUME NEW n \in Nat, NEW ss, ss = [i \in 1 .. n |-> ss[i]],
         \A i \in 1 .. n : IsList(ss[i])
  PROVE  IsList(FlattenSeq(ss))
<1>. DEFINE S == UNION {ToSet(ss[i]) : i \in 1 .. n}
<1>1. ASSUME NEW i \in 1 .. n PROVE ss[i] \in Seq(S)
  <2>1. ToSet(ss[i]) \subseteq S  OBVIOUS
  <2>. QED  BY <2>1, ListWithin
<1>. HIDE DEF S
<1>2. ss \in [1 .. n -> Seq(S)]  BY <1>1
<1>3. ss \in Seq(Seq(S))  BY <1>2, ListType
<1>4. FlattenSeq(ss) \in Seq(S)  BY <1>3, FlattenSeqType
<1>. QED  BY <1>4, ListOf

LEMMA ListLiteral ==
  /\ IsList(<<>>)
  /\ \A a : IsList(<<a>>)
  /\ \A a, b, c : IsList(<<a, b, c>>)
<1>1. \A a : <<a>> \in Seq({a})  OBVIOUS
<1>2. \A a, b, c : <<a, b, c>> \in Seq({a, b, c})  OBVIOUS
<1>3. <<>> \in Seq({})  OBVIOUS
<1>. QED  BY <1>1, <1>2, <1>3, ListOf

LEMMA EntityIndexesList ==
  ASSUME NEW e \in ToSet(EntityTypes)
  PROVE  IsList(EntityIndexes(e))
<1>. DEFINE name == <<SqlName[e.category]>>
            dates == SetToSeq(DateColumns(EntityTable(e)))
<1>1. dates \in Seq(DateColumns(EntityTable(e)))
  <2>1. DateColumns(EntityTable(e)) \in SUBSET DOMAIN EntityTable(e).columns  BY DEF DateColumns
  <2>2. IsFiniteSet(DateColumns(EntityTable(e)))  BY <2>1, EntityColumnsFinite, FS_Subset
  <2>. QED  BY <2>2, SetToSeqType
<1>2. IsList(DateIndexes(name, dates))
  <2>. HIDE DEF dates, name
  <2>1. DOMAIN dates = 1 .. Len(dates) /\ Len(dates) \in Nat  BY <1>1
  <2>2. DateIndexes(name, dates) \in
          [1 .. Len(dates) -> {Index(name, "DateScan", <<dates[i]>>) : i \in DOMAIN dates}]
    BY <2>1 DEF DateIndexes
  <2>. QED  BY <2>1, <2>2, ListType, ListOf
<1>3. IsList(IF e.category = "Document"
             THEN <<Index(name, "DocumentNumber", <<"document_nummer">>)>> ELSE <<>>)
  BY ListLiteral
<1>4. IsList(IF e.download
             THEN <<Index(name, "AssetOwner", Append(Identity, "content_type"))>> ELSE <<>>)
  BY ListLiteral
<1>5. IsList(<<Index(name, "PrimaryUuidLookup", <<"source_id">>),
       Index(name, "EntityUpdatedAt", <<"source_category", "source_updated_at">>),
       Index(name, "ForeignKeyPath", Identity)>>)
  BY ListLiteral
<1>. QED  BY <1>2, <1>3, <1>4, <1>5, ListConcat DEF EntityIndexes

LEMMA TypeIndexesList ==
  ASSUME NEW e \in ToSet(EntityTypes)
  PROVE  IsList(TypeIndexes(e))
<1>. DEFINE parts == [k \in DOMAIN e.fields |-> FieldIndexes(e, e.fields[k])]
<1>1. \A f : IsList(FieldIndexes(e, f))  BY ListLiteral DEF FieldIndexes
<1>2. DOMAIN e.fields = 1 .. Len(e.fields) /\ Len(e.fields) \in Nat  BY TypesAssumption
<1>3. parts = [k \in 1 .. Len(e.fields) |-> parts[k]] /\ \A k \in 1 .. Len(e.fields) : IsList(parts[k])
  BY <1>1, <1>2
<1>4. IsList(FlattenSeq(parts))
  <2>. HIDE DEF parts
  <2>. QED  BY <1>2, <1>3, ListFlatten
<1>. QED  BY <1>4, EntityIndexesList, ListConcat DEF TypeIndexes

LEMMA IndexesList == IsList(Indexes)
<1>. DEFINE parts == [i \in DOMAIN EntityTypes |-> TypeIndexes(EntityTypes[i])]
<1>1. DOMAIN EntityTypes = 1 .. Len(EntityTypes) /\ Len(EntityTypes) \in Nat
  BY TypesAssumption
<1>2. \A i \in DOMAIN EntityTypes : EntityTypes[i] \in ToSet(EntityTypes)  BY DEF ToSet
<1>3. /\ parts = [i \in 1 .. Len(EntityTypes) |-> parts[i]]
      /\ \A i \in 1 .. Len(EntityTypes) : IsList(parts[i])
  BY <1>1, <1>2, TypeIndexesList
<1>4. IsList(FlattenSeq(parts))
  <2>. HIDE DEF parts
  <2>. QED  BY <1>1, <1>3, ListFlatten
<1>5. IsList(SyncIndexes)
  <2>1. SyncIndexes \in Seq({SyncIndexes[i] : i \in 1 .. 9})  BY DEF SyncIndexes
  <2>. QED  BY <2>1, ListOf
<1>6. IsList(DocumentIndexes)
  <2>1. DocumentIndexes \in Seq({DocumentIndexes[i] : i \in 1 .. 6})  BY DEF DocumentIndexes
  <2>. QED  BY <2>1, ListOf
<1>. QED  BY <1>4, <1>5, <1>6, ListConcat DEF Indexes

-------------------------------------------------------------------------------
(* The order of the script.                                                *)

LEMMA CreateTableType ==
  ASSUME NEW t, Shaped(t)
  PROVE  /\ IsList(CreateTable(t))
         /\ \A k \in DOMAIN CreateTable(t) : CreateTable(t)[k].op \in {"create", "reference"}
<1>. DEFINE references == [i \in DOMAIN t.foreignKeys |->
              [op |-> "reference", table |-> t.foreignKeys[i].table, object |-> t]]
            create == [op |-> "create", table |-> t.name, object |-> t]
<1>1. DOMAIN t.foreignKeys = 1 .. Len(t.foreignKeys) /\ Len(t.foreignKeys) \in Nat
  BY DEF Shaped
<1>. DEFINE X == {create} \cup {references[i] : i \in 1 .. Len(t.foreignKeys)}
<1>2. references \in Seq(X)
  <2>1. references \in [1 .. Len(t.foreignKeys) -> X]  BY <1>1
  <2>. HIDE DEF references, X
  <2>. QED  BY <1>1, <2>1, ListType
<1>3. <<create>> \in Seq(X)  OBVIOUS
<1>4. CreateTable(t) \in Seq(X)
  <2>. HIDE DEF X
  <2>. QED  BY <1>2, <1>3 DEF CreateTable
<1>5. \A s \in X : s.op \in {"create", "reference"}
  <2>1. create.op = "create"  OBVIOUS
  <2>2. \A i \in 1 .. Len(t.foreignKeys) : references[i].op = "reference"  BY <1>1
  <2>. HIDE DEF create, references
  <2>. QED  BY <2>1, <2>2
<1>. HIDE DEF X
<1>. QED  BY <1>4, <1>5, ListOf

LEMMA CreateTablesType ==
  /\ IsList(CreateTables(Tables))
  /\ \A k \in 1 .. Len(CreateTables(Tables)) :
       CreateTables(Tables)[k].op \in {"create", "reference"}
<1>. DEFINE parts == [k \in DOMAIN Tables |-> CreateTable(Tables[k])]
            S == UNION {ToSet(CreateTable(t)) : t \in ToSet(Tables)}
<1>1. DOMAIN Tables = 1 .. Len(Tables) /\ Len(Tables) \in Nat  BY TablesType
<1>2. \A t \in ToSet(Tables) : Shaped(t)  BY TablesType, ListedShaped DEF ToSet
<1>3. ASSUME NEW t \in ToSet(Tables) PROVE CreateTable(t) \in Seq(S)
  <2>1. ToSet(CreateTable(t)) \subseteq S  OBVIOUS
  <2>2. IsList(CreateTable(t))  BY <1>2, CreateTableType
  <2>. QED  BY <2>1, <2>2, ListWithin
<1>4. \A s \in S : s.op \in {"create", "reference"}
  BY <1>2, CreateTableType DEF ToSet
<1>. HIDE DEF S
<1>5. parts \in Seq(Seq(S))
  <2>1. parts \in [1 .. Len(Tables) -> Seq(S)]  BY <1>1, <1>3 DEF ToSet
  <2>. HIDE DEF parts
  <2>. QED  BY <1>1, <2>1, ListType
<1>6. CreateTables(Tables) \in Seq(S)
  <2>. HIDE DEF parts
  <2>1. FlattenSeq(parts) \in Seq(S)  BY <1>5, FlattenSeqType
  <2>. QED  BY <2>1 DEF CreateTables, parts
<1>. QED  BY <1>4, <1>6, ListOf

(* First all tables, with what they reference, then all indexes, and the   *)
(* commit at the end.                                                      *)
LEMMA ScriptShape ==
  \E c, n \in Nat :
    /\ c < n /\ DOMAIN Script = 1 .. n
    /\ \A k \in 1 .. c : Script[k].op \in {"create", "reference"}
    /\ \A k \in c + 1 .. n - 1 : Script[k].op = "index"
    /\ Script[n].op = "commit"
<1>. DEFINE A == CreateTables(Tables)
            B == CreateIndexes(Indexes)
            c == Len(A)
            d == Len(B)
<1>1. IsList(A) /\ \A k \in 1 .. c : A[k].op \in {"create", "reference"}
  BY CreateTablesType
<1>2. IsList(B) /\ \A k \in 1 .. d : B[k].op = "index"
  <2>1. DOMAIN Indexes = 1 .. Len(Indexes) /\ Len(Indexes) \in Nat
    BY IndexesList DEF IsList
  <2>2. B \in [1 .. Len(Indexes) -> {CreateIndex(i) : i \in ToSet(Indexes)}]
    BY <2>1 DEF CreateIndexes, ToSet
  <2>3. \A k \in DOMAIN B : B[k].op = "index"  BY DEF CreateIndexes, CreateIndex
  <2>. HIDE DEF B
  <2>4. B \in Seq({CreateIndex(i) : i \in ToSet(Indexes)})  BY <2>1, <2>2, ListType
  <2>. QED  BY <2>3, <2>4, ListOf
<1>3. c \in Nat /\ d \in Nat  BY <1>1, <1>2 DEF IsList
<1>4. IsList(Commit) /\ Len(Commit) = 1 /\ Commit[1].op = "commit"
  BY ListLiteral DEF Commit
<1>5. Script = A \o B \o Commit  BY DEF Script
<1>. HIDE DEF A, B
<1>6. /\ IsList(A \o B) /\ Len(A \o B) = c + d
      /\ \A k \in 1 .. c : (A \o B)[k] = A[k]
      /\ \A k \in 1 .. d : (A \o B)[c + k] = B[k]
  BY <1>1, <1>2, ListConcat
<1>. DEFINE D == A \o B
<1>. HIDE DEF D
<1>7. /\ DOMAIN Script = 1 .. c + d + 1
      /\ \A k \in 1 .. c + d : Script[k] = D[k]
      /\ Script[c + d + 1] = Commit[1]
  <2>1. /\ IsList(Script) /\ Len(Script) = c + d + 1
        /\ \A k \in 1 .. c + d : Script[k] = D[k]
        /\ \A k \in 1 .. 1 : Script[c + d + k] = Commit[k]
    <3>1. IsList(D) /\ Len(D) = c + d /\ Script = D \o Commit  BY <1>5, <1>6 DEF D
    <3>2. /\ IsList(D \o Commit) /\ Len(D \o Commit) = Len(D) + Len(Commit)
          /\ \A k \in 1 .. Len(D) : (D \o Commit)[k] = D[k]
          /\ \A k \in 1 .. Len(Commit) : (D \o Commit)[Len(D) + k] = Commit[k]
      <4>1. IsList(Commit)  BY <1>4
      <4>2. IsList(D)  BY <3>1
      <4>. QED  BY ONLY <4>1, <4>2, ListConcat
    <3>. QED  BY <1>4, <3>1, <3>2
  <2>2. DOMAIN Script = 1 .. Len(Script)  BY <2>1 DEF IsList
  <2>. QED  BY <2>1, <2>2
<1>. HIDE DEF c, d
<1>8. \A k \in 1 .. c : Script[k].op \in {"create", "reference"}
  BY <1>1, <1>3, <1>6, <1>7 DEF D
<1>10. ASSUME NEW k \in c + 1 .. (c + d + 1) - 1 PROVE Script[k].op = "index"
  <2>1. k \in 1 .. c + d /\ k - c \in 1 .. d /\ c + (k - c) = k  BY <1>3
  <2>2. D[k] = B[k - c]  BY <1>6, <2>1 DEF D
  <2>. QED  BY <1>2, <1>7, <2>1, <2>2
<1>9. c < c + d + 1 /\ c + d + 1 \in Nat  BY <1>3
<1>. QED  BY <1>3, <1>4, <1>7, <1>8, <1>9, <1>10

LEMMA ScriptFacts ==
  /\ 1 \in DOMAIN Script
  /\ \A k \in DOMAIN Script :
       /\ k \in Nat \ {0}
       /\ Script[k].op \in {"create", "reference", "index", "commit"}
       /\ Script[k].op # "commit" => k + 1 \in DOMAIN Script
       /\ \A n \in Nat \ {0} : n <= k => n \in DOMAIN Script
  /\ \A j, k \in DOMAIN Script : Script[j].op = "create" /\ Script[k].op = "index" => j < k
<1>. PICK c, n \in Nat :
       /\ c < n /\ DOMAIN Script = 1 .. n
       /\ \A k \in 1 .. c : Script[k].op \in {"create", "reference"}
       /\ \A k \in c + 1 .. n - 1 : Script[k].op = "index"
       /\ Script[n].op = "commit"
  BY ScriptShape
<1>1. ASSUME NEW k \in 1 .. n
      PROVE  \/ k \in 1 .. c \/ k \in c + 1 .. n - 1 \/ k = n
  OBVIOUS
<1>2. ASSUME NEW k \in 1 .. n, Script[k].op # "commit" PROVE k + 1 \in 1 .. n
  BY <1>1, <1>2
<1>3. ASSUME NEW j \in 1 .. n, NEW k \in 1 .. n,
             Script[j].op = "create", Script[k].op = "index"
      PROVE  j < k
  <2>1. j \in 1 .. c  BY <1>1, <1>3
  <2>2. k \in c + 1 .. n - 1  BY <1>1, <1>3
  <2>. QED  BY <2>1, <2>2
<1>4. \A k \in 1 .. n : Script[k].op \in {"create", "reference", "index", "commit"}
  BY <1>1
<1>. QED  BY <1>2, <1>3, <1>4

(* Everything of the schema has its statement, all before the COMMIT.      *)
LEMMA ScriptCreatesAll ==
  /\ \A t \in ToSet(Tables) : \E n \in DOMAIN Script :
       Script[n].op = "create" /\ Creates(Script[n]) = <<"create", t.name>>
  /\ \A i \in ToSet(Indexes) : \E n \in DOMAIN Script :
       Script[n].op = "index" /\ Creates(Script[n]) = <<"index", i>>
  /\ \A k, n \in DOMAIN Script :
       Script[k].op = "commit" /\ Script[n].op # "commit" => n < k
<1>. DEFINE A == CreateTables(Tables)
            B == CreateIndexes(Indexes)
            parts == [k \in DOMAIN Tables |-> CreateTable(Tables[k])]
            S == UNION {ToSet(CreateTable(t)) : t \in ToSet(Tables)}
            R == ToSet(A) \cup ToSet(B) \cup ToSet(Commit)
<1>1. DOMAIN Tables = 1 .. Len(Tables) /\ Len(Tables) \in Nat  BY TablesType
<1>2. ASSUME NEW t \in ToSet(Tables)
      PROVE  IsList(CreateTable(t)) /\ CreateTable(t) \in Seq(S)
  <2>1. ToSet(CreateTable(t)) \subseteq S  OBVIOUS
  <2>2. IsList(CreateTable(t))  BY TablesType, ListedShaped, CreateTableType DEF ToSet
  <2>. QED  BY <2>1, <2>2, ListWithin
<1>3. parts \in Seq(Seq(S)) /\ Len(parts) = Len(Tables)
  <2>1. parts \in [1 .. Len(Tables) -> Seq(S)]  BY <1>1, <1>2 DEF ToSet
  <2>. HIDE DEF parts, S
  <2>. QED  BY <1>1, <2>1, ListType
<1>. HIDE DEF S
<1>4. ASSUME NEW t \in ToSet(Tables)
      PROVE  [op |-> "create", table |-> t.name, object |-> t] \in ToSet(A)
  <2>. DEFINE references == [i \in DOMAIN t.foreignKeys |->
                [op |-> "reference", table |-> t.foreignKeys[i].table, object |-> t]]
              s == [op |-> "create", table |-> t.name, object |-> t]
  <2>1. PICK k \in 1 .. Len(Tables) : t = Tables[k]  BY <1>1 DEF ToSet
  <2>2. parts[k] = CreateTable(t)  BY <1>1, <2>1
  <2>3. ToSet(CreateTable(t)) \subseteq ToSet(A)
    <3>. HIDE DEF parts
    <3>. QED  BY <1>3, <2>2, FlattenSeqHas DEF CreateTables, parts
  <2>4. s \in ToSet(CreateTable(t))
    <3>1. DOMAIN t.foreignKeys = 1 .. Len(t.foreignKeys) /\ Len(t.foreignKeys) \in Nat
      BY TablesType, ListedShaped DEF Shaped, ToSet
    <3>2. references \in Seq({references[i] : i \in 1 .. Len(t.foreignKeys)})
      <4>1. references \in [1 .. Len(t.foreignKeys) -> {references[i] : i \in 1 .. Len(t.foreignKeys)}]
        BY <3>1
      <4>. HIDE DEF references
      <4>. QED  BY <3>1, <4>1, ListType
    <3>3. IsList(references)  BY <3>2, ListOf
    <3>. HIDE DEF references, s
    <3>4. IsList(<<s>>) /\ Len(<<s>>) = 1 /\ <<s>>[1] = s  BY ListLiteral
    <3>5. CreateTable(t) = <<s>> \o references  BY DEF CreateTable, s, references
    <3>6. CreateTable(t)[1] = s /\ Len(CreateTable(t)) = 1 + Len(references)
      BY <3>3, <3>4, <3>5, ListConcat
    <3>7. DOMAIN CreateTable(t) = 1 .. Len(CreateTable(t)) /\ Len(references) \in Nat
      BY <1>2, <3>3 DEF IsList
    <3>. QED  BY <3>6, <3>7 DEF ToSet
  <2>. QED  BY <2>3, <2>4
<1>5. ASSUME NEW i \in ToSet(Indexes) PROVE CreateIndex(i) \in ToSet(B)
  BY DEF CreateIndexes, ToSet
<1>6. IsList(A)  BY CreateTablesType
<1>7. IsList(B)
  <2>1. DOMAIN Indexes = 1 .. Len(Indexes) /\ Len(Indexes) \in Nat
    BY IndexesList DEF IsList
  <2>2. B \in [1 .. Len(Indexes) -> {CreateIndex(i) : i \in ToSet(Indexes)}]
    BY <2>1 DEF CreateIndexes, ToSet
  <2>. HIDE DEF B
  <2>. QED  BY <2>1, <2>2, ListType, ListOf
<1>8. ToSet(A) \cup ToSet(B) \subseteq ToSet(Script)
  <2>1. IsList(Commit)  BY ListLiteral DEF Commit
  <2>2. ToSet(A) \subseteq R /\ ToSet(B) \subseteq R /\ ToSet(Commit) \subseteq R  OBVIOUS
  <2>. HIDE DEF A, B, R
  <2>3. A \in Seq(R) /\ B \in Seq(R) /\ Commit \in Seq(R)
    BY <1>6, <1>7, <2>1, <2>2, ListWithin
  <2>4. A \o B \in Seq(R) /\ Script = (A \o B) \o Commit  BY <2>3 DEF Script, A, B
  <2>. QED  BY <2>3, <2>4, ConcatHas
<1>. HIDE DEF A, B
<1>9. ASSUME NEW t \in ToSet(Tables)
      PROVE  \E n \in DOMAIN Script :
               Script[n].op = "create" /\ Creates(Script[n]) = <<"create", t.name>>
  BY <1>4, <1>8 DEF ToSet, Creates
<1>10. ASSUME NEW i \in ToSet(Indexes)
       PROVE  \E n \in DOMAIN Script :
                Script[n].op = "index" /\ Creates(Script[n]) = <<"index", i>>
  BY <1>5, <1>8 DEF ToSet, Creates, CreateIndex
<1>11. ASSUME NEW k \in DOMAIN Script, NEW n \in DOMAIN Script,
              Script[k].op = "commit", Script[n].op # "commit"
       PROVE  n < k
  <2>. PICK c, m \in Nat :
         /\ c < m /\ DOMAIN Script = 1 .. m
         /\ \A j \in 1 .. c : Script[j].op \in {"create", "reference"}
         /\ \A j \in c + 1 .. m - 1 : Script[j].op = "index"
         /\ Script[m].op = "commit"
    BY ScriptShape
  <2>1. \A j \in 1 .. m : j \in 1 .. c \/ j \in c + 1 .. m - 1 \/ j = m  OBVIOUS
  <2>2. k = m  BY <1>11, <2>1
  <2>3. n # m  BY <1>11
  <2>. QED  BY <2>1, <2>2, <2>3
<1>. QED  BY <1>9, <1>10, <1>11

-------------------------------------------------------------------------------
(* Every step keeps the invariant.                                         *)

LEMMA InitInv == BootInit => BootInv
<1> SUFFICES ASSUME BootInit PROVE BootInv  OBVIOUS
<1>1. BootTypeOK  BY MaxStartsAssumption DEF BootInit, BootTypeOK
<1>2. WellFormed  BY DEF BootInit, WellFormed, Nowhere
<1>3. \A p \in Processes : Made(p) /\ Passed(p) /\ Holds(p) /\ Collided(p)
  BY DEF BootInit, Made, Passed, Holds, Collided, Applying
<1>4. Valid  BY DEF BootInit, Valid
<1>. QED  BY <1>1, <1>2, <1>3, <1>4 DEF BootInv

LEMMA InstallInv == BootInv /\ Install => BootInv'
<1> SUFFICES ASSUME BootInv, Install PROVE BootInv'  OBVIOUS
<1>1. BootTypeOK'  BY DEF BootInv, BootTypeOK, Install
<1>2. WellFormed'  BY FoundAssumption DEF Install, WellFormed
<1>3. \A p \in Processes : made[p] = {} /\ locks[p] = {}  BY DEF BootInv, BootTypeOK, Install
<1>4. ASSUME NEW p \in Processes PROVE Made(p)' /\ Passed(p)' /\ Holds(p)' /\ Collided(p)'
  BY <1>3 DEF Install, Made, Passed, Holds, Collided, Applying
<1>5. Valid'  BY DEF Install, Valid
<1>. QED  BY <1>1, <1>2, <1>4, <1>5 DEF BootInv

(* The other processes, at a step of p that adds nothing to the catalog.   *)
LEMMA Others ==
  ASSUME BootInv, NEW p \in Processes, NEW q \in Processes \ {p},
         catalog' = catalog, line'[q] = line[q], stage'[q] = stage[q], locks'[q] = locks[q],
         \A r \in Processes \ {p} : made'[r] = made[r],
         \A m \in made[q] : m \notin made'[p]
  PROVE  Made(q)' /\ Passed(q)' /\ Holds(q)' /\ Collided(q)'
<1>1. Made(q) /\ Passed(q) /\ Holds(q) /\ Collided(q)  BY DEF BootInv
<1>2. made'[q] = made[q]  OBVIOUS
<1>3. \A r \in Processes \ {q} : \A m \in made[q] : m \notin made'[r]  BY <1>1 DEF Made
<1>4. \A m : Exists(m)' = Exists(m)  BY DEF Exists, IndexThere, Named
<1>5. Made(q)'  BY <1>1, <1>2, <1>3, <1>4 DEF Made
<1>6. Passed(q)'  BY <1>1, <1>2, <1>4 DEF Passed, Applying
<1>7. Holds(q)' /\ Collided(q)'  BY <1>1, <1>2 DEF Holds, Collided, Applying
<1>. QED  BY <1>5, <1>6, <1>7

LEMMA StartInv ==
  ASSUME BootInv, NEW p \in Processes, Start(p)
  PROVE  BootInv'
<1>1. BootTypeOK'  BY ScriptFacts, MaxStartsAssumption DEF BootInv, BootTypeOK, Start
<1>2. WellFormed'  BY DEF BootInv, WellFormed, Start
<1>3. made[p] = {} /\ locks[p] = {}  BY DEF BootInv, BootTypeOK, Start
<1>4. ASSUME NEW q \in Processes PROVE Made(q)' /\ Passed(q)' /\ Holds(q)' /\ Collided(q)'
  <2>1. CASE q = p
    <3>1. line'[p] = 1 /\ stage'[p] = "apply" /\ made'[p] = {} /\ locks'[p] = {}
      BY <1>3 DEF BootInv, BootTypeOK, Start
    <3>. QED  BY <2>1, <3>1, ScriptFacts DEF Made, Passed, Holds, Collided
  <2>2. CASE q # p
    <3>1. /\ line'[q] = line[q] /\ stage'[q] = stage[q]
          /\ made' = made /\ locks' = locks /\ catalog' = catalog
      BY <2>2 DEF BootInv, BootTypeOK, Start
    <3>2. \A m \in made[q] : m \notin made'[p]  BY <1>3, <3>1
    <3>. QED  BY <2>2, <3>1, <3>2, Others
  <2>. QED  BY <2>1, <2>2
<1>5. Valid'  BY DEF BootInv, BootTypeOK, Valid, ValidSchema, Start
<1>. QED  BY <1>1, <1>2, <1>4, <1>5 DEF BootInv

(* What p creates is new, to the catalog and to everybody.                 *)
LEMMA MakeInv ==
  ASSUME BootInv, NEW p \in Processes, NEW k \in DOMAIN Script,
         Applying(p), line[p] <= k, Script[k].op \in Creating,
         \A n \in line[p] .. k - 1 :
           n \in DOMAIN Script /\ Script[n].op \in Creating => Exists(Creates(Script[n])),
         ~Exists(Creates(Script[k])), ~Collides(p, Script[k]),
         catalog' = catalog,
         made' = [made EXCEPT ![p] = @ \cup {Creates(Script[k])}],
         line' = [line EXCEPT ![p] = k + 1],
         stage'[p] = "apply",
         \A l \in locks'[p] :
           l \in locks[p] \/ (l[1] = "share" /\ Script[k].op = "index")
  PROVE  Made(p)' /\ Passed(p)' /\ Holds(p)' /\ Collided(p)'
<1>. DEFINE new == Creates(Script[k])
<1>1. /\ Made(p) /\ Passed(p) /\ Holds(p)
      /\ line[p] \in Nat \ {0} /\ made'[p] = made[p] \cup {new}
      /\ line'[p] = k + 1 /\ k \in Nat \ {0}
  BY ScriptFacts DEF BootInv, BootTypeOK
<1>2. \A m : Exists(m)' = Exists(m)  BY DEF Exists, IndexThere, Named
<1>3. \A r \in Processes \ {p} : new \notin made[r] /\ made'[r] = made[r]
  BY DEF Collides, BootInv, BootTypeOK
<1>4. Made(p)'
  <2> SUFFICES ASSUME NEW m \in made'[p]
               PROVE  /\ ~Exists(m)
                      /\ \A r \in Processes \ {p} : m \notin made'[r]
                      /\ \E n \in DOMAIN Script :
                           n < line'[p] /\ Script[n].op \in Creating /\ m = Creates(Script[n])
    BY <1>2 DEF Made
  <2>1. CASE m = new  BY <1>1, <1>3, <2>1
  <2>2. CASE m \in made[p]
    <3>1. PICK n \in DOMAIN Script :
            n < line[p] /\ Script[n].op \in Creating /\ m = Creates(Script[n])
      BY <1>1, <2>2 DEF Made
    <3>2. n < k + 1  BY <1>1, <3>1, ScriptFacts
    <3>. QED  BY <1>1, <1>3, <2>2, <3>1, <3>2 DEF Made
  <2>. QED  BY <1>1, <2>1, <2>2
<1>5. Passed(p)'
  <2> SUFFICES ASSUME NEW n \in DOMAIN Script, n < k + 1, Script[n].op \in Creating
               PROVE  Exists(Creates(Script[n])) \/ Creates(Script[n]) \in made'[p]
    BY <1>1, <1>2 DEF Passed
  <2>1. n \in Nat  BY ScriptFacts
  <2>2. CASE n < line[p]  BY <1>1, <2>2 DEF Passed
  <2>3. CASE n \in line[p] .. k - 1  BY <2>3
  <2>4. CASE n = k  BY <1>1, <2>4
  <2>. QED  BY <1>1, <2>1, <2>2, <2>3, <2>4
<1>6. Holds(p)'
  <2> SUFFICES ASSUME NEW l \in locks'[p]
               PROVE  \/ l[1] = "share row exclusive" /\ \E m \in made'[p] : m[1] = "create"
                      \/ /\ l[1] = "share"
                         /\ \E n \in DOMAIN Script : n <= line'[p] /\ Script[n].op = "index"
    BY DEF Holds
  <2>1. CASE l[1] = "share" /\ Script[k].op = "index"  BY <1>1, <2>1
  <2>2. CASE l \in locks[p]
    <3>1. CASE l[1] = "share row exclusive" /\ \E m \in made[p] : m[1] = "create"
      BY <1>1, <3>1
    <3>2. CASE l[1] = "share" /\ \E n \in DOMAIN Script : n <= line[p] /\ Script[n].op = "index"
      BY <1>1, <3>2, ScriptFacts
    <3>. QED  BY <1>1, <2>2, <3>1, <3>2 DEF Holds
  <2>. QED  BY <2>1, <2>2
<1>7. Collided(p)'  BY DEF Collided
<1>. QED  BY <1>4, <1>5, <1>6, <1>7

LEMMA ReachesInv ==
  ASSUME BootInv, NEW p \in Processes, NEW k \in DOMAIN Script, Reaches(p, k, Script)
  PROVE  /\ Applying(p) /\ stage[p] = "apply" /\ line[p] <= k
         /\ \A n \in line[p] .. k - 1 :
              n \in DOMAIN Script /\ Script[n].op \in Creating => Exists(Creates(Script[n]))
BY DEF Reaches, Idle, Applying, Creating, Creates, Exists

(* An object that is not in the catalog, created or collided with.         *)
LEMMA MakeStep ==
  ASSUME BootInv, NEW p \in Processes, NEW k \in DOMAIN Script, Reaches(p, k, Script),
         Make(p, k, Script[k]), Script[k].op \in Creating, ~Exists(Creates(Script[k])),
         UNCHANGED <<catalog, writing, starts>>,
         \/ locks' = locks
         \/ /\ Script[k].op = "index"
            /\ locks' = [locks EXCEPT ![p] = @ \cup {<<"share", Script[k].table>>}]
  PROVE  BootInv'
<1>. DEFINE s == Script[k]
<1>1. /\ Applying(p) /\ stage[p] = "apply" /\ line[p] <= k
      /\ \A n \in line[p] .. k - 1 :
           n \in DOMAIN Script /\ Script[n].op \in Creating => Exists(Creates(Script[n]))
  BY ReachesInv
<1>2. k \in Nat \ {0} /\ k + 1 \in DOMAIN Script /\ k + 1 \in Nat \ {0}
  BY ScriptFacts DEF Creating
<1>3. /\ line \in [Processes -> Nat \ {0}] /\ DOMAIN locks = Processes
      /\ stage \in [Processes -> {"uninstalled", "down", "apply", "collides", "validate",
                                  "working", "page"}]
      /\ made \in [Processes -> SUBSET {Creates(Script[n]) : n \in DOMAIN Script}]
  BY DEF BootInv, BootTypeOK, Creatable, Writable
<1>4. /\ \A q \in Processes \ {p} : locks'[q] = locks[q]
      /\ \A l \in locks'[p] : l \in locks[p] \/ (l[1] = "share" /\ s.op = "index")
      /\ DOMAIN locks' = Processes
  BY <1>3
<1>5. WellFormed' /\ catalog' = catalog  BY DEF BootInv, WellFormed
<1>6. CASE Collides(p, s)
  <2>1. /\ stage' = [stage EXCEPT ![p] = "collides"] /\ line' = [line EXCEPT ![p] = k]
        /\ made' = made
    BY <1>6 DEF Make
  <2>2. BootTypeOK'  BY <1>1, <1>2, <1>4, <2>1 DEF BootInv, BootTypeOK
  <2>3. ASSUME NEW q \in Processes \ {p} PROVE Made(q)' /\ Passed(q)' /\ Holds(q)' /\ Collided(q)'
    <3>1. \A m \in made[q] : m \notin made[p]  BY DEF BootInv, Made
    <3>. QED  BY <1>3, <1>4, <1>5, <2>1, <3>1, Others
  <2>4. Made(p)' /\ Passed(p)' /\ Holds(p)' /\ Collided(p)'
    <3>1. Made(p) /\ Passed(p) /\ Holds(p) /\ line[p] \in Nat  BY <1>3 DEF BootInv
    <3>2. line'[p] = k /\ stage'[p] = "collides" /\ made'[p] = made[p]
      BY <1>3, <2>1
    <3>3. \A m : Exists(m)' = Exists(m)  BY <2>1 DEF Exists, IndexThere, Named
    <3>4. \A n \in DOMAIN Script : n \in Nat  BY ScriptFacts
    <3>5. Made(p)'  BY <1>1, <1>2, <2>1, <3>1, <3>2, <3>3, <3>4 DEF Made
    <3>6. Passed(p)'
      <4> SUFFICES ASSUME NEW n \in DOMAIN Script, n < k, Script[n].op \in Creating
                   PROVE  Exists(Creates(Script[n])) \/ Creates(Script[n]) \in made[p]
        BY <3>2, <3>3 DEF Passed
      <4>1. n < line[p] \/ n \in line[p] .. k - 1  BY <1>2, <3>1, <3>4
      <4>. QED  BY <1>1, <3>1, <4>1 DEF Passed
    <3>7. Holds(p)'
      <4> SUFFICES ASSUME NEW l \in locks'[p]
                   PROVE  \/ l[1] = "share row exclusive" /\ \E m \in made[p] : m[1] = "create"
                          \/ /\ l[1] = "share"
                             /\ \E n \in DOMAIN Script : n <= k /\ Script[n].op = "index"
        BY <3>2 DEF Holds
      <4>1. \A n \in DOMAIN Script : n <= line[p] => n <= k  BY <1>1, <1>2, <3>1, <3>4
      <4>2. CASE l \in locks[p]  BY <1>1, <3>1, <4>1, <4>2 DEF Holds
      <4>3. CASE l[1] = "share" /\ s.op = "index"  BY <1>2, <4>3
      <4>. QED  BY <1>4, <4>2, <4>3
    <3>. QED  BY <3>2, <3>5, <3>6, <3>7 DEF Collided
  <2>5. Valid'
    <3>1. \A q \in Processes : stage'[q] \in {"working", "page"} => stage[q] \in {"working", "page"}
      BY <1>3, <2>1
    <3>2. ValidSchema' = ValidSchema  BY <1>5 DEF ValidSchema, Named
    <3>. QED  BY <3>1, <3>2 DEF BootInv, Valid
  <2>. QED  BY <1>5, <2>2, <2>3, <2>4, <2>5 DEF BootInv
<1>7. CASE ~Collides(p, s)
  <2>1. /\ made' = [made EXCEPT ![p] = @ \cup {Creates(s)}] /\ line' = [line EXCEPT ![p] = k + 1]
        /\ stage' = stage
    BY <1>7 DEF Make
  <2>2. BootTypeOK'
    <3>1. made' \in [Processes -> SUBSET {Creates(Script[n]) : n \in DOMAIN Script}]
      BY <1>3, <2>1
    <3>2. line' \in [Processes -> Nat \ {0}]  BY <1>2, <1>3, <2>1
    <3>. QED  BY <1>1, <1>2, <1>3, <1>4, <2>1, <3>1, <3>2 DEF BootInv, BootTypeOK, Creatable, Writable
  <2>3. ASSUME NEW q \in Processes \ {p} PROVE Made(q)' /\ Passed(q)' /\ Holds(q)' /\ Collided(q)'
    <3>1. made'[p] = made[p] \cup {Creates(s)}  BY <1>3, <2>1
    <3>2. \A m \in made[q] : m \notin made'[p]  BY <1>7, <3>1 DEF BootInv, Made, Collides
    <3>. QED  BY <1>3, <1>4, <1>5, <2>1, <3>2, Others
  <2>4. Made(p)' /\ Passed(p)' /\ Holds(p)' /\ Collided(p)'
    <3>1. stage'[p] = "apply"  BY <1>1, <2>1
    <3>. QED  BY <1>1, <1>4, <1>5, <1>7, <2>1, <3>1, MakeInv
  <2>5. Valid'
    <3>2. ValidSchema' = ValidSchema  BY <1>5 DEF ValidSchema, Named
    <3>. QED  BY <2>1, <3>2 DEF BootInv, Valid
  <2>. QED  BY <1>5, <2>2, <2>3, <2>4, <2>5 DEF BootInv
<1>. QED  BY <1>6, <1>7

LEMMA ApplyCreateInv ==
  ASSUME BootInv, NEW p \in Processes, NEW k \in DOMAIN Script, Reaches(p, k, Script),
         ApplyCreate(p, k, Script[k])
  PROVE  BootInv'
<1>1. ~Exists(Creates(Script[k]))
  BY DEF ApplyCreate, Reaches, Idle, Exists, Creates
<1>2. Script[k].op \in Creating  BY DEF ApplyCreate, Creating
<1>. QED  BY <1>1, <1>2, MakeStep DEF ApplyCreate

(* A statement that creates nothing, or finds its object there.            *)
LEMMA PassStep ==
  ASSUME BootInv, NEW p \in Processes, NEW k \in DOMAIN Script, Reaches(p, k, Script),
         Script[k].op # "commit",
         Script[k].op \in Creating => Exists(Creates(Script[k])),
         line' = [line EXCEPT ![p] = k + 1],
         NEW mode, locks' = [locks EXCEPT ![p] = @ \cup {<<mode, Script[k].table>>}],
         \/ mode = "share" /\ Script[k].op = "index"
         \/ mode = "share row exclusive" /\ \E m \in made[p] : m[1] = "create",
         UNCHANGED <<catalog, stage, writing, made, starts>>
  PROVE  BootInv'
<1>1. /\ Applying(p) /\ stage[p] = "apply" /\ line[p] <= k
      /\ \A n \in line[p] .. k - 1 :
           n \in DOMAIN Script /\ Script[n].op \in Creating => Exists(Creates(Script[n]))
  BY ReachesInv
<1>2. k \in Nat \ {0} /\ k + 1 \in DOMAIN Script /\ k + 1 \in Nat \ {0}  BY ScriptFacts
<1>3. line \in [Processes -> Nat \ {0}] /\ DOMAIN locks = Processes
  BY DEF BootInv, BootTypeOK
<1>4. \A q \in Processes \ {p} : locks'[q] = locks[q] /\ line'[q] = line[q]  BY <1>3
<1>5. locks'[p] = locks[p] \cup {<<mode, Script[k].table>>} /\ line'[p] = k + 1  BY <1>3
<1>6. BootTypeOK'
  <2>1. line' \in [Processes -> Nat \ {0}] /\ DOMAIN locks' = Processes  BY <1>2, <1>3
  <2>. QED  BY <1>1, <1>2, <1>4, <1>5, <2>1 DEF BootInv, BootTypeOK
<1>7. WellFormed' /\ Valid'  BY DEF BootInv, WellFormed, Valid, ValidSchema, Named
<1>8. ASSUME NEW q \in Processes \ {p} PROVE Made(q)' /\ Passed(q)' /\ Holds(q)' /\ Collided(q)'
  <2>1. \A m \in made[q] : m \notin made'[p]  BY DEF BootInv, Made
  <2>. QED  BY <1>4, <2>1, Others
<1>9. Made(p) /\ Passed(p) /\ Holds(p) /\ line[p] \in Nat  BY <1>3 DEF BootInv
<1>10. \A m : Exists(m)' = Exists(m)  BY DEF Exists, IndexThere, Named
<1>11. \A n \in DOMAIN Script : n \in Nat  BY ScriptFacts
<1>12. \A n \in DOMAIN Script : n <= line[p] => n < k + 1  BY ONLY <1>1, <1>2, <1>9, <1>11
<1>13. Made(p)'
  <2>1. \A n \in DOMAIN Script : n < line[p] => n < k + 1  BY ONLY <1>1, <1>2, <1>9, <1>11
  <2>. QED  BY <1>5, <1>9, <1>10, <2>1 DEF Made
<1>14. Passed(p)'
  <2>0. SUFFICES ASSUME NEW n \in DOMAIN Script, n < k + 1, Script[n].op \in Creating
               PROVE  Exists(Creates(Script[n])) \/ Creates(Script[n]) \in made[p]
    BY <1>5, <1>10 DEF Passed
  <2>1. n < line[p] \/ n \in line[p] .. k - 1 \/ n = k  BY ONLY <1>2, <1>9, <1>11, <2>0
  <2>. QED  BY <1>1, <1>9, <2>0, <2>1 DEF Passed
<1>15. Holds(p)'
  <2> SUFFICES ASSUME NEW l \in locks'[p]
               PROVE  \/ l[1] = "share row exclusive" /\ \E m \in made[p] : m[1] = "create"
                      \/ /\ l[1] = "share"
                         /\ \E n \in DOMAIN Script : n <= k + 1 /\ Script[n].op = "index"
    BY <1>1, <1>5 DEF Holds
  <2>1. \A n \in DOMAIN Script : n <= line[p] => n <= k + 1  BY ONLY <1>1, <1>2, <1>9, <1>11
  <2>2. CASE l \in locks[p]  BY <1>1, <1>9, <2>1, <2>2 DEF Holds
  <2>3. CASE l = <<mode, Script[k].table>>
    <3>1. l[1] = mode  BY <2>3
    <3>2. k <= k + 1  BY ONLY <1>2
    <3>. QED  BY <3>1, <3>2
  <2>. QED  BY <1>5, <2>2, <2>3
<1>16. Collided(p)'  BY <1>1 DEF Collided
<1>. QED  BY <1>6, <1>7, <1>8, <1>13, <1>14, <1>15, <1>16 DEF BootInv

LEMMA ApplyReferenceInv ==
  ASSUME BootInv, NEW p \in Processes, NEW k \in DOMAIN Script, Reaches(p, k, Script),
         ApplyReference(p, k, Script[k])
  PROVE  BootInv'
<1>1. <<"create", Script[k].object.name>> \in made[p]
  BY DEF Reaches, Idle, ApplyReference
<1>2. \E m \in made[p] : m[1] = "create"  BY <1>1
<1>3. Script[k].op # "commit" /\ Script[k].op \notin Creating  BY DEF ApplyReference, Creating
<1>. QED  BY <1>2, <1>3, PassStep DEF ApplyReference

LEMMA ApplyIndexInv ==
  ASSUME BootInv, NEW p \in Processes, NEW k \in DOMAIN Script, Reaches(p, k, Script),
         ApplyIndex(p, k, Script[k])
  PROVE  BootInv'
<1>1. Script[k].op = "index" /\ Script[k].op \in Creating  BY DEF ApplyIndex, Creating
<1>2. Exists(Creates(Script[k])) <=> IndexThere(Script[k].object)
  BY <1>1 DEF Exists, Creates
<1>3. CASE IndexThere(Script[k].object)  BY <1>1, <1>2, <1>3, PassStep DEF ApplyIndex
<1>4. CASE ~IndexThere(Script[k].object)  BY <1>1, <1>2, <1>4, MakeStep DEF ApplyIndex
<1>. QED  BY <1>3, <1>4

LEMMA RecoverInv ==
  ASSUME BootInv, NEW p \in Processes, Recover(p, Script[line[p]])
  PROVE  BootInv'
<1>. DEFINE k == line[p]
            s == Script[k]
<1>1. /\ k \in DOMAIN Script /\ stage[p] = "collides" /\ s.op \in Creating /\ Applying(p)
      /\ ~Collides(p, s)
  BY DEF BootInv, BootTypeOK, Collided, Recover, Applying
<1>2. k \in Nat \ {0} /\ k + 1 \in DOMAIN Script /\ k + 1 \in Nat \ {0}
  BY <1>1, ScriptFacts DEF Creating
<1>3. /\ line \in [Processes -> Nat \ {0}] /\ DOMAIN locks = Processes
      /\ stage \in [Processes -> {"uninstalled", "down", "apply", "collides", "validate",
                                  "working", "page"}]
      /\ made \in [Processes -> SUBSET {Creates(Script[n]) : n \in DOMAIN Script}]
  BY DEF BootInv, BootTypeOK, Creatable, Writable
<1>4. ~Exists(Creates(s))
  BY <1>1 DEF Recover, Exists, Creates, Creating
<1>5. /\ stage' = [stage EXCEPT ![p] = "apply"]
      /\ made' = [made EXCEPT ![p] = @ \cup {Creates(s)}]
      /\ line' = [line EXCEPT ![p] = k + 1]
      /\ UNCHANGED <<catalog, writing, locks, starts>>
  BY <1>3 DEF Recover
<1>. HIDE DEF k
<1>6. BootTypeOK'
  <2>1. made' \in [Processes -> SUBSET {Creates(Script[n]) : n \in DOMAIN Script}]
    BY <1>1, <1>3, <1>5
  <2>2. line' \in [Processes -> Nat \ {0}] /\ line'[p] = k + 1  BY <1>2, <1>3, <1>5
  <2>3. stage'[p] = "apply"  BY <1>3, <1>5
  <2>. QED  BY <1>1, <1>2, <1>3, <1>5, <2>1, <2>2, <2>3 DEF BootInv, BootTypeOK, Creatable, Writable
<1>7. WellFormed'  BY <1>5 DEF BootInv, WellFormed
<1>8. ASSUME NEW q \in Processes \ {p} PROVE Made(q)' /\ Passed(q)' /\ Holds(q)' /\ Collided(q)'
  <2>1. made'[p] = made[p] \cup {Creates(s)}  BY <1>3, <1>5
  <2>2. \A m \in made[q] : m \notin made'[p]  BY <1>1, <2>1 DEF BootInv, Made, Collides
  <2>. QED  BY <1>3, <1>5, <2>2, Others
<1>9. Made(p)' /\ Passed(p)' /\ Holds(p)' /\ Collided(p)'
  <2>1. stage'[p] = "apply"  BY <1>3, <1>5
  <2>2. line[p] <= k /\ \A n \in line[p] .. k - 1 : FALSE  BY <1>2 DEF k
  <2>3. \A l \in locks'[p] : l \in locks[p]  BY <1>5
  <2>. QED  BY <1>1, <1>4, <1>5, <2>1, <2>2, <2>3, MakeInv
<1>10. Valid'
  <2>1. ValidSchema' = ValidSchema  BY <1>5 DEF ValidSchema, Named
  <2>2. \A q \in Processes : stage'[q] \in {"working", "page"} => stage[q] \in {"working", "page"}
    BY <1>3, <1>5
  <2>. QED  BY <2>1, <2>2 DEF BootInv, Valid
<1>. QED  BY <1>6, <1>7, <1>8, <1>9, <1>10 DEF BootInv

(* The steps that neither add to the catalog nor create, and after which   *)
(* p does not apply the schema.                                            *)
LEMMA QuietStep ==
  ASSUME BootInv, NEW p \in Processes, catalog' = catalog,
         \A q \in Processes \ {p} : /\ made'[q] = made[q] /\ locks'[q] = locks[q]
                                    /\ line'[q] = line[q] /\ stage'[q] = stage[q],
         made'[p] = {}, stage'[p] \notin {"apply", "collides"},
         \A l \in locks'[p] : stage'[p] = "page" => l[1] = "row exclusive"
  PROVE  /\ WellFormed'
         /\ \A q \in Processes : Made(q)' /\ Passed(q)' /\ Holds(q)' /\ Collided(q)'
         /\ ValidSchema' = ValidSchema
<1>1. WellFormed' /\ ValidSchema' = ValidSchema
  BY DEF BootInv, WellFormed, ValidSchema, Named
<1>2. ASSUME NEW q \in Processes \ {p} PROVE Made(q)' /\ Passed(q)' /\ Holds(q)' /\ Collided(q)'
  BY Others
<1>3. Made(p)' /\ Passed(p)' /\ Holds(p)' /\ Collided(p)'
  BY DEF Made, Passed, Holds, Collided, Applying
<1>. QED  BY <1>1, <1>2, <1>3

LEMMA ValidateInv ==
  ASSUME BootInv, NEW p \in Processes, Validate(p)
  PROVE  BootInv'
<1>1. BootTypeOK'  BY DEF BootInv, BootTypeOK, Validate
<1>2. made[p] = {} /\ locks[p] = {}  BY DEF BootInv, BootTypeOK, Validate
<1>3. stage'[p] = IF ValidSchema THEN "working" ELSE "down"
  BY DEF BootInv, BootTypeOK, Validate
<1>4. \A q \in Processes \ {p} : stage'[q] = stage[q]  BY DEF BootInv, BootTypeOK, Validate
<1>5. /\ WellFormed' /\ ValidSchema' = ValidSchema
      /\ \A q \in Processes : Made(q)' /\ Passed(q)' /\ Holds(q)' /\ Collided(q)'
  <2>1. UNCHANGED <<catalog, line, locks, made>>  BY DEF Validate
  <2>. QED  BY <1>2, <1>3, <1>4, <2>1, QuietStep
<1>6. Valid'  BY <1>3, <1>4, <1>5 DEF BootInv, Valid
<1>. QED  BY <1>1, <1>5, <1>6 DEF BootInv

LEMMA PageTablesType ==
  ASSUME NEW e \in ToSet(EntityTypes)
  PROVE  PageTables(e) # <<>>
<1>. DEFINE names == [i \in DOMAIN EntityTables(e) |-> EntityTables(e)[i].name]
            first == <<SyncEntityTable.name>>
            last == <<SyncCategoryTable.name>>
<1>1. IsList(names)
  <2>1. /\ DOMAIN EntityTables(e) = 1 .. Len(EntityTables(e)) /\ Len(EntityTables(e)) \in Nat
    BY EntityTablesType
  <2>2. names \in [1 .. Len(EntityTables(e)) -> {names[i] : i \in 1 .. Len(EntityTables(e))}]
    BY <2>1
  <2>. HIDE DEF names
  <2>. QED  BY <2>1, <2>2, ListType, ListOf
<1>2. IsList(first) /\ IsList(last) /\ Len(last) = 1  BY ListLiteral
<1>. DEFINE D == first \o names
<1>3. IsList(D)  BY <1>1, <1>2, ListConcat
<1>4. PageTables(e) = D \o last  BY DEF PageTables
<1>. HIDE DEF D, last
<1>5. Len(D \o last) = Len(D) + Len(last)  BY ONLY <1>2, <1>3, ListConcat
<1>6. Len(D) \in Nat  BY <1>3 DEF IsList
<1>7. Len(D \o last) # 0  BY ONLY <1>2, <1>5, <1>6
<1>. QED  BY <1>4, <1>7

LEMMA OpenPageInv ==
  ASSUME BootInv, NEW p \in Processes, OpenPage(p)
  PROVE  BootInv'
<1>1. PICK e \in ToSet(EntityTypes) : writing' = [writing EXCEPT ![p] = PageTables(e)]
  BY DEF OpenPage
<1>2. PageTables(e) # <<>>  BY PageTablesType
<1>3. /\ line' = [line EXCEPT ![p] = 1] /\ stage' = [stage EXCEPT ![p] = "page"]
      /\ stage[p] = "working" /\ UNCHANGED <<catalog, locks, made, starts>>
  BY DEF OpenPage
<1>4. made[p] = {} /\ locks[p] = {}  BY <1>3 DEF BootInv, BootTypeOK
<1>5. BootTypeOK'
  <2>1. writing' \in [Processes -> {<<>>} \cup {PageTables(x) : x \in ToSet(EntityTypes)}]
    BY <1>1 DEF BootInv, BootTypeOK, Creatable, Writable
  <2>2. \A q \in Processes : writing'[q] # <<>> <=> stage'[q] = "page"
    BY <1>1, <1>2, <1>3 DEF BootInv, BootTypeOK
  <2>3. line' \in [Processes -> Nat \ {0}]  BY <1>3 DEF BootInv, BootTypeOK
  <2>. QED  BY <1>3, <1>4, <2>1, <2>2, <2>3 DEF BootInv, BootTypeOK, Creatable, Writable
<1>6. stage'[p] = "page" /\ \A q \in Processes \ {p} : stage'[q] = stage[q] /\ line'[q] = line[q]
  BY <1>3 DEF BootInv, BootTypeOK
<1>7. /\ WellFormed' /\ ValidSchema' = ValidSchema
      /\ \A q \in Processes : Made(q)' /\ Passed(q)' /\ Holds(q)' /\ Collided(q)'
  BY <1>3, <1>4, <1>6, QuietStep
<1>8. Valid'  BY <1>3, <1>6, <1>7 DEF BootInv, Valid
<1>. QED  BY <1>5, <1>7, <1>8 DEF BootInv

LEMMA PageLocksInv ==
  ASSUME BootInv, NEW p \in Processes, PageLocks(p)
  PROVE  BootInv'
<1>. DEFINE table == writing[p][line[p]]
<1>1. /\ locks' = [locks EXCEPT ![p] = @ \cup {<<"row exclusive", table>>}]
      /\ line' = [line EXCEPT ![p] = line[p] + 1] /\ stage[p] = "page"
      /\ UNCHANGED <<catalog, stage, writing, made, starts>>
  BY DEF PageLocks
<1>. HIDE DEF table
<1>2. /\ DOMAIN locks = Processes /\ line \in [Processes -> Nat \ {0}] /\ made[p] = {} /\ Holds(p)
  BY <1>1 DEF BootInv, BootTypeOK
<1>3. DOMAIN locks' = Processes /\ locks'[p] = locks[p] \cup {<<"row exclusive", table>>}
  BY <1>1, <1>2
<1>4. \A q \in Processes \ {p} : locks'[q] = locks[q] /\ line'[q] = line[q]  BY <1>1, <1>2
<1>5. BootTypeOK'
  <2>1. line' \in [Processes -> Nat \ {0}]
    <3>1. line[p] + 1 \in Nat \ {0}  BY ONLY <1>2
    <3>. QED  BY ONLY <1>1, <1>2, <3>1
  <2>2. \A q \in Processes : stage[q] \in {"apply", "collides"} => line'[q] = line[q]
    BY <1>1, <1>4
  <2>. QED  BY <1>1, <1>3, <1>4, <2>1, <2>2 DEF BootInv, BootTypeOK
<1>6. \A l \in locks'[p] : l[1] = "row exclusive"
  <2>1. \A l \in locks[p] : l[1] = "row exclusive"  BY <1>1, <1>2 DEF Holds
  <2>2. ASSUME NEW l, l = <<"row exclusive", table>> PROVE l[1] = "row exclusive"  BY <2>2
  <2>. QED  BY ONLY <1>3, <2>1, <2>2
<1>7. /\ WellFormed' /\ ValidSchema' = ValidSchema
      /\ \A q \in Processes : Made(q)' /\ Passed(q)' /\ Holds(q)' /\ Collided(q)'
  BY <1>1, <1>2, <1>4, <1>6, QuietStep
<1>8. Valid'  BY <1>1, <1>7 DEF BootInv, Valid
<1>. QED  BY <1>5, <1>7, <1>8 DEF BootInv

LEMMA ClosePageInv ==
  ASSUME BootInv, NEW p \in Processes, ClosePage(p)
  PROVE  BootInv'
<1>1. BootTypeOK'  BY DEF BootInv, BootTypeOK, ClosePage
<1>2. /\ stage[p] = "page" /\ stage'[p] = "working" /\ locks'[p] = {} /\ made'[p] = {}
      /\ \A q \in Processes \ {p} : stage'[q] = stage[q] /\ locks'[q] = locks[q]
      /\ catalog' = catalog /\ made' = made /\ line' = line
  BY DEF BootInv, BootTypeOK, ClosePage
<1>3. /\ WellFormed' /\ ValidSchema' = ValidSchema
      /\ \A q \in Processes : Made(q)' /\ Passed(q)' /\ Holds(q)' /\ Collided(q)'
  BY <1>2, QuietStep
<1>4. Valid'  BY <1>2, <1>3 DEF BootInv, Valid
<1>. QED  BY <1>1, <1>3, <1>4 DEF BootInv

LEMMA DownInv ==
  ASSUME BootInv, NEW p \in Processes, EndWork(p) \/ Abort(p)
  PROVE  BootInv'
<1>1. BootTypeOK'
  <2>1. CASE EndWork(p)  BY <2>1 DEF BootInv, BootTypeOK, EndWork
  <2>2. CASE Abort(p)  BY <2>2 DEF BootInv, BootTypeOK, Abort
  <2>. QED  BY <2>1, <2>2
<1>2. /\ stage'[p] = "down" /\ locks'[p] = {} /\ made'[p] = {}
      /\ \A q \in Processes \ {p} : /\ stage'[q] = stage[q] /\ locks'[q] = locks[q]
                                    /\ made'[q] = made[q]
      /\ catalog' = catalog /\ line' = line
  <2>1. CASE EndWork(p)  BY <2>1 DEF BootInv, BootTypeOK, EndWork
  <2>2. CASE Abort(p)  BY <2>2 DEF BootInv, BootTypeOK, Abort
  <2>. QED  BY <2>1, <2>2
<1>3. /\ WellFormed' /\ ValidSchema' = ValidSchema
      /\ \A q \in Processes : Made(q)' /\ Passed(q)' /\ Holds(q)' /\ Collided(q)'
  BY <1>2, QuietStep
<1>4. Valid'  BY <1>2, <1>3 DEF BootInv, Valid
<1>. QED  BY <1>1, <1>3, <1>4 DEF BootInv

(* Nobody has created what another one commits; while somebody works, all  *)
(* is there and nothing new comes.                                         *)
LEMMA CommitInv ==
  ASSUME BootInv, NEW p \in Processes, NEW k \in DOMAIN Script, Reaches(p, k, Script),
         CommitSchema(p, Script[k])
  PROVE  BootInv'
<1>. DEFINE tables == catalog.tables \cup {t \in ToSet(Tables) : <<"create", t.name>> \in made[p]}
            indexes == catalog.indexes
                       \cup {<<i, i.columns>> : i \in {x \in ToSet(Indexes) : <<"index", x>> \in made[p]}}
<1>1. /\ catalog'.tables = tables /\ catalog'.indexes = indexes
      /\ stage' = [stage EXCEPT ![p] = "validate"] /\ locks' = [locks EXCEPT ![p] = {}]
      /\ made' = [made EXCEPT ![p] = {}] /\ UNCHANGED <<line, writing, starts>>
      /\ stage[p] = "apply"
  BY DEF CommitSchema, Visible, Reaches
<1>2. /\ DOMAIN locks = Processes
      /\ stage \in [Processes -> {"uninstalled", "down", "apply", "collides", "validate",
                                  "working", "page"}]
      /\ made \in [Processes -> SUBSET {Creates(Script[n]) : n \in DOMAIN Script}]
  BY DEF BootInv, BootTypeOK, Creatable, Writable
<1>3. /\ stage'[p] = "validate" /\ locks'[p] = {} /\ made'[p] = {}
      /\ \A q \in Processes \ {p} : /\ stage'[q] = stage[q] /\ locks'[q] = locks[q]
                                    /\ made'[q] = made[q] /\ line'[q] = line[q]
  BY <1>1, <1>2
<1>4. BootTypeOK'  BY <1>1, <1>3 DEF BootInv, BootTypeOK
<1>5. Made(p) /\ WellFormed  BY DEF BootInv
<1>6. ASSUME NEW t \in ToSet(Tables), <<"create", t.name>> \in made[p]
      PROVE  Named(catalog.tables, t.name) = {}
  <2>1. ~Exists(<<"create", t.name>>)  BY <1>5, <1>6 DEF Made
  <2>. QED  BY <2>1 DEF Exists
<1>7. ASSUME NEW i, <<"index", i>> \in made[p] PROVE ~IndexThere(i)
  <2>1. ~Exists(<<"index", i>>)  BY <1>5, <1>7 DEF Made
  <2>. QED  BY <2>1 DEF Exists
<1>8. WellFormed'
  <2>1. ASSUME NEW t \in tables, NEW u \in tables, t.name = u.name PROVE t = u
    <3>1. ASSUME NEW v \in ToSet(Tables), NEW w \in ToSet(Tables), v.name = w.name
          PROVE  v = w
      BY <3>1, NamesAssumption DEF ToSet
    <3>2. ASSUME NEW v \in ToSet(Tables), <<"create", v.name>> \in made[p],
                 NEW w \in catalog.tables
          PROVE  v.name # w.name
      BY <1>6, <3>2 DEF Named
    <3>3. CASE t \in catalog.tables /\ u \in catalog.tables  BY <1>5, <2>1, <3>3 DEF WellFormed
    <3>. QED  BY <2>1, <3>1, <3>2, <3>3
  <2>2. ASSUME NEW x \in indexes PROVE x = <<x[1], x[2]>>
    <3>1. CASE x \in catalog.indexes  BY <1>5, <3>1 DEF WellFormed
    <3>2. CASE x \notin catalog.indexes
      <4>1. PICK i : x = <<i, i.columns>>  BY <3>2
      <4>. QED  BY <4>1
    <3>. QED  BY <3>1, <3>2
  <2>. HIDE DEF tables, indexes
  <2>. QED  BY <1>1, <2>1, <2>2 DEF WellFormed
<1>9. \A m : Exists(m) => Exists(m)'
  BY <1>1 DEF Exists, Named, IndexThere
<1>10. ASSUME NEW q \in Processes \ {p} PROVE Made(q)' /\ Passed(q)' /\ Holds(q)' /\ Collided(q)'
  <2>1. Made(q) /\ Passed(q) /\ Holds(q) /\ Collided(q)  BY DEF BootInv
  <2>2. ASSUME NEW m \in made[q] PROVE ~Exists(m)'
    <3>1. ~Exists(m) /\ m \notin made[p]  BY <2>1 DEF Made
    <3>2. PICK n \in DOMAIN Script : Script[n].op \in Creating /\ m = Creates(Script[n])
      BY <2>1 DEF Made
    <3>3. m = <<m[1], m[2]>>  BY <3>2 DEF Creates
    <3>4. ASSUME m[1] = "create", NEW t \in tables, t.name = m[2] PROVE FALSE
      <4>1. CASE t \in catalog.tables  BY <3>1, <3>4, <4>1 DEF Exists, Named
      <4>2. CASE <<"create", t.name>> \in made[p]  BY <3>1, <3>3, <3>4, <4>2
      <4>. QED  BY <4>1, <4>2
    <3>5. ASSUME m[1] = "index", NEW x \in indexes, x[1] = m[2] PROVE FALSE
      <4>1. CASE x \in catalog.indexes  BY <3>1, <3>5, <4>1 DEF Exists, IndexThere
      <4>2. CASE x \notin catalog.indexes
        <5>1. PICK i : x = <<i, i.columns>> /\ <<"index", i>> \in made[p]  BY <4>2
        <5>2. x[1] = i  BY <5>1
        <5>. QED  BY <3>1, <3>3, <3>5, <5>1, <5>2
      <4>. QED  BY <4>1, <4>2
    <3>. HIDE DEF tables, indexes
    <3>. QED  BY <1>1, <3>4, <3>5 DEF Exists, Named, IndexThere
  <2>3. \A r \in Processes \ {q} : \A m \in made[q] : m \notin made'[r]  BY <1>3, <2>1 DEF Made
  <2>4. Made(q)'  BY <1>3, <2>1, <2>2, <2>3 DEF Made
  <2>5. Passed(q)'  BY <1>3, <1>9, <2>1 DEF Passed, Applying
  <2>6. Holds(q)' /\ Collided(q)'  BY <1>3, <2>1 DEF Holds, Collided, Applying
  <2>. QED  BY <2>4, <2>5, <2>6
<1>11. Made(p)' /\ Passed(p)' /\ Holds(p)' /\ Collided(p)'
  BY <1>3 DEF Made, Passed, Holds, Collided, Applying
<1>12. Valid'
  <2> SUFFICES ASSUME NEW q \in Processes, stage'[q] \in {"working", "page"}
               PROVE  ValidSchema'
    BY DEF Valid
  <2>1. ValidSchema  BY <1>3 DEF BootInv, Valid
  <2>2. tables = catalog.tables
    <3>1. ASSUME NEW t \in ToSet(Tables), <<"create", t.name>> \in made[p] PROVE FALSE
      BY <1>6, <2>1, <3>1 DEF ValidSchema, Named
    <3>. QED  BY <3>1
  <2>3. indexes = catalog.indexes
    <3>1. ASSUME NEW i \in ToSet(Indexes), <<"index", i>> \in made[p] PROVE FALSE
      BY <1>7, <2>1, <3>1 DEF ValidSchema, IndexThere
    <3>. QED  BY <3>1
  <2>. HIDE DEF tables, indexes
  <2>. QED  BY <1>1, <2>1, <2>2, <2>3 DEF ValidSchema, Named
<1>. QED  BY <1>4, <1>8, <1>10, <1>11, <1>12 DEF BootInv

LEMMA NextInv == BootInv /\ [BootNext]_bootVars => BootInv'
<1> SUFFICES ASSUME BootInv, [BootNext]_bootVars PROVE BootInv'  OBVIOUS
<1>1. CASE Install  BY <1>1, InstallInv
<1>2. ASSUME NEW p \in Processes, BootStep(p) PROVE BootInv'
  <2>1. CASE Start(p)  BY <2>1, StartInv
  <2>2. ASSUME NEW k \in DOMAIN Script, Reaches(p, k, Script), Apply(p, k, Script[k])
        PROVE  BootInv'
    BY <2>2, ApplyCreateInv, ApplyReferenceInv, ApplyIndexInv, CommitInv DEF Apply
  <2>3. CASE Recover(p, Script[line[p]])  BY <2>3, RecoverInv
  <2>4. CASE Validate(p)  BY <2>4, ValidateInv
  <2>5. CASE OpenPage(p)  BY <2>5, OpenPageInv
  <2>6. CASE PageLocks(p)  BY <2>6, PageLocksInv
  <2>7. CASE ClosePage(p)  BY <2>7, ClosePageInv
  <2>8. CASE EndWork(p) \/ Abort(p)  BY <2>8, DownInv
  <2>. QED  BY <1>2, <2>1, <2>2, <2>3, <2>4, <2>5, <2>6, <2>7, <2>8 DEF BootStep
<1>3. CASE UNCHANGED bootVars
  <2>1. UNCHANGED <<catalog, stage, line, writing, locks, made, starts>>  BY <1>3 DEF bootVars
  <2>2. BootTypeOK' /\ WellFormed' /\ Valid'
    BY <2>1 DEF BootInv, BootTypeOK, WellFormed, Valid, ValidSchema, Named
  <2>3. \A m : Exists(m)' = Exists(m)  BY <2>1 DEF Exists, Named, IndexThere
  <2>4. \A p \in Processes : Made(p)' /\ Passed(p)' /\ Holds(p)' /\ Collided(p)'
    BY <2>1, <2>3 DEF BootInv, Made, Passed, Holds, Collided, Applying
  <2>. QED  BY <2>2, <2>4 DEF BootInv
<1>. QED  BY <1>1, <1>2, <1>3 DEF BootNext

LEMMA BootInvariant == BootSpec => []BootInv
BY InitInv, NextInv, PTL DEF BootSpec

(* The type invariant of the bootstraps.                                   *)
THEOREM BootTyped == BootSpec => []BootTypeOK
<1>1. BootInv => BootTypeOK  BY DEF BootInv
<1>. QED  BY <1>1, BootInvariant, PTL

-------------------------------------------------------------------------------
(* The schema that is worked on.                                           *)

LEMMA ValidIsExpected ==
  ASSUME NEW t, NEW live, ValidTable(t, live)
  PROVE  Expected(t, live)
<1>1. DOMAIN live.columns = DOMAIN t.columns  BY DEF ValidTable
<1>2. \A n \in DOMAIN t.columns :
        /\ CatalogType(live.columns[n].type) = CatalogType(t.columns[n].type)
        /\ live.columns[n].nullable = t.columns[n].nullable
        /\ t.columns[n].type = "identity" => live.columns[n].type = "identity"
  BY DEF ValidTable, ValidColumn
<1>3. InCatalog(live.columns) = InCatalog(t.columns)  BY <1>1, <1>2 DEF InCatalog
<1>4. ValidConstraints(t, live)  BY DEF ValidTable
<1>. QED  BY <1>2, <1>3, <1>4 DEF Expected, ValidConstraints

(* A catalog table for each of the schema's, and no other.                 *)
LEMMA OneForOne ==
  ASSUME WellFormed, ValidSchema
  PROVE  Cardinality(catalog.tables) = Len(Tables)
<1>. DEFINE live == [k \in 1 .. Len(Tables) |->
                       CHOOSE t \in catalog.tables : t.name = Tables[k].name]
<1>1. DOMAIN Tables = 1 .. Len(Tables) /\ Len(Tables) \in Nat  BY TablesType
<1>2. ASSUME NEW k \in 1 .. Len(Tables)
      PROVE  live[k] \in catalog.tables /\ live[k].name = Tables[k].name
  <2>1. \E t \in catalog.tables : t.name = Tables[k].name
    BY <1>1 DEF ValidSchema, Named, ToSet
  <2>. QED  BY <2>1
<1>3. ASSUME NEW t \in catalog.tables PROVE \E k \in 1 .. Len(Tables) : live[k] = t
  <2>1. PICK k \in 1 .. Len(Tables) : Tables[k].name = t.name
    BY <1>1 DEF ValidSchema, Named, ToSet
  <2>2. live[k] = t  BY <1>2, <2>1 DEF WellFormed
  <2>. QED  BY <2>2
<1>4. \A j, k \in 1 .. Len(Tables) : live[j] = live[k] => j = k
  <2> SUFFICES ASSUME NEW j \in 1 .. Len(Tables), NEW k \in 1 .. Len(Tables), live[j] = live[k]
               PROVE  j = k
    OBVIOUS
  <2>1. Tables[j].name = Tables[k].name  BY <1>2
  <2>. QED  BY <1>1, <2>1, NamesAssumption
<1>5. live \in [1 .. Len(Tables) -> catalog.tables]  BY <1>2
<1>. HIDE DEF live
<1>6. live \in Bijection(1 .. Len(Tables), catalog.tables)
  BY <1>3, <1>4, <1>5 DEF Bijection, Injection, Surjection, IsInjective
<1>7. ExistsBijection(1 .. Len(Tables), catalog.tables)  BY <1>6 DEF ExistsBijection
<1>8. /\ IsFiniteSet(1 .. Len(Tables)) /\ Cardinality(1 .. Len(Tables)) = Len(Tables)
  <2>1. 1 \in Int /\ Len(Tables) \in Int  BY <1>1
  <2>2. /\ IsFiniteSet(1 .. Len(Tables))
        /\ Cardinality(1 .. Len(Tables)) = IF 1 > Len(Tables) THEN 0 ELSE Len(Tables) - 1 + 1
    BY <2>1, FS_Interval
  <2>3. Len(Tables) = IF 1 > Len(Tables) THEN 0 ELSE Len(Tables) - 1 + 1  BY ONLY <1>1
  <2>. QED  BY <2>2, <2>3
<1>. QED  BY <1>7, <1>8, FS_Bijection

(* Whoever works, works on the tables, columns and indexes that an empty   *)
(* database would have been given, whatever was found and whoever applied  *)
(* the schema at the same time.                                            *)
THEOREM ExpectedSchema == BootSpec => []WorksOnExpectedSchema
<1>1. BootInv => WorksOnExpectedSchema
  <2> SUFFICES ASSUME BootInv, NEW p \in Processes, stage[p] \in {"working", "page"}
               PROVE  /\ Cardinality(catalog.tables) = Len(Tables)
                      /\ \A t \in ToSet(Tables) :
                           \E live \in catalog.tables : live.name = t.name /\ Expected(t, live)
                      /\ \A i \in ToSet(Indexes) : <<i, i.columns>> \in catalog.indexes
    BY DEF WorksOnExpectedSchema
  <2>1. WellFormed /\ ValidSchema  BY DEF BootInv, Valid
  <2>2. Cardinality(catalog.tables) = Len(Tables)  BY <2>1, OneForOne
  <2>3. \A t \in ToSet(Tables) :
          \E live \in catalog.tables : live.name = t.name /\ Expected(t, live)
    BY <2>1, ValidIsExpected DEF ValidSchema, Named
  <2>4. \A i \in ToSet(Indexes) : <<i, i.columns>> \in catalog.indexes
    BY <2>1 DEF ValidSchema, WellFormed
  <2>. QED  BY <2>2, <2>3, <2>4
<1>. QED  BY <1>1, BootInvariant, PTL

-------------------------------------------------------------------------------
(* The refinement.                                                         *)

LEMMA CommitCreatesMissing ==
  ASSUME BootInv, NEW p \in Processes, NEW k \in DOMAIN Script, Reaches(p, k, Script),
         CommitSchema(p, Script[k])
  PROVE  Catalog!CreateMissing
<1>1. Made(p) /\ Passed(p) /\ stage[p] = "apply"  BY DEF BootInv, Reaches
<1>2. ASSUME NEW n \in DOMAIN Script, Script[n].op \in Creating
      PROVE  Exists(Creates(Script[n])) \/ Creates(Script[n]) \in made[p]
  <2>1. n < k  BY <1>2, ScriptCreatesAll DEF CommitSchema, Creating
  <2>2. CASE n < line[p]  BY <1>1, <1>2, <2>2 DEF Passed, Applying
  <2>3. CASE ~(n < line[p])
    <3>1. n \in line[p] .. k - 1
      <4>1. line[p] \in Nat /\ n \in Nat /\ k \in Nat
        BY ScriptFacts DEF BootInv, BootTypeOK
      <4>. QED  BY <2>1, <2>3, <4>1
    <3>2. Idle(p, Script[n])  BY <3>1 DEF Reaches
    <3>3. CASE Script[n].op = "create"
      BY <3>2, <3>3 DEF Idle, Exists, Creates
    <3>4. CASE Script[n].op = "index"
      BY <3>2, <3>4 DEF Idle, Exists, Creates
    <3>. QED  BY <1>2, <3>3, <3>4 DEF Creating
  <2>. QED  BY <2>2, <2>3
<1>3. ASSUME NEW t \in ToSet(Tables)
      PROVE  <<"create", t.name>> \in made[p] <=> \A live \in catalog.tables : live.name # t.name
  <2>1. <<"create", t.name>> \in made[p] => Named(catalog.tables, t.name) = {}
    BY <1>1 DEF Made, Exists
  <2>2. Exists(<<"create", t.name>>) \/ <<"create", t.name>> \in made[p]
    BY <1>2, ScriptCreatesAll DEF Creating
  <2>. QED  BY <2>1, <2>2 DEF Exists, Named
<1>4. ASSUME NEW i \in ToSet(Indexes)
      PROVE  <<"index", i>> \in made[p] <=> \A live \in catalog.indexes : live[1] # i
  <2>1. <<"index", i>> \in made[p] => ~IndexThere(i)
    BY <1>1 DEF Made, Exists
  <2>2. Exists(<<"index", i>>) \/ <<"index", i>> \in made[p]
    BY <1>2, ScriptCreatesAll DEF Creating
  <2>. QED  BY <2>1, <2>2 DEF Exists, IndexThere
<1>5. {t \in ToSet(Tables) : <<"create", t.name>> \in made[p]} = Catalog!MissingTables
  BY <1>3 DEF Catalog!MissingTables
<1>6. {x \in ToSet(Indexes) : <<"index", x>> \in made[p]} = Catalog!MissingIndexes
  BY <1>4 DEF Catalog!MissingIndexes
<1>7. catalog' = [tables |-> catalog.tables \cup Catalog!MissingTables,
                  indexes |-> catalog.indexes \cup {<<i, i.columns>> : i \in Catalog!MissingIndexes}]
  BY <1>5, <1>6 DEF CommitSchema, Visible
<1>8. \E q \in Processes : stage[q] # "uninstalled"  BY <1>1
<1>9. stage'[p] # "uninstalled"  BY DEF CommitSchema, BootInv, BootTypeOK
<1>. QED  BY <1>7, <1>8, <1>9 DEF Catalog!CreateMissing

(* No other step of a process touches the catalog.                         *)
LEMMA StepsKeepCatalog ==
  ASSUME BootInv, NEW p \in Processes, BootStep(p),
         stage[p] # "uninstalled",
         ~ \E k \in DOMAIN Script : Reaches(p, k, Script) /\ CommitSchema(p, Script[k])
  PROVE  UNCHANGED catalog /\ stage'[p] # "uninstalled"
<1>1. stage \in [Processes -> {"uninstalled", "down", "apply", "collides", "validate",
                              "working", "page"}]
  BY DEF BootInv, BootTypeOK
<1>2. CASE \E k \in DOMAIN Script : Reaches(p, k, Script) /\ Apply(p, k, Script[k])
  BY <1>1, <1>2 DEF Apply, ApplyCreate, ApplyReference, ApplyIndex, Make
<1>3. CASE Start(p) \/ Recover(p, Script[line[p]]) \/ Validate(p)
  BY <1>1, <1>3 DEF Start, Recover, Validate
<1>4. CASE OpenPage(p) \/ PageLocks(p) \/ ClosePage(p) \/ EndWork(p) \/ Abort(p)
  BY <1>1, <1>4 DEF OpenPage, PageLocks, ClosePage, EndWork, Abort
<1>. QED  BY <1>2, <1>3, <1>4 DEF BootStep

LEMMA CatalogStep ==
  BootInv /\ [BootNext]_bootVars =>
    [Catalog!FindCatalog \/ Catalog!CreateMissing]_(Catalog!catalogVars)
<1> SUFFICES ASSUME BootInv, [BootNext]_bootVars
             PROVE  \/ Catalog!FindCatalog \/ Catalog!CreateMissing
                    \/ UNCHANGED Catalog!catalogVars
  OBVIOUS
<1>1. CASE Install
  <2>1. catalog' \in Found /\ ~\E p \in Processes : stage[p] # "uninstalled"
    BY <1>1 DEF Install
  <2>2. \E p \in Processes : stage'[p] # "uninstalled"
    BY <1>1, ProcessesAssumption DEF Install
  <2>. QED  BY <2>1, <2>2 DEF Catalog!FindCatalog
<1>2. ASSUME NEW p \in Processes, BootStep(p)
      PROVE  Catalog!CreateMissing \/ UNCHANGED Catalog!catalogVars
  <2>1. CASE \E k \in DOMAIN Script : Reaches(p, k, Script) /\ CommitSchema(p, Script[k])
    BY <2>1, CommitCreatesMissing
  <2>2. CASE ~ \E k \in DOMAIN Script : Reaches(p, k, Script) /\ CommitSchema(p, Script[k])
    <3>1. stage[p] # "uninstalled"
      BY <1>2 DEF BootStep, Start, Reaches, Recover, Validate, OpenPage, PageLocks, ClosePage,
                  EndWork, Abort
    <3>2. UNCHANGED catalog /\ stage'[p] # "uninstalled"
      BY <1>2, <2>2, <3>1, StepsKeepCatalog
    <3>. QED  BY <3>1, <3>2 DEF Catalog!catalogVars
  <2>. QED  BY <2>1, <2>2
<1>3. CASE UNCHANGED bootVars
  BY <1>3 DEF bootVars, Catalog!catalogVars
<1>. QED  BY <1>1, <1>2, <1>3 DEF BootNext

(* Applying the schema is one step for whoever reads the catalog, however  *)
(* many processes apply it at once and wherever they stop (raw_sql runs    *)
(* the script in one transaction).                                         *)
THEOREM SchemaAppliedAtOnce == BootSpec => RefinesSchemaCatalog
<1>1. BootInit => Catalog!CatalogInit
  BY DEF BootInit, Nowhere, Catalog!CatalogInit
<1>. QED  BY <1>1, BootInvariant, CatalogStep, PTL
          DEF BootSpec, RefinesSchemaCatalog, Catalog!CatalogSpec

-------------------------------------------------------------------------------
(* Waiting.                                                                *)

LEMMA NoConflict ==
  ~Conflict("row exclusive", "row exclusive") /\ ~Conflict("share", "share")
<1>1. ASSUME NEW m \in {"row exclusive", "share"}, Conflict(m, m) PROVE FALSE
  <2>1. CASE {m, m} = {"share", "row exclusive"}
    <3>1. "share" \in {m, m} /\ "row exclusive" \in {m, m}  BY <2>1
    <3>. QED  BY <3>1
  <2>2. CASE {m, m} = {"share", "share row exclusive"}
    <3>1. "share" \in {m, m} /\ "share row exclusive" \in {m, m}  BY <2>2
    <3>. QED  BY <3>1
  <2>3. CASE {m, m} = {"row exclusive", "share row exclusive"}
    <3>1. "row exclusive" \in {m, m} /\ "share row exclusive" \in {m, m}  BY <2>3
    <3>. QED  BY <3>1
  <2>4. CASE {m, m} = {"share row exclusive"}
    <3>1. "share row exclusive" \in {m, m}  BY <2>4
    <3>. QED  BY <1>1, <3>1
  <2>. QED  BY <1>1, <2>1, <2>2, <2>3, <2>4 DEF Conflict
<1>. QED  BY <1>1

(* A waiting bootstrap waits for one that has come further.                *)
LEMMA WaitsForFurther ==
  ASSUME BootInv, NEW p \in Processes, NEW q \in Processes \ {p},
         Applying(p), Applying(q), WaitsFor(p, q)
  PROVE  line[q] > line[p]
<1>1. /\ Made(p) /\ Passed(p) /\ Holds(p) /\ Made(q) /\ Passed(q) /\ Holds(q)
      /\ Collided(p) /\ line[p] \in Nat /\ line[q] \in Nat
      /\ line[p] \in DOMAIN Script /\ line[q] \in DOMAIN Script
      /\ stage[p] # "page"
  BY DEF BootInv, BootTypeOK, Applying
<1>2. \A n \in DOMAIN Script : n \in Nat  BY ScriptFacts
(* What q has created lies ahead of p.                                     *)
<1>3. ASSUME NEW m \in made[q]
      PROVE  \E n \in DOMAIN Script :
               /\ n < line[q] /\ line[p] <= n /\ m = Creates(Script[n])
               /\ Script[n].op \in Creating
  <2>1. PICK n \in DOMAIN Script :
          n < line[q] /\ Script[n].op \in Creating /\ m = Creates(Script[n])
    BY <1>1 DEF Made
  <2>2. ~Exists(m) /\ m \notin made[p]  BY <1>1 DEF Made
  <2>3. ~(n < line[p])  BY <1>1, <2>1, <2>2 DEF Passed
  <2>. QED  BY <1>1, <1>2, <2>1, <2>3
<1>4. CASE stage[p] = "collides" /\ Creates(Script[line[p]]) \in made[q]
  BY <1>1, <1>2, <1>3, <1>4
<1>5. ASSUME WaitsForLock(PageAsks(p), q) PROVE FALSE
  BY <1>1, <1>5 DEF WaitsForLock, PageAsks
<1>6. ASSUME NEW k \in DOMAIN Script, Reaches(p, k, Script), WaitsForLock(Asks(Script[k]), q)
      PROVE  line[q] > line[p]
  <2>1. PICK a \in Asks(Script[k]), l \in locks[q] : Conflict(a[1], l[1])
    BY <1>6 DEF WaitsForLock
  <2>2. /\ line[p] <= k
        /\ \A n \in line[p] .. k - 1 :
             n \in DOMAIN Script /\ Script[n].op \in Creating => Exists(Creates(Script[n]))
    BY <1>6, ReachesInv
  <2>3. CASE \E m \in made[q] : m[1] = "create"  BY <1>1, <1>2, <1>3, <2>3
  <2>4. CASE /\ l[1] = "share"
             /\ \E n \in DOMAIN Script : n <= line[q] /\ Script[n].op = "index"
    <3>1. a[1] = "share row exclusive" /\ Script[k].op = "reference"
      <4>1. a[1] # "share"  BY <2>1, <2>4, NoConflict
      <4>2. \/ Script[k].op = "index" /\ a = <<"share", Script[k].table>>
            \/ Script[k].op = "reference" /\ a = <<"share row exclusive", Script[k].table>>
        BY <2>1 DEF Asks
      <4>3. CASE a = <<"share", Script[k].table>>
        <5>1. a[1] = "share"  BY <4>3
        <5>. QED  BY <4>1, <5>1
      <4>4. CASE a = <<"share row exclusive", Script[k].table>> /\ Script[k].op = "reference"
        <5>1. a[1] = "share row exclusive"  BY <4>4
        <5>. QED  BY <4>4, <5>1
      <4>. QED  BY <4>2, <4>3, <4>4
    <3>2. <<"create", Script[k].object.name>> \in made[p]  BY <1>6, <3>1 DEF Reaches, Idle
    <3>3. PICK n \in DOMAIN Script :
            /\ n < line[p] /\ Script[n].op \in Creating
            /\ <<"create", Script[k].object.name>> = Creates(Script[n])
      BY <1>1, <3>2 DEF Made
    <3>4. Script[n].op = "create"  BY <3>3 DEF Creates
    <3>5. PICK j \in DOMAIN Script : j <= line[q] /\ Script[j].op = "index"  BY <2>4
    <3>6. n < line[q]
      <4>1. n < j  BY <3>4, <3>5, ScriptFacts
      <4>. QED  BY <1>1, <1>2, <3>5, <4>1
    <3>7. ~Exists(Creates(Script[n])) /\ Creates(Script[n]) \notin made[q]
      BY <1>1, <3>2, <3>3 DEF Made
    <3>. QED  BY <1>1, <3>3, <3>6, <3>7 DEF Passed
  <2>. QED  BY <1>1, <2>1, <2>3, <2>4 DEF Holds
<1>. QED  BY <1>4, <1>5, <1>6 DEF WaitsFor

LEMMA PagesPass ==
  ASSUME BootInv, NEW p \in Processes, NEW q \in Processes,
         stage[p] = "page", stage[q] = "page"
  PROVE  ~WaitsFor(p, q)
<1>1. ~\E k \in DOMAIN Script : Reaches(p, k, Script)  BY DEF Reaches
<1>2. ~WaitsForLock(PageAsks(p), q)
  <2> SUFFICES ASSUME NEW a \in PageAsks(p), NEW l \in locks[q], Conflict(a[1], l[1])
               PROVE  FALSE
    BY DEF WaitsForLock
  <2>1. a[1] = "row exclusive"
    <3>1. a = <<"row exclusive", writing[p][line[p]]>>  BY DEF PageAsks
    <3>. DEFINE table == writing[p][line[p]]
    <3>. HIDE DEF table
    <3>2. a = <<"row exclusive", table>>  BY <3>1 DEF table
    <3>. QED  BY ONLY <3>2
  <2>2. l[1] = "row exclusive"  BY DEF BootInv, Holds
  <2>. QED  BY <2>1, <2>2, NoConflict
<1>. QED  BY <1>1, <1>2 DEF WaitsFor

(* Whoever waits applies the schema or writes a page.                      *)
LEMMA Waiting ==
  ASSUME NEW p, NEW q, WaitsFor(p, q)
  PROVE  stage[p] \in {"apply", "collides", "page"}
BY DEF WaitsFor, Reaches, WaitsForLock, PageAsks

(* Bootstraps never wait for each other in a circle: a page is in it, and  *)
(* a bootstrap.                                                            *)
THEOREM NoCycleOfBootstraps == BootSpec => []CyclesNeedAPage
<1>1. BootInv => CyclesNeedAPage
  <2> SUFFICES ASSUME BootInv, NEW circle \in (SUBSET Processes) \ {{}},
                      \A p \in circle : \E q \in circle \ {p} : WaitsFor(p, q)
               PROVE  \E p, q \in circle : stage[p] = "page" /\ stage[q] \in {"apply", "collides"}
    BY DEF CyclesNeedAPage
  <2>1. \A p \in circle : stage[p] \in {"apply", "collides", "page"}  BY Waiting
  <2>2. CASE \A p \in circle : stage[p] = "page"
    BY <2>2, PagesPass
  <2>3. CASE \A p \in circle : Applying(p)
    <3>1. \A p \in circle : line[p] \in DOMAIN Script  BY <2>3 DEF BootInv, BootTypeOK, Applying
    <3>2. PICK c, n \in Nat : DOMAIN Script = 1 .. n  BY ScriptShape
    <3>. DEFINE behind == {n - line[p] : p \in circle}
    <3>3. behind \in SUBSET Nat /\ behind # {}  BY <3>1, <3>2
    <3>4. PICK d \in behind : \A k \in behind : d <= k
      <4>. HIDE DEF behind
      <4>. QED  BY <3>3, LeastNumber
    <3>5. PICK p \in circle : d = n - line[p]  OBVIOUS
    <3>6. PICK q \in circle \ {p} : WaitsFor(p, q)  OBVIOUS
    <3>7. line[q] > line[p]  BY <2>3, <3>6, WaitsForFurther
    <3>8. n - line[p] <= n - line[q]  BY <3>4, <3>5
    <3>. QED  BY <3>1, <3>2, <3>7, <3>8
  <2>. QED  BY <2>1, <2>2, <2>3 DEF Applying
<1>. QED  BY <1>1, BootInvariant, PTL
=============================================================================
