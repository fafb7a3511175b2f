---------------------------- MODULE ReadModelProofs ----------------------------
(***************************************************************************)
(* What is stored and what is read of it.  ChangeFeed: what a client of    *)
(* GET /changes can lose, for every set of entities, every limit and every *)
(* history of pages.  Ingest: which payloads are stored and what of them,  *)
(* for every schema, every feed and every history of pages.                *)
(***************************************************************************)
EXTENDS ChangeFeed, Ingest, Induction

(* The rows an answer gives before row i.                                  *)
Earlier(i) == {j \in After(position) : Precedes(j, i)}

(* The order of an answer is total.                                        *)
LEMMA PrecedesOrder ==
  ASSUME FeedTypeOK, NEW i \in Ids, NEW j \in Ids, NEW k \in Ids
  PROVE  /\ ~Precedes(i, i)
         /\ Precedes(i, j) /\ Precedes(j, k) => Precedes(i, k)
         /\ i # j => Precedes(i, j) \/ Precedes(j, i)
<1>1. i \in Nat /\ j \in Nat /\ k \in Nat  BY IdsAssumption
<1>2. registry[i] \in Nat /\ registry[j] \in Nat /\ registry[k] \in Nat
  BY MaxTokenAssumption DEF FeedTypeOK
<1>. QED  BY <1>1, <1>2 DEF Precedes

LEMMA EarlierFinite ==
  ASSUME NEW i
  PROVE  IsFiniteSet(Earlier(i)) /\ Cardinality(Earlier(i)) \in Nat
<1>1. Earlier(i) \in SUBSET Ids  BY DEF Earlier, After
<1>. QED  BY <1>1, IdsAssumption, FS_Subset, FS_CardinalityType

(* A set of rows has a row with the fewest before it.                      *)
LEMMA FewestEarlier ==
  ASSUME NEW S \in SUBSET Ids, S # {}
  PROVE  \E i \in S : \A j \in S : Cardinality(Earlier(i)) <= Cardinality(Earlier(j))
<1> DEFINE T == {Cardinality(Earlier(i)) : i \in S}
           R == OpToRel(<, Nat)
<1>1. T \subseteq Nat /\ T # {}  BY EarlierFinite
<1>2. IsWellFoundedOn(R, Nat)  BY NatLessThanWellFounded
<1>3. PICK x \in T : \A y \in T : ~(<<y, x>> \in R)
  <2> HIDE DEF T, R
  <2>. QED  BY <1>1, <1>2, WFMin
<1>4. \A y \in T : ~(y < x)  BY <1>1, <1>3 DEF OpToRel
<1>5. PICK i \in S : x = Cardinality(Earlier(i))  OBVIOUS
<1>6. ASSUME NEW j \in S PROVE Cardinality(Earlier(i)) <= Cardinality(Earlier(j))
  <2>1. ~(Cardinality(Earlier(j)) < x)  BY <1>4
  <2>. QED  BY <2>1, <1>5, EarlierFinite
<1>. QED  BY <1>6

(* First and HasMore in terms of Earlier.                                  *)
LEMMA ItemsEarlier ==
  Items = {i \in After(position) : Cardinality(Earlier(i)) < Limit}
BY DEF Items, First, Earlier

(* The answer is no longer than the limit.                                 *)
LEMMA ItemsBounded ==
  ASSUME FeedTypeOK, NEW k \in Ids, IsLast(k, Items)
  PROVE  IsFiniteSet(Items) /\ Cardinality(Items) <= Limit
<1>1. k \in After(position) /\ Cardinality(Earlier(k)) < Limit
  BY ItemsEarlier DEF IsLast
<1>2. Items \subseteq Earlier(k) \cup {k}
  <2> SUFFICES ASSUME NEW j \in Items, j # k PROVE j \in Earlier(k)
    OBVIOUS
  <2>1. j \in After(position) /\ ~Precedes(k, j)  BY ItemsEarlier DEF IsLast
  <2>2. Precedes(j, k)  BY <2>1, PrecedesOrder DEF After
  <2>. QED  BY <2>1, <2>2 DEF Earlier
<1>3. /\ IsFiniteSet(Earlier(k) \cup {k})
      /\ Cardinality(Earlier(k) \cup {k}) <= Cardinality(Earlier(k)) + 1
  <2>1. IsFiniteSet(Earlier(k)) /\ Cardinality(Earlier(k)) \in Nat  BY EarlierFinite
  <2>2. /\ IsFiniteSet(Earlier(k) \cup {k})
        /\ \/ Cardinality(Earlier(k) \cup {k}) = Cardinality(Earlier(k))
           \/ Cardinality(Earlier(k) \cup {k}) = Cardinality(Earlier(k)) + 1
    BY <2>1, FS_AddElement
  <2>. QED  BY <2>1, <2>2
<1>4. IsFiniteSet(Items) /\ Cardinality(Items) <= Cardinality(Earlier(k) \cup {k})
  BY <1>2, <1>3, FS_Subset
<1>5. /\ Cardinality(Items) \in Nat /\ Cardinality(Earlier(k)) \in Nat
      /\ Cardinality(Earlier(k) \cup {k}) \in Nat /\ Limit \in Nat
  BY <1>3, <1>4, EarlierFinite, FS_CardinalityType, LimitAssumption
<1>. QED  BY <1>1, <1>3, <1>4, <1>5

(* A row that is left out comes after the last item ...                    *)
LEMMA LeftOutIsLater ==
  ASSUME FeedTypeOK, NEW k \in Ids, IsLast(k, Items),
         NEW i \in After(position), i \notin Items
  PROVE  registry[k] <= registry[i]
<1>1. k \in Items /\ k \in After(position) /\ i \in Ids
  BY ItemsEarlier DEF IsLast, After
<1>2. ~Precedes(i, k)
  <2> SUFFICES ASSUME Precedes(i, k) PROVE FALSE  OBVIOUS
  <2>1. Earlier(i) \in SUBSET Earlier(k)
    BY PrecedesOrder, <1>1 DEF Earlier, After
  <2>2. Cardinality(Earlier(i)) <= Cardinality(Earlier(k))
    BY <2>1, EarlierFinite, FS_Subset
  <2>3. Cardinality(Earlier(k)) < Limit /\ ~(Cardinality(Earlier(i)) < Limit)
    BY <1>1, ItemsEarlier
  <2>4. /\ Cardinality(Earlier(i)) \in Nat /\ Cardinality(Earlier(k)) \in Nat
        /\ Limit \in Nat
    BY EarlierFinite, LimitAssumption
  <2>. QED  BY <2>2, <2>3, <2>4
<1>3. registry[i] \in Nat /\ registry[k] \in Nat
  BY <1>1, MaxTokenAssumption DEF FeedTypeOK
<1>. QED  BY <1>2, <1>3 DEF Precedes

(* ... and makes the answer one that was cut off.                          *)
LEMMA LeftOutIsMore ==
  ASSUME FeedTypeOK, NEW k \in Ids, IsLast(k, Items),
         NEW i \in After(position), i \notin Items
  PROVE  HasMore
<1> DEFINE Rest == After(position) \ Items
<1>1. Rest \in SUBSET Ids /\ Rest # {}  BY DEF After
<1>2. PICK m \in Rest :
        \A j \in Rest : Cardinality(Earlier(m)) <= Cardinality(Earlier(j))
  <2> HIDE DEF Rest
  <2>. QED  BY <1>1, FewestEarlier
<1>3. Earlier(m) \subseteq Items
  <2> SUFFICES ASSUME NEW j \in Earlier(m), j \notin Items PROVE FALSE
    OBVIOUS
  <2>1. j \in Rest /\ j \in Ids /\ m \in Ids /\ Precedes(j, m)
    BY <1>1 DEF Earlier, After
  <2>2. Earlier(j) \in SUBSET Earlier(m)
    BY <2>1, PrecedesOrder DEF Earlier, After
  <2>3. j \in Earlier(m) /\ j \notin Earlier(j)
    BY <2>1, PrecedesOrder DEF Earlier
  <2>4. /\ Cardinality(Earlier(j)) <= Cardinality(Earlier(m))
        /\ Cardinality(Earlier(m)) = Cardinality(Earlier(j)) => Earlier(m) = Earlier(j)
    BY <2>2, EarlierFinite, FS_Subset
  <2>5. Cardinality(Earlier(m)) <= Cardinality(Earlier(j))  BY <1>2, <2>1
  <2>6. Cardinality(Earlier(m)) \in Nat /\ Cardinality(Earlier(j)) \in Nat
    BY EarlierFinite
  <2>. QED  BY <2>3, <2>4, <2>5, <2>6
<1>4. Cardinality(Earlier(m)) <= Cardinality(Items)
  BY <1>3, ItemsBounded, FS_Subset
<1>5. Cardinality(Earlier(m)) < Limit + 1
  <2>1. /\ Cardinality(Earlier(m)) \in Nat /\ Cardinality(Items) \in Nat
        /\ Limit \in Nat /\ Cardinality(Items) <= Limit
    BY EarlierFinite, ItemsBounded, FS_CardinalityType, LimitAssumption
  <2>. QED  BY <1>4, <2>1
<1>6. m \in First(Limit + 1, position)  BY <1>5 DEF First, Earlier
<1>. QED  BY <1>6 DEF HasMore

-------------------------------------------------------------------------------
LEMMA FeedTypesInit == FeedInit => FeedTypeOK
BY MaxTokenAssumption DEF FeedInit, RegistryInit, FeedTypeOK

LEMMA FeedTypesStep == FeedTypeOK /\ [FeedNext]_feedVars => FeedTypeOK'
<1> SUFFICES ASSUME FeedTypeOK, [FeedNext]_feedVars PROVE FeedTypeOK'
  OBVIOUS
<1> USE MaxTokenAssumption DEF FeedTypeOK
<1>1. ASSUME NEW written \in SUBSET Ids, NEW touched \in SUBSET Ids,
             NEW token \in 1 .. MaxToken, WritePage(written, touched, token)
      PROVE  FeedTypeOK'
  BY <1>1 DEF WritePage, StorePage, Assign, Given, Pass, clientVars
<1>2. ASSUME NEW touched \in SUBSET Ids, NEW token \in 1 .. MaxToken,
             WriteElsewhere(touched, token)
      PROVE  FeedTypeOK'
  BY <1>2 DEF WriteElsewhere, Touch, Assign, Given, Pass, clientVars
<1>3. CASE Poll
  <2>1. PICK k \in Ids : IsLast(k, Items) /\ position' = registry[k]
    BY <1>3 DEF Poll
  <2>2. position' \in 0 .. MaxToken  BY <2>1
  <2>3. position' \in 1 .. MaxToken
    BY <2>1, <2>2, ItemsEarlier DEF IsLast, After
  <2>. QED  BY <1>3, <2>2, <2>3 DEF Poll
<1>4. CASE UNCHANGED feedVars  BY <1>4 DEF feedVars
<1>. QED  BY <1>1, <1>2, <1>3, <1>4 DEF FeedNext

(* The change feed is type correct.                                        *)
THEOREM FeedTypes == FeedSpec => []FeedTypeOK
BY FeedTypesInit, FeedTypesStep, PTL DEF FeedSpec

LEMMA PollMisses ==
  ASSUME FeedTypeOK, MissedOnlyTiesAndLate, Poll
  PROVE  MissedOnlyTiesAndLate'
<1> SUFFICES ASSUME NEW i \in Ids, Missed(i)'
             PROVE  registry'[i] \in cuts' \/ i \in behind'
  BY DEF MissedOnlyTiesAndLate
<1>1. PICK k \in Ids : IsLast(k, Items) /\ position' = registry[k]
  BY DEF Poll
<1>2. /\ UNCHANGED <<registry, wrote>> /\ behind' = behind \ Items
      /\ known'[i] = IF i \in Items THEN wrote[i] ELSE known[i]
      /\ cuts' = IF HasMore THEN cuts \cup {position'} ELSE cuts
  BY DEF Poll
<1>3. i \notin Items /\ known[i] # wrote[i] /\ registry[i] <= registry[k]
  BY <1>1, <1>2 DEF Missed
<1>4. CASE i \in After(position)
  <2>1. registry[k] <= registry[i] /\ HasMore
    BY <1>1, <1>3, <1>4, LeftOutIsLater, LeftOutIsMore
  <2>2. registry[i] \in Nat /\ registry[k] \in Nat
    BY MaxTokenAssumption DEF FeedTypeOK
  <2>. QED  BY <1>1, <1>2, <1>3, <2>1, <2>2
<1>5. CASE i \notin After(position)
  <2>1. registry[i] <= position
    BY <1>5, MaxTokenAssumption DEF After, FeedTypeOK
  <2>. QED  BY <1>2, <1>3, <2>1 DEF MissedOnlyTiesAndLate, Missed
<1>. QED  BY <1>4, <1>5

(* A client of GET /changes that goes on from the last token it was given  *)
(* loses a change only at a token where an answer was cut off, or by a     *)
(* token written behind its position (list_changes, upsert_sync_entity,    *)
(* upsert_relation_target).                                                *)
THEOREM LossesExplained == FeedSpec => []MissedOnlyTiesAndLate
<1>1. FeedInit => MissedOnlyTiesAndLate
  BY DEF FeedInit, MissedOnlyTiesAndLate, Missed
<1>2. FeedTypeOK /\ MissedOnlyTiesAndLate /\ [FeedNext]_feedVars => MissedOnlyTiesAndLate'
  <2> SUFFICES ASSUME FeedTypeOK, MissedOnlyTiesAndLate, [FeedNext]_feedVars,
                      NEW i \in Ids, Missed(i)'
               PROVE  registry'[i] \in cuts' \/ i \in behind'
    BY DEF MissedOnlyTiesAndLate
  <2> USE MaxTokenAssumption DEF FeedTypeOK
  <2>1. ASSUME NEW written \in SUBSET Ids, NEW touched \in SUBSET Ids,
               NEW token \in 1 .. MaxToken, WritePage(written, touched, token)
        PROVE  registry'[i] \in cuts' \/ i \in behind'
    BY <2>1 DEF WritePage, StorePage, Assign, Given, Pass, clientVars, Missed,
                MissedOnlyTiesAndLate
  <2>2. ASSUME NEW touched \in SUBSET Ids, NEW token \in 1 .. MaxToken,
               WriteElsewhere(touched, token)
        PROVE  registry'[i] \in cuts' \/ i \in behind'
    BY <2>2 DEF WriteElsewhere, Touch, Assign, Given, Pass, clientVars, Missed,
                MissedOnlyTiesAndLate
  <2>3. CASE Poll  BY <2>3, PollMisses DEF MissedOnlyTiesAndLate
  <2>4. CASE UNCHANGED feedVars
    BY <2>4 DEF feedVars, Missed, MissedOnlyTiesAndLate
  <2>. QED  BY <2>1, <2>2, <2>3, <2>4 DEF FeedNext
<1>. QED  BY <1>1, <1>2, FeedTypes, PTL DEF FeedSpec

-------------------------------------------------------------------------------
(* Columns.                                                                *)

Types == ToSet(EntityTypes)
Fields(e) == ToSet(e.fields)

LEMMA OneField ==
  ASSUME NEW e \in Types, NEW f \in Fields(e)
  PROVE  /\ FieldsNamed(e, f.name) = {f} /\ FieldNamed(e, f.name) = f
         /\ \A g \in Fields(e) : SqlName[g.name] = SqlName[f.name] => g = f
         /\ f.kind \in {"attribute", "relation"} /\ f.min \in Nat
         /\ f.many \in BOOLEAN /\ f.nillable \in BOOLEAN
         /\ SqlName[f.name] \notin OwnColumns \cup {"atom_updated_at"}
         /\ f.kind = "attribute" => SqlType(f.type) # "uuid"
<1>1. /\ \A g \in Fields(e) : SqlName[g.name] = SqlName[f.name] => g = f
      /\ f.kind \in {"attribute", "relation"} /\ f.min \in Nat
      /\ f.many \in BOOLEAN /\ f.nillable \in BOOLEAN
      /\ SqlName[f.name] \notin OwnColumns \cup {"atom_updated_at"}
      /\ f.kind = "attribute" => SqlType(f.type) # "uuid"
  BY FieldsAssumption DEF Types, Fields
<1>2. FieldsNamed(e, f.name) = {f}  BY <1>1 DEF FieldsNamed, Fields
<1>3. FieldNamed(e, f.name) = f  BY <1>2 DEF FieldNamed
<1>. QED  BY <1>1, <1>2, <1>3

Single(e) == {f \in Attributes(e) : ~f.many}

LEMMA FieldColumnsOf ==
  ASSUME NEW e \in Types
  PROVE  /\ DOMAIN FieldColumns(Single(e)) = {SqlName[f.name] : f \in Single(e)}
         /\ \A f \in Single(e) : FieldColumns(Single(e))[SqlName[f.name]] = FieldColumn(f)
<1>1. DOMAIN FieldColumns(Single(e)) = {SqlName[f.name] : f \in Single(e)}  BY DEF FieldColumns
<1>2. ASSUME NEW f \in Single(e)
      PROVE  FieldColumns(Single(e))[SqlName[f.name]] = FieldColumn(f)
  <2>1. \A g \in Single(e) : SqlName[g.name] = SqlName[f.name] => g = f
    BY OneField DEF Single, Attributes, Fields
  <2>2. (CHOOSE g \in Single(e) : SqlName[g.name] = SqlName[f.name]) = f  BY <2>1
  <2>. QED  BY <2>2 DEF FieldColumns
<1>. QED  BY <1>1, <1>2

LEMMA Columned ==
  ASSUME NEW e \in Types
  PROVE  LET columns == EntityTable(e).columns IN
         /\ "source_category" \in DOMAIN columns /\ "source_id" \in DOMAIN columns
         /\ "latest_skiptoken" \in DOMAIN columns /\ "source_updated_at" \in DOMAIN columns
         /\ DOMAIN columns \ (OwnColumns \cup {"atom_updated_at"}) =
              {SqlName[f.name] : f \in Single(e)}
         /\ \A f \in Single(e) : columns[SqlName[f.name]] = FieldColumn(f)
<1> DEFINE M == MetadataColumns
           A == AttributeColumns(OwnAttributes(e))
           N == NullableColumns("text", IF e.download THEN {"enclosure_url"} ELSE {})
           F == FieldColumns(Single(e))
           MA == M ++ A
           MAN == MA ++ N
           columns == EntityTable(e).columns
<1>1. columns = MAN ++ F
  BY DEF EntityTable, Constrained, Table, Single
<1>4. DOMAIN M = {"source_category", "source_id", "latest_skiptoken", "deleted",
                  "source_updated_at", "atom_updated_at"}
  BY DEF MetadataColumns, Columns, ++
<1>5. DOMAIN A \subseteq OwnColumns
  BY FieldsAssumption DEF AttributeColumns, Types
<1>6. DOMAIN N \subseteq OwnColumns
  BY DEF NullableColumns, OwnColumns
<1>7. /\ DOMAIN F = {SqlName[f.name] : f \in Single(e)}
      /\ \A f \in Single(e) : F[SqlName[f.name]] = FieldColumn(f)
  BY FieldColumnsOf
<1>8. \A f \in Single(e) : SqlName[f.name] \notin OwnColumns \cup {"atom_updated_at"}
  BY OneField DEF Single, Attributes, Fields
<1>. HIDE DEF M, A, N, F
<1>9. DOMAIN MA = DOMAIN M \cup DOMAIN A  BY DEF ++
<1>. HIDE DEF MA
<1>10. DOMAIN MAN = DOMAIN MA \cup DOMAIN N  BY DEF ++
<1>. HIDE DEF MAN, columns
<1>11. DOMAIN columns = DOMAIN MAN \cup DOMAIN F  BY <1>1 DEF ++
<1>12. \A n \in DOMAIN F : n \notin DOMAIN MAN => columns[n] = F[n]  BY <1>1 DEF ++
<1>13. DOMAIN M \subseteq OwnColumns \cup {"atom_updated_at"}  BY <1>4 DEF OwnColumns
<1>14. DOMAIN MAN \subseteq OwnColumns \cup {"atom_updated_at"}
  BY <1>5, <1>6, <1>9, <1>10, <1>13
<1>15. \A f \in Single(e) : columns[SqlName[f.name]] = FieldColumn(f)
  BY <1>7, <1>8, <1>12, <1>14
<1>16. DOMAIN columns \ (OwnColumns \cup {"atom_updated_at"}) = {SqlName[f.name] : f \in Single(e)}
  BY <1>7, <1>8, <1>11, <1>14
<1>17. /\ "source_category" \in DOMAIN columns /\ "source_id" \in DOMAIN columns
       /\ "latest_skiptoken" \in DOMAIN columns /\ "source_updated_at" \in DOMAIN columns
  BY <1>4, <1>9, <1>10, <1>11
<1>. QED  BY <1>15, <1>16, <1>17 DEF columns

-------------------------------------------------------------------------------
(* What the parser accepts.                                                *)

LEMMA EntityNamed ==
  ASSUME NEW c, NEW e \in EntitiesNamed(c)
  PROVE  /\ e \in Types /\ EntityOf(c) = e /\ EntityOf(e.category) = e
         /\ (CHOOSE x \in EntitiesNamed(c) : TRUE) = e
<1>1. \A n : \A d \in EntitiesNamed(n) : \A x \in EntitiesNamed(n) : d = x
  BY EntitiesAssumption DEF EntitiesNamed
<1>2. e \in Types /\ e \in EntitiesNamed(e.category)  BY DEF EntitiesNamed, Types
<1>. QED  BY <1>1, <1>2 DEF EntityOf

LEMMA ParsedBinds ==
  ASSUME NEW type, NEW text, ParsesAs(Datatype(type), text), SqlType(type) # "uuid",
         text \in DOMAIN Rank \ {NoValue}
  PROVE  LET value == ParsedValue(Datatype(type), text) IN
         Binds(SqlType(type), value) /\ value.of \in DOMAIN Rank \ {NoValue}
<1> DEFINE value == ParsedValue(Datatype(type), text)
<1>1. value.of \in DOMAIN Rank \ {NoValue}
  BY NoValueAssumption, RankAssumption DEF ParsedValue
<1>2. Binds(SqlType(type), value)
  <2>1. CASE type \in {"xs:boolean", "booleanType"}
    <3>1. Datatype(type) = "bool" /\ SqlType(type) = "boolean"
      BY <2>1 DEF Datatype, SqlType
    <3>. QED  BY <3>1 DEF ParsedValue, Binds
  <2>2. CASE type \in {"xs:int", "xs:unsignedInt", "intType"}
    <3>1. Datatype(type) = "i32" /\ SqlType(type) = "integer"
      BY <2>2 DEF Datatype, SqlType
    <3>. QED  BY <3>1 DEF ParsedValue, Binds, ParsesAs
  <2>3. CASE type = "xs:long"
    <3>1. Datatype(type) = "i64" /\ SqlType(type) = "bigint"
      BY <2>3 DEF Datatype, SqlType
    <3>. QED  BY <3>1 DEF ParsedValue, Binds
  <2>4. CASE type = "xs:date"
    <3>1. Datatype(type) = "date" /\ SqlType(type) = "date"
      BY <2>4 DEF Datatype, SqlType
    <3>. QED  BY <3>1 DEF ParsedValue, Binds
  <2>5. CASE type = "xs:dateTime"
    <3>1. Datatype(type) = "datetime" /\ SqlType(type) = "timestamptz"
      BY <2>5 DEF Datatype, SqlType
    <3>. QED  BY <3>1 DEF ParsedValue, Binds
  <2>6. CASE type \notin {"xs:boolean", "booleanType", "xs:int", "xs:unsignedInt", "intType",
                          "xs:long", "xs:date", "xs:dateTime"}
    <3>1. Datatype(type) = "text" /\ SqlType(type) = "text"
      BY <2>6 DEF Datatype, SqlType
    <3>. QED  BY <3>1 DEF ParsedValue, Binds
  <2>. QED  BY <2>1, <2>2, <2>3, <2>4, <2>5, <2>6
<1>. QED  BY <1>1, <1>2

(* Name and ordinal tell the children apart.                               *)
LEMMA OrdinalsDiffer ==
  ASSUME NEW children, Len(children) \in Nat, DOMAIN children = 1 .. Len(children),
         NEW i \in DOMAIN children, NEW j \in DOMAIN children,
         children[i].name = children[j].name, Ordinal(children, i) = Ordinal(children, j)
  PROVE  i = j
<1> DEFINE Same(k) == {m \in 1 .. k : children[m].name = children[k].name}
<1>1. ASSUME NEW k \in DOMAIN children, NEW m \in DOMAIN children, k < m,
             children[k].name = children[m].name, Ordinal(children, k) = Ordinal(children, m)
      PROVE  FALSE
  <2>1. IsFiniteSet(Same(m)) /\ Same(k) \subseteq Same(m)
    <3>1. IsFiniteSet(1 .. m)  BY FS_Interval
    <3>. QED  BY <1>1, <3>1, FS_Subset
  <2>2. m \in Same(m) /\ m \notin Same(k)  BY <1>1
  <2>3. Cardinality(Same(k)) = Cardinality(Same(m))  BY <1>1 DEF Ordinal
  <2>. HIDE DEF Same
  <2>4. Same(k) = Same(m)  BY <2>1, <2>3, FS_Subset
  <2>. QED  BY <2>2, <2>4
<1>. QED  BY <1>1

IsScalar(e, s) ==
  \E f \in Attributes(e) :
    /\ ~f.many => s.ordinal = 1
    /\ s = [name |-> f.name, ordinal |-> s.ordinal, value |-> s.value]
    /\ Binds(SqlType(f.type), s.value) /\ s.value.of \in DOMAIN Rank \ {NoValue}

IsRelation(e, r) ==
  \E f \in Relations(e) :
    /\ r = [name |-> f.name, ordinal |-> r.ordinal,
            category |-> InferTargetCategory(f.name), id |-> r.id]
    /\ ~f.many => r.ordinal = 1

Apart(parts) == \A s, t \in parts : s.name = t.name /\ s.ordinal = t.ordinal => s = t

(* An entity as it is parsed for a type.                                   *)
WellParsed(e, p) ==
  /\ p.category = e.category /\ p.deleted \in BOOLEAN
  /\ p.id \in Reads["uuid"] /\ p.updated \in Reads["datetime"]
  /\ \A s \in p.scalars : IsScalar(e, s)
  /\ \A r \in p.relations : IsRelation(e, r)
  /\ Apart(p.scalars) /\ Apart(p.relations)
  /\ p.deleted => p.scalars = {} /\ p.relations = {}
  /\ ~p.deleted => \A f \in Attributes(e) : f.min > 0 /\ ~f.nillable =>
       \E s \in p.scalars : s.name = f.name

GoodXml(xml) ==
  /\ xml.children \in Seq(ToSet(xml.children))
  /\ \A child \in ToSet(xml.children) : child.nil \in BOOLEAN /\ child.text \in DOMAIN Rank \ {NoValue}

LEMMA ParsedWell ==
  ASSUME NEW c, NEW xml, NEW enclosure, GoodXml(xml), AcceptsEntity(c, xml)
  PROVE  \E e \in EntitiesNamed(c) : e = EntityOf(c) /\ WellParsed(e, ParsedEntity(c, xml, enclosure))
<1>1. PICK e \in EntitiesNamed(c) :
        /\ AcceptsBaseAttributes(e, xml.attributes)
        /\ IsDeleted(xml) \/ AcceptsChildren(e, xml.children)
  BY DEF AcceptsEntity
<1>2. e \in Types /\ EntityOf(c) = e /\ (CHOOSE x \in EntitiesNamed(c) : TRUE) = e
  BY EntityNamed
<1> DEFINE p == ParsedEntity(c, xml, enclosure)
           children == xml.children
           A == Kept(e, xml, "attribute")
           R == Kept(e, xml, "relation")
<1>3. /\ p.category = e.category /\ p.deleted = IsDeleted(xml)
      /\ p.scalars = {ParsedScalar(e, children, i) : i \in A}
      /\ p.relations = {ParsedRelation(children, i) : i \in R}
  BY <1>2 DEF ParsedEntity
<1>4. /\ Len(children) \in Nat /\ DOMAIN children = 1 .. Len(children)
      /\ \A i \in DOMAIN children : children[i].nil \in BOOLEAN /\ children[i].text \in DOMAIN Rank \ {NoValue}
  BY DEF GoodXml, ToSet
<1>5. ASSUME NEW i \in DOMAIN children, ~IsDeleted(xml)
      PROVE  \E f \in Fields(e) :
               /\ f.name = children[i].name /\ FieldNamed(e, children[i].name) = f
               /\ ~f.many => Ordinal(children, i) = 1
               /\ AcceptsChild(f, children[i])
  <2>1. PICK f \in FieldsNamed(e, children[i].name) :
          (~f.many => Ordinal(children, i) = 1) /\ AcceptsChild(f, children[i])
    BY <1>1, <1>5 DEF AcceptsChildren
  <2>2. f \in Fields(e) /\ f.name = children[i].name  BY DEF FieldsNamed, Fields
  <2>. QED  BY <1>2, <2>1, <2>2, OneField
<1>6. ASSUME NEW s \in p.scalars PROVE IsScalar(e, s)
  <2>1. PICK i \in A : s = ParsedScalar(e, children, i)  BY <1>3
  <2>2. /\ i \in DOMAIN children /\ ~IsDeleted(xml) /\ ~children[i].nil
        /\ FieldNamed(e, children[i].name).kind = "attribute"
    BY DEF Kept
  <2>3. PICK f \in Fields(e) :
               /\ f.name = children[i].name /\ FieldNamed(e, children[i].name) = f
               /\ ~f.many => Ordinal(children, i) = 1
               /\ AcceptsChild(f, children[i])
    BY <1>5, <2>2
  <2>4. f.kind = "attribute" /\ f \in Attributes(e)  BY <2>2, <2>3 DEF Attributes, Fields
  <2>5. ParsesAs(Datatype(f.type), children[i].text)  BY <2>2, <2>3, <2>4 DEF AcceptsChild
  <2>6. SqlType(f.type) # "uuid"  BY <1>2, <2>3, <2>4, OneField
  <2>7. Binds(SqlType(f.type), ParsedValue(Datatype(f.type), children[i].text))
        /\ ParsedValue(Datatype(f.type), children[i].text).of \in DOMAIN Rank \ {NoValue}
    BY <1>4, <2>2, <2>5, <2>6, ParsedBinds
  <2>8. s = [name |-> f.name, ordinal |-> Ordinal(children, i),
             value |-> ParsedValue(Datatype(f.type), children[i].text)]
    BY <2>1, <2>3 DEF ParsedScalar
  <2>. QED  BY <2>3, <2>4, <2>7, <2>8 DEF IsScalar
<1>7. ASSUME NEW r \in p.relations PROVE IsRelation(e, r)
  <2>1. PICK i \in R : r = ParsedRelation(children, i)  BY <1>3
  <2>2. /\ i \in DOMAIN children /\ ~IsDeleted(xml)
        /\ FieldNamed(e, children[i].name).kind = "relation"
    BY DEF Kept
  <2>3. PICK f \in Fields(e) :
               /\ f.name = children[i].name /\ FieldNamed(e, children[i].name) = f
               /\ ~f.many => Ordinal(children, i) = 1
    BY <1>5, <2>2
  <2>4. f \in Relations(e)  BY <2>2, <2>3 DEF Relations, Fields
  <2>5. r = [name |-> f.name, ordinal |-> Ordinal(children, i),
             category |-> InferTargetCategory(children[i].name), id |-> children[i].ref]
    BY <2>1, <2>3 DEF ParsedRelation
  <2>. QED  BY <2>3, <2>4, <2>5 DEF IsRelation
<1>8. Apart(p.scalars)
  <2>1. ASSUME NEW s \in p.scalars, NEW t \in p.scalars, s.name = t.name, s.ordinal = t.ordinal
        PROVE  s = t
    <3>1. PICK i \in A, j \in A : s = ParsedScalar(e, children, i) /\ t = ParsedScalar(e, children, j)
      BY <1>3
    <3>2. i \in DOMAIN children /\ j \in DOMAIN children  BY DEF Kept
    <3>3. children[i].name = children[j].name /\ Ordinal(children, i) = Ordinal(children, j)
      BY <2>1, <3>1 DEF ParsedScalar
    <3>4. i = j  BY <1>4, <3>2, <3>3, OrdinalsDiffer
    <3>. QED  BY <3>1, <3>4
  <2>. QED  BY <2>1 DEF Apart
<1>9. Apart(p.relations)
  <2>1. ASSUME NEW s \in p.relations, NEW t \in p.relations, s.name = t.name, s.ordinal = t.ordinal
        PROVE  s = t
    <3>1. PICK i \in R, j \in R : s = ParsedRelation(children, i) /\ t = ParsedRelation(children, j)
      BY <1>3
    <3>2. i \in DOMAIN children /\ j \in DOMAIN children  BY DEF Kept
    <3>3. children[i].name = children[j].name /\ Ordinal(children, i) = Ordinal(children, j)
      BY <2>1, <3>1 DEF ParsedRelation
    <3>4. i = j  BY <1>4, <3>2, <3>3, OrdinalsDiffer
    <3>. QED  BY <3>1, <3>4
  <2>. QED  BY <2>1 DEF Apart
<1>10. p.deleted => p.scalars = {} /\ p.relations = {}
  BY <1>3 DEF Kept
<1>11. ASSUME ~p.deleted, NEW f \in Attributes(e), f.min > 0, ~f.nillable
       PROVE  \E s \in p.scalars : s.name = f.name
  <2>1. ~IsDeleted(xml) /\ AcceptsChildren(e, children)  BY <1>1, <1>3, <1>11
  <2>2. f \in Fields(e) /\ f.kind = "attribute"  BY DEF Attributes, Fields
  <2>3. PICK i \in DOMAIN children : children[i].name = f.name
    BY <1>11, <2>1, <2>2 DEF AcceptsChildren, Fields
  <2>4. PICK g \in Fields(e) : /\ g.name = children[i].name
                               /\ FieldNamed(e, children[i].name) = g
                               /\ AcceptsChild(g, children[i])
    BY <1>5, <2>1
  <2>5. g = f  BY <1>2, <2>2, <2>3, <2>4, OneField
  <2>6. ~children[i].nil  BY <1>4, <1>11, <2>4, <2>5 DEF AcceptsChild
  <2>7. i \in A  BY <2>1, <2>2, <2>4, <2>5, <2>6 DEF Kept
  <2>8. ParsedScalar(e, children, i) \in p.scalars  BY <1>3, <2>7
  <2>. QED  BY <2>3, <2>8 DEF ParsedScalar
<1>12. p.deleted \in BOOLEAN  BY <1>3 DEF IsDeleted
<1>13. p.id \in Reads["uuid"] /\ p.updated \in Reads["datetime"]
  <2>1. p.id = xml.attributes["id"] /\ p.updated = xml.attributes["bijgewerkt"]
    BY DEF ParsedEntity
  <2>. HIDE DEF p
  <2>. QED  BY <1>1, <2>1, NoValueAssumption DEF AcceptsBaseAttributes, Attribute
<1>. HIDE DEF p
<1>14. WellParsed(e, p)  BY <1>3, <1>6, <1>7, <1>8, <1>9, <1>10, <1>11, <1>12, <1>13 DEF WellParsed
<1>. QED  BY <1>2, <1>14 DEF p

-------------------------------------------------------------------------------
(* What is parsed can be stored.                                           *)

LEMMA LastOfBoth ==
  ASSUME NEW S, NEW s \in Seq(S), NEW t \in Seq(S), Len(t) # 0
  PROVE  /\ s \o t \in Seq(S) /\ Len(s \o t) # 0
         /\ (s \o t)[Len(s \o t)] = t[Len(t)]
<1>1. Len(s \o t) = Len(s) + Len(t) /\ Len(s) \in Nat /\ Len(t) \in Nat /\ s \o t \in Seq(S)
  OBVIOUS
<1>2. Len(s) + Len(t) \in 1 .. Len(s) + Len(t) /\ Len(s) + Len(t) > Len(s)  BY <1>1
<1>3. (s \o t)[Len(s) + Len(t)] = t[Len(s) + Len(t) - Len(s)]  BY <1>1, <1>2
<1>. QED  BY <1>1, <1>3

LEMMA RelationTableOf ==
  ASSUME NEW e, NEW f
  PROVE  LET table == RelationTable(e, f) IN
         /\ table.name = <<SqlName[e.category], SqlName[f.name]>>
         /\ \E i \in DOMAIN table.key : table.key[i] = "ordinal"
         /\ table.uniques = IF f.many THEN {} ELSE {Append(Identity, "relation_name")}
<1> DEFINE table == RelationTable(e, f)
           parts == <<"relation_name">> \o Target \o <<"ordinal">>
           Names == {"source_category", "source_id", "relation_name", "target_category",
                     "target_id", "ordinal"}
<1>1. /\ table.name = <<SqlName[e.category], SqlName[f.name]>>
      /\ table.key = Identity \o parts
      /\ table.uniques = IF f.many THEN {} ELSE {Append(Identity, "relation_name")}
  BY DEF RelationTable, Constrained, PartTable, Table, PartName
<1>2. Identity \in Seq(Names) /\ <<"relation_name">> \o Target \in Seq(Names)
      /\ <<"ordinal">> \in Seq(Names)
  <2>1. \A s, t \in Seq(Names) : s \o t \in Seq(Names)  OBVIOUS
  <2>2. <<"relation_name">> \in Seq(Names) /\ <<"ordinal">> \in Seq(Names)  OBVIOUS
  <2>3. Identity \in Seq(Names)  BY DEF Identity
  <2>4. Target \in Seq(Names)  BY DEF Target
  <2>. QED  BY <2>1, <2>2, <2>3, <2>4
<1>3. parts \in Seq(Names) /\ Len(parts) # 0 /\ parts[Len(parts)] = "ordinal"
  <2>1. Len(<<"ordinal">>) = 1 /\ <<"ordinal">>[1] = "ordinal"  OBVIOUS
  <2>. QED  BY <1>2, <2>1, LastOfBoth
<1>. HIDE DEF parts
<1>4. /\ Identity \o parts \in Seq(Names) /\ Len(Identity \o parts) # 0
      /\ (Identity \o parts)[Len(Identity \o parts)] = "ordinal"
  BY <1>2, <1>3, LastOfBoth
<1>. HIDE DEF table
<1>5. \E i \in DOMAIN table.key : table.key[i] = "ordinal"
  <2>1. PICK key : key = table.key  OBVIOUS
  <2>2. key \in Seq(Names) /\ Len(key) # 0 /\ key[Len(key)] = "ordinal"
    BY <1>1, <1>4, <2>1
  <2>3. Len(key) \in DOMAIN key  BY <2>2
  <2>. QED  BY <2>1, <2>2, <2>3
<1>. QED  BY <1>1, <1>5 DEF table

LEMMA RepeatedTableOf ==
  ASSUME NEW e, NEW f
  PROVE  LET table == RepeatedScalarTable(e, f) IN
         /\ table.name = <<SqlName[e.category], SqlName[f.name]>>
         /\ table.columns["value"] = Column(SqlType(f.type), f.nillable)
<1> DEFINE V == [value |-> Column(SqlType(f.type), f.nillable)]
           C == Columns("text", {"source_category"}) ++ Columns("uuid", {"source_id"})
                ++ Columns("integer", {"ordinal"})
           table == RepeatedScalarTable(e, f)
<1>1. /\ table.name = <<SqlName[e.category], SqlName[f.name]>>
      /\ table.columns = C ++ V
  BY DEF RepeatedScalarTable, Constrained, PartTable, Table, PartName
<1>2. "value" \notin DOMAIN C  BY DEF Columns, ++
<1>3. "value" \in DOMAIN V /\ V["value"] = Column(SqlType(f.type), f.nillable)  OBVIOUS
<1>. HIDE DEF C, V
<1>4. (C ++ V)["value"] = V["value"]  BY <1>2, <1>3 DEF ++
<1>. HIDE DEF table
<1>5. table.columns["value"] = Column(SqlType(f.type), f.nillable)  BY <1>1, <1>3, <1>4
<1>. QED  BY <1>1, <1>5 DEF table

RelationRow(e, p, r) ==
  [table |-> <<SqlName[e.category], SqlName[r.name]>>, source_category |-> p.category,
   source_id |-> p.id, relation_name |-> r.name, target_category |-> r.category,
   target_id |-> r.id, ordinal |-> r.ordinal]

ScalarRow(e, p, s) ==
  [table |-> <<SqlName[e.category], SqlName[s.name]>>, source_category |-> p.category,
   source_id |-> p.id, ordinal |-> s.ordinal, value |-> s.value.of]

Repeated(e, p) == {s \in p.scalars : FieldNamed(e, s.name).many}

LEMMA RowsOfRelations ==
  ASSUME NEW e \in Types, NEW p, WellParsed(e, p)
  PROVE  RelationRows(e, p) = {RelationRow(e, p, r) : r \in p.relations}
<1> DEFINE Part(f) == {[table |-> RelationTable(e, f).name, source_category |-> p.category,
             source_id |-> p.id, relation_name |-> r.name,
             target_category |-> r.category, target_id |-> r.id, ordinal |-> r.ordinal] :
             r \in {x \in p.relations : SqlName[x.name] = RelationTable(e, f).name[2]}}
<1>1. RelationRows(e, p) = UNION {Part(f) : f \in Relations(e)}
  BY DEF RelationRows
<1>2. ASSUME NEW f \in Relations(e)
      PROVE  Part(f) = {RelationRow(e, p, r) : r \in {x \in p.relations : SqlName[x.name] = SqlName[f.name]}}
  <2>1. RelationTable(e, f).name = <<SqlName[e.category], SqlName[f.name]>>
    BY RelationTableOf
  <2>. QED  BY <2>1 DEF RelationRow
<1>3. ASSUME NEW r \in p.relations
      PROVE  \E f \in Relations(e) : SqlName[r.name] = SqlName[f.name]
  BY DEF WellParsed, IsRelation
<1>. HIDE DEF Part
<1>. QED  BY <1>1, <1>2, <1>3

LEMMA RowsOfScalars ==
  ASSUME NEW e \in Types, NEW p, WellParsed(e, p)
  PROVE  ScalarRows(e, p) = {ScalarRow(e, p, s) : s \in Repeated(e, p)}
<1> DEFINE Part(f) == {[table |-> RepeatedScalarTable(e, f).name, source_category |-> p.category,
             source_id |-> p.id, ordinal |-> s.ordinal, value |-> s.value.of] :
             s \in {x \in p.scalars : x.name = f.name}}
<1>1. ScalarRows(e, p) = UNION {Part(f) : f \in RepeatedScalars(e)}
  BY DEF ScalarRows
<1>2. ASSUME NEW f \in RepeatedScalars(e)
      PROVE  Part(f) = {ScalarRow(e, p, s) : s \in {x \in p.scalars : x.name = f.name}}
  <2>1. RepeatedScalarTable(e, f).name = <<SqlName[e.category], SqlName[f.name]>>
    BY RepeatedTableOf
  <2>. QED  BY <2>1 DEF ScalarRow
<1>3. ASSUME NEW s \in p.scalars
      PROVE  s \in Repeated(e, p) <=> \E f \in RepeatedScalars(e) : s.name = f.name
  <2>1. PICK f \in Attributes(e) : s.name = f.name  BY DEF WellParsed, IsScalar
  <2>2. \A g \in Attributes(e) : g \in Fields(e) /\ FieldNamed(e, g.name) = g
    BY OneField DEF Attributes, Fields
  <2>. QED  BY <2>1, <2>2 DEF RepeatedScalars, Repeated
<1>. HIDE DEF Part
<1>4. \A s \in Repeated(e, p) : s \in p.scalars  BY DEF Repeated
<1>. QED  BY <1>1, <1>2, <1>3, <1>4

LEMMA ParsedStorable ==
  ASSUME NEW e \in Types, NEW p, WellParsed(e, p),
         "content_length" \in DOMAIN EntityTable(e).columns => Optional("i32", p.contentLength)
  PROVE  Storable(e, p)
<1>1. CASE p.deleted  BY <1>1 DEF Storable
<1>2. CASE ~p.deleted
  <2> DEFINE columns == EntityTable(e).columns
  <2>1. ASSUME NEW n \in DOMAIN columns \ (OwnColumns \cup {"atom_updated_at"})
        PROVE  /\ \A s \in ScalarsNamed(p, n) : Binds(columns[n].type, s.value)
               /\ ScalarsNamed(p, n) = {} => columns[n].nullable
    <3>1. PICK f \in Single(e) : n = SqlName[f.name] /\ columns[n] = FieldColumn(f)
      BY Columned
    <3>2. f \in Fields(e) /\ f \in Attributes(e)  BY DEF Single, Attributes, Fields
    <3>3. /\ columns[n].type = SqlType(f.type)
          /\ columns[n].nullable = (f.min = 0 \/ f.nillable)
      BY <3>1 DEF FieldColumn, Column
    <3>4. ASSUME NEW s \in ScalarsNamed(p, n) PROVE Binds(columns[n].type, s.value)
      <4>1. s \in p.scalars /\ SqlName[s.name] = SqlName[f.name]  BY <3>1 DEF ScalarsNamed
      <4>2. PICK g \in Attributes(e) : s.name = g.name /\ Binds(SqlType(g.type), s.value)
        BY <4>1 DEF WellParsed, IsScalar
      <4>3. g = f  BY <3>2, <4>1, <4>2, OneField DEF Attributes, Fields
      <4>. QED  BY <3>3, <4>2, <4>3
    <3>5. ASSUME ScalarsNamed(p, n) = {} PROVE columns[n].nullable
      <4>1. ~\E s \in p.scalars : s.name = f.name  BY <3>1, <3>5 DEF ScalarsNamed
      <4>2. ~(f.min > 0 /\ ~f.nillable)  BY <1>2, <3>2, <4>1 DEF WellParsed
      <4>3. f.min \in Nat  BY <3>2, OneField
      <4>4. f.min = 0 \/ f.nillable  BY <4>2, <4>3
      <4>. QED  BY <3>3, <4>4
    <3>. QED  BY <3>4, <3>5
  <2>2. StorableRow(EntityTable(e), p)  BY <2>1 DEF StorableRow
  <2>3. UniqueRows(e, RelationRows(e, p))
    <3>1. SUFFICES ASSUME NEW f \in Relations(e),
                          NEW unique \in RelationTable(e, f).uniques \cup {RelationTable(e, f).key},
                          NEW r \in RelationRows(e, p), NEW s \in RelationRows(e, p),
                          r.table = RelationTable(e, f).name, s.table = RelationTable(e, f).name,
                          \A i \in DOMAIN unique : r[unique[i]] = s[unique[i]]
                   PROVE  r = s
      BY DEF UniqueRows
    <3>2. PICK x \in p.relations, y \in p.relations :
            r = RelationRow(e, p, x) /\ s = RelationRow(e, p, y)
      BY RowsOfRelations
    <3>3. SqlName[x.name] = SqlName[f.name] /\ SqlName[y.name] = SqlName[f.name]
      BY <3>1, <3>2, RelationTableOf DEF RelationRow
    <3>5. x.name = f.name /\ y.name = f.name
      <4>1. \A k \in Relations(e) : k \in Fields(e)  BY DEF Relations, Fields
      <4>2. PICK k \in Relations(e), l \in Relations(e) : x.name = k.name /\ y.name = l.name
        BY DEF WellParsed, IsRelation
      <4>. QED  BY <3>3, <4>1, <4>2, OneField
    <3>6. x.ordinal = y.ordinal
      <4>1. CASE unique = RelationTable(e, f).key
        <5>2. PICK i \in DOMAIN unique : unique[i] = "ordinal"  BY <4>1, RelationTableOf
        <5>3. r["ordinal"] = s["ordinal"]  BY <3>1, <5>2
        <5>. QED  BY <3>2, <5>3 DEF RelationRow
      <4>2. CASE unique # RelationTable(e, f).key
        <5>1. ~f.many  BY <4>2, RelationTableOf
        <5>2. ASSUME NEW z \in p.relations, z.name = f.name PROVE z.ordinal = 1
          <6>1. PICK k \in Relations(e) : z.name = k.name /\ (~k.many => z.ordinal = 1)
            BY DEF WellParsed, IsRelation
          <6>2. k \in Fields(e) /\ f \in Fields(e)  BY DEF Relations, Fields
          <6>3. k = f  BY ZenonT(60), <5>2, <6>1, <6>2, OneField
          <6>. QED  BY <5>1, <6>1, <6>3
        <5>. QED  BY <3>5, <5>2
      <4>. QED  BY <4>1, <4>2
    <3>7. x = y  BY <3>5, <3>6 DEF WellParsed, Apart
    <3>. QED  BY <3>2, <3>7
  <2>4. StorableScalars(e, p)
    <3>1. SUFFICES ASSUME NEW f \in RepeatedScalars(e), NEW s \in p.scalars, s.name = f.name
                   PROVE  Binds(RepeatedScalarTable(e, f).columns["value"].type, s.value)
      BY DEF StorableScalars
    <3>2. PICK g \in Attributes(e) : s.name = g.name /\ Binds(SqlType(g.type), s.value)
      BY DEF WellParsed, IsScalar
    <3>3. g = f  BY <3>1, <3>2, OneField DEF RepeatedScalars, Attributes, Fields
    <3>4. RepeatedScalarTable(e, f).columns["value"].type = SqlType(f.type)
      <4>1. PICK column : column = RepeatedScalarTable(e, f).columns["value"]  OBVIOUS
      <4>2. column = Column(SqlType(f.type), f.nillable)  BY <4>1, RepeatedTableOf
      <4>3. column.type = SqlType(f.type)  BY <4>2 DEF Column
      <4>. QED  BY <4>1, <4>3
    <3>. QED  BY <3>2, <3>3, <3>4
  <2>. QED  BY <2>2, <2>3, <2>4 DEF Storable
<1>. QED  BY <1>1, <1>2

-------------------------------------------------------------------------------
(* What is stored of an entity.                                            *)

LEMMA ScalarsOfRow ==
  ASSUME NEW e \in Types, NEW p, WellParsed(e, p), NEW token
  PROVE  ScalarsIn(EntityRow(EntityTable(e), p, token)) =
           {<<SqlName[s.name], s.value.of>> : s \in p.scalars \ Repeated(e, p)}
<1> DEFINE columns == EntityTable(e).columns
           row == EntityRow(EntityTable(e), p, token)
           Value(n) == IF n \in OwnColumns \/ ScalarsNamed(p, n) = {} THEN OwnColumn(p, token, n)
                       ELSE (CHOOSE s \in ScalarsNamed(p, n) : TRUE).value.of
<1>1. row = [n \in DOMAIN columns \ {"atom_updated_at"} |-> Value(n)]  BY DEF EntityRow
<1>2. DOMAIN row \ OwnColumns = {SqlName[f.name] : f \in Single(e)}
  <2>1. DOMAIN row = DOMAIN columns \ {"atom_updated_at"}  BY <1>1
  <2>2. DOMAIN columns \ (OwnColumns \cup {"atom_updated_at"}) = {SqlName[f.name] : f \in Single(e)}
    BY Columned
  <2>. QED  BY <2>1, <2>2
<1>3. ASSUME NEW n \in DOMAIN row \ OwnColumns PROVE row[n] = Value(n)
  BY <1>1
<1>. HIDE DEF row
<1>4. ASSUME NEW f \in Single(e), NEW s \in ScalarsNamed(p, SqlName[f.name])
      PROVE  /\ s \in p.scalars \ Repeated(e, p)
             /\ ScalarsNamed(p, SqlName[f.name]) = {s}
             /\ s.value.of # NoValue
  <2>1. f \in Fields(e) /\ f \in Attributes(e) /\ ~f.many /\ FieldNamed(e, f.name) = f
    BY OneField DEF Single, Attributes, Fields
  <2>2. ASSUME NEW t \in ScalarsNamed(p, SqlName[f.name])
        PROVE  t \in p.scalars /\ t.name = f.name /\ t.ordinal = 1 /\ t.value.of # NoValue
    <3>1. t \in p.scalars /\ SqlName[t.name] = SqlName[f.name]  BY DEF ScalarsNamed
    <3>3. PICK h \in Attributes(e) : /\ ~h.many => t.ordinal = 1
                                     /\ t = [name |-> h.name, ordinal |-> t.ordinal, value |-> t.value]
                                     /\ t.value.of # NoValue
      BY <3>1 DEF WellParsed, IsScalar
    <3>4. t.name = h.name  BY <3>3
    <3>5. h \in Fields(e)  BY DEF Attributes, Fields
    <3>6. h = f  BY <2>1, <3>1, <3>4, <3>5, OneField
    <3>. QED  BY <2>1, <3>1, <3>3, <3>4, <3>6
  <2>3. s \notin Repeated(e, p)  BY <2>1, <2>2 DEF Repeated
  <2>4. \A t \in ScalarsNamed(p, SqlName[f.name]) : t = s
    BY <2>2 DEF WellParsed, Apart
  <2>. QED  BY <2>2, <2>3, <2>4
<1>5. ASSUME NEW x \in ScalarsIn(row)
      PROVE  \E s \in p.scalars \ Repeated(e, p) : x = <<SqlName[s.name], s.value.of>>
  <2>1. PICK n \in DOMAIN row \ OwnColumns : row[n] # NoValue /\ x = <<n, row[n]>>
    BY DEF ScalarsIn
  <2>2. PICK f \in Single(e) : n = SqlName[f.name]  BY <1>2
  <2>3. CASE ScalarsNamed(p, n) = {}
    <3>1. row[n] = OwnColumn(p, token, n)  BY <1>3, <2>3
    <3>2. OwnColumn(p, token, n) = NoValue  BY DEF OwnColumn, OwnColumns
    <3>. QED  BY <2>1, <3>1, <3>2
  <2>4. CASE ScalarsNamed(p, n) # {}
    <3>1. PICK s \in ScalarsNamed(p, n) : TRUE  BY <2>4
    <3>2. s \in p.scalars \ Repeated(e, p) /\ ScalarsNamed(p, n) = {s}  BY <1>4, <2>2
    <3>3. (CHOOSE t \in ScalarsNamed(p, n) : TRUE) = s  BY <3>2
    <3>4. row[n] = s.value.of  BY <1>3, <2>4, <3>3
    <3>5. SqlName[s.name] = n  BY <3>1 DEF ScalarsNamed
    <3>. QED  BY <2>1, <3>2, <3>4, <3>5
  <2>. QED  BY <2>3, <2>4
<1>6. ASSUME NEW s \in p.scalars \ Repeated(e, p)
      PROVE  <<SqlName[s.name], s.value.of>> \in ScalarsIn(row)
  <2>1. PICK f \in Attributes(e) :
               s = [name |-> f.name, ordinal |-> s.ordinal, value |-> s.value]
    BY DEF WellParsed, IsScalar
  <2>2. s.name = f.name  BY <2>1
  <2>3. f \in Fields(e)  BY DEF Attributes, Fields
  <2>4. ~f.many  BY <2>2, <2>3, OneField DEF Repeated
  <2>5. f \in Single(e)  BY <2>4 DEF Single
  <2>6. PICK n : n = SqlName[f.name]  OBVIOUS
  <2>7. n \in DOMAIN row \ OwnColumns  BY <1>2, <2>5, <2>6
  <2>8. s \in ScalarsNamed(p, n)  BY <2>2, <2>6 DEF ScalarsNamed
  <2>9. ScalarsNamed(p, n) = {s} /\ s.value.of # NoValue  BY <1>4, <2>5, <2>6, <2>8
  <2>10. (CHOOSE t \in ScalarsNamed(p, n) : TRUE) = s  BY <2>9
  <2>11. row[n] = s.value.of  BY <1>3, <2>7, <2>9, <2>10
  <2>. QED  BY <2>2, <2>6, <2>7, <2>9, <2>11 DEF ScalarsIn
<1>. QED  BY <1>5, <1>6 DEF row

(* ... and what is not a field of it.                                      *)
LEMMA RowEnvelope ==
  ASSUME NEW e, NEW p, NEW token
  PROVE  LET row == EntityRow(EntityTable(e), p, token) IN
         \A n \in DOMAIN row \cap DOMAIN Envelope(p) : row[n] = Envelope(p)[n]
<1> DEFINE columns == EntityTable(e).columns
           row == EntityRow(EntityTable(e), p, token)
<1>1. DOMAIN Envelope(p) = {"source_category", "source_id", "source_updated_at",
                            "content_type", "content_length", "enclosure_url"}
  BY DEF Envelope
<1>2. ASSUME NEW n \in DOMAIN Envelope(p)
      PROVE  n \in OwnColumns /\ OwnColumn(p, token, n) = Envelope(p)[n]
  <2>1. n \in OwnColumns  BY <1>1 DEF OwnColumns
  <2>2. Envelope(p)["source_category"] = p.category /\ OwnColumn(p, token, "source_category") = p.category
    BY DEF Envelope, OwnColumn
  <2>3. Envelope(p)["source_id"] = p.id /\ OwnColumn(p, token, "source_id") = p.id
    BY DEF Envelope, OwnColumn
  <2>4. Envelope(p)["source_updated_at"] = p.updated /\ OwnColumn(p, token, "source_updated_at") = p.updated
    BY DEF Envelope, OwnColumn
  <2>5. Envelope(p)["content_type"] = p.contentType /\ OwnColumn(p, token, "content_type") = p.contentType
    BY DEF Envelope, OwnColumn
  <2>6. Envelope(p)["content_length"] = p.contentLength /\ OwnColumn(p, token, "content_length") = p.contentLength
    BY DEF Envelope, OwnColumn
  <2>7. Envelope(p)["enclosure_url"] = p.enclosure /\ OwnColumn(p, token, "enclosure_url") = p.enclosure
    BY DEF Envelope, OwnColumn
  <2>. QED  BY <1>1, <2>1, <2>2, <2>3, <2>4, <2>5, <2>6, <2>7
<1>3. ASSUME NEW n \in DOMAIN row, n \in OwnColumns PROVE row[n] = OwnColumn(p, token, n)
  BY <1>3 DEF EntityRow
<1>. HIDE DEF row
<1>. QED  BY <1>2, <1>3 DEF row

LEMMA RowIdentity ==
  ASSUME NEW e \in Types, NEW p, NEW token
  PROVE  /\ IdentityOf(EntityRow(EntityTable(e), p, token)) = IdOf(p)
         /\ \A r : IdentityOf(RelationRow(e, p, r)) = IdOf(p)
         /\ \A s : IdentityOf(ScalarRow(e, p, s)) = IdOf(p)
<1> DEFINE columns == EntityTable(e).columns
           row == EntityRow(EntityTable(e), p, token)
<1>1. "source_category" \in DOMAIN columns /\ "source_id" \in DOMAIN columns  BY Columned
<1>2. /\ OwnColumn(p, token, "source_category") = p.category
      /\ OwnColumn(p, token, "source_id") = p.id
  BY DEF OwnColumn
<1>3. row["source_category"] = p.category /\ row["source_id"] = p.id
  BY <1>1, <1>2 DEF EntityRow, OwnColumns
<1>4. row.source_category = p.category /\ row.source_id = p.id  BY <1>3
<1>5. IdentityOf(row) = IdOf(p)  BY <1>4 DEF IdentityOf, IdOf
<1>6. \A r : IdentityOf(RelationRow(e, p, r)) = IdOf(p)
  BY DEF IdentityOf, IdOf, RelationRow
<1>7. \A s : IdentityOf(ScalarRow(e, p, s)) = IdOf(p)
  BY DEF IdentityOf, IdOf, ScalarRow
<1>. QED  BY <1>5, <1>6, <1>7

(* The rows of a stored entity take the place of its old ones.             *)
Replaced(before, after, new, id) ==
  /\ \A r \in new : IdentityOf(r) = id
  /\ \A r : r \in after <=> r \in new \/ (r \in before /\ IdentityOf(r) # id)

LEMMA WrittenRows ==
  ASSUME NEW e \in Types, NEW p, WellParsed(e, p), NEW token, NEW d
  PROVE  LET after == EntityWritten(d, e, p, token)
             id == IdOf(p)
         IN /\ Replaced(d.entities, after.entities,
                        IF p.deleted THEN {} ELSE {EntityRow(EntityTable(e), p, token)}, id)
            /\ Replaced(d.relations, after.relations,
                        {RelationRow(e, p, r) : r \in p.relations}, id)
            /\ Replaced(d.scalars, after.scalars,
                        {ScalarRow(e, p, s) : s \in Repeated(e, p)}, id)
<1> DEFINE after == EntityWritten(d, e, p, token)
           row == EntityRow(EntityTable(e), p, token)
           R == {RelationRow(e, p, r) : r \in p.relations}
           S == {ScalarRow(e, p, s) : s \in Repeated(e, p)}
<1>1. /\ IdentityOf(row) = IdOf(p)
      /\ \A r \in R : IdentityOf(r) = IdOf(p)
      /\ \A s \in S : IdentityOf(s) = IdOf(p)
  BY RowIdentity
<1>2. RelationRows(e, p) = R /\ ScalarRows(e, p) = S  BY RowsOfRelations, RowsOfScalars
<1>. HIDE DEF row, R, S
<1>3. CASE p.deleted
  <2>1. p.relations = {} /\ p.scalars = {}  BY <1>3 DEF WellParsed
  <2>2. R = {} /\ S = {}  BY <2>1 DEF R, S, Repeated
  <2>3. /\ after.entities = OfOthers(d.entities, p)
        /\ after.relations = OfOthers(d.relations, p)
        /\ after.scalars = OfOthers(d.scalars, p)
    BY <1>3 DEF EntityWritten, CurrentRowsDeleted
  <2>. HIDE DEF after
  <2>. QED  BY <1>3, <2>2, <2>3 DEF Replaced, OfOthers, R, S, after
<1>4. CASE ~p.deleted
  <2>1. /\ after.entities = OfOthers(d.entities, p) \cup {row}
        /\ after.relations = OfOthers(d.relations, p) \cup R
        /\ after.scalars = OfOthers(d.scalars, p) \cup S
    BY <1>2, <1>4 DEF EntityWritten, CurrentRowsDeleted, row
  <2>. HIDE DEF after
  <2>2. Replaced(d.entities, after.entities, {row}, IdOf(p))
    BY <1>1, <2>1 DEF Replaced, OfOthers
  <2>3. Replaced(d.relations, after.relations, R, IdOf(p))
    BY <1>1, <2>1 DEF Replaced, OfOthers
  <2>4. Replaced(d.scalars, after.scalars, S, IdOf(p))
    BY <1>1, <2>1 DEF Replaced, OfOthers
  <2>. QED  BY <1>4, <2>2, <2>3, <2>4 DEF R, S, row, after
<1>. QED  BY <1>3, <1>4

LEMMA WrittenRegistry ==
  ASSUME NEW e, NEW p, WellParsed(e, p), NEW token, NEW d
  PROVE  LET rows == EntityWritten(d, e, p, token).registry IN
         /\ DOMAIN rows =
              DOMAIN d.registry \cup {IdOf(p)} \cup {IdOf(r) : r \in p.relations}
         /\ rows[IdOf(p)].deleted = p.deleted
         /\ \A k \in DOMAIN d.registry \ {IdOf(p)} :
              rows[k].deleted = d.registry[k].deleted
<1> DEFINE registered == Registered(d.registry, p, token)
           rows == EntityWritten(d, e, p, token).registry
           T == {IdOf(r) : r \in p.relations}
<1>1. /\ DOMAIN registered = DOMAIN d.registry \cup {IdOf(p)}
      /\ registered[IdOf(p)] = [token |-> token, deleted |-> p.deleted]
      /\ \A k \in DOMAIN d.registry \ {IdOf(p)} : registered[k] = d.registry[k]
  BY DEF Registered, ++
<1>2. registered[IdOf(p)].deleted = p.deleted  BY <1>1
<1>. HIDE DEF registered, T
<1>3. CASE p.deleted
  <2>1. rows = registered  BY <1>3 DEF EntityWritten, registered
  <2>2. T = {}  BY <1>3 DEF WellParsed, T
  <2>. HIDE DEF rows
  <2>. QED  BY <1>1, <1>2, <2>1, <2>2 DEF rows, T
<1>4. CASE ~p.deleted
  <2>1. rows = Targeted(registered, p.relations, token)
    BY <1>4 DEF EntityWritten, registered
  <2>. HIDE DEF rows
  <2>2. DOMAIN rows = DOMAIN registered \cup T
    BY <2>1 DEF Targeted, ++, T
  <2>3. ASSUME NEW k \in DOMAIN registered PROVE rows[k].deleted = registered[k].deleted
    <3>1. CASE k \in T
      <4>1. rows[k] = [token |-> IF registered[k].token < token THEN token
                                     ELSE registered[k].token,
                           deleted |-> registered[k].deleted]
        BY <2>1, <3>1 DEF Targeted, ++, T
      <4>. QED  BY <4>1
    <3>2. CASE k \notin T
      <4>1. rows[k] = registered[k]  BY <2>1, <3>2 DEF Targeted, ++, T
      <4>. QED  BY <4>1
    <3>. QED  BY <3>1, <3>2
  <2>. QED  BY <1>1, <1>2, <2>2, <2>3 DEF rows, T
<1>. QED  BY <1>3, <1>4

LEMMA StoredStep ==
  ASSUME NEW d, NEW latest, DOMAIN latest \subseteq DOMAIN d.registry, Stored(d, latest),
         NEW e \in Types, EntityOf(e.category) = e, NEW p, WellParsed(e, p), NEW token
  PROVE  LET after == EntityWritten(d, e, p, token)
             now == Noted(latest, p)
         IN DOMAIN now \subseteq DOMAIN after.registry /\ Stored(after, now)
<1> DEFINE id == IdOf(p)
           row == EntityRow(EntityTable(e), p, token)
           R == {RelationRow(e, p, r) : r \in p.relations}
           S == {ScalarRow(e, p, s) : s \in Repeated(e, p)}
<1>1. PICK after : after = EntityWritten(d, e, p, token)  OBVIOUS
<1>2. PICK now : now = Noted(latest, p)  OBVIOUS
<1>3. /\ DOMAIN now = DOMAIN latest \cup {id} /\ now[id] = p
      /\ \A k \in DOMAIN latest \ {id} : now[k] = latest[k]
  BY <1>2 DEF Noted, ++
<1>4. /\ Replaced(d.entities, after.entities, IF p.deleted THEN {} ELSE {row}, id)
      /\ Replaced(d.relations, after.relations, R, id)
      /\ Replaced(d.scalars, after.scalars, S, id)
  BY <1>1, WrittenRows
<1>5. /\ DOMAIN after.registry = DOMAIN d.registry \cup {id} \cup {IdOf(r) : r \in p.relations}
      /\ after.registry[id].deleted = p.deleted
      /\ \A k \in DOMAIN d.registry \ {id} : after.registry[k].deleted = d.registry[k].deleted
  BY <1>1, WrittenRegistry
<1>6. IdentityOf(row) = id  BY RowIdentity
<1>. HIDE DEF id, row, R, S
<1>7. {IdentityOf(r) : r \in after.entities} = {k \in DOMAIN now : ~now[k].deleted}
  <2>1. {IdentityOf(r) : r \in d.entities} = {k \in DOMAIN latest : ~latest[k].deleted}
    BY DEF Stored
  <2>2. ASSUME NEW r \in after.entities PROVE IdentityOf(r) \in {k \in DOMAIN now : ~now[k].deleted}
    <3>1. CASE r \in (IF p.deleted THEN {} ELSE {row})  BY <1>3, <1>6, <3>1
    <3>2. CASE r \in d.entities /\ IdentityOf(r) # id  BY <1>3, <2>1, <3>2
    <3>. QED  BY <1>4, <3>1, <3>2 DEF Replaced
  <2>3. ASSUME NEW k \in DOMAIN now, ~now[k].deleted
        PROVE  \E r \in after.entities : IdentityOf(r) = k
    <3>1. CASE k = id
      <4>1. row \in after.entities  BY <1>3, <1>4, <2>3, <3>1 DEF Replaced
      <4>. QED  BY <1>6, <3>1, <4>1
    <3>2. CASE k # id
      <4>1. k \in DOMAIN latest /\ ~latest[k].deleted  BY <1>3, <2>3, <3>2
      <4>2. PICK r \in d.entities : IdentityOf(r) = k  BY <2>1, <4>1
      <4>3. r \in after.entities  BY <1>4, <3>2, <4>2 DEF Replaced
      <4>. QED  BY <4>2, <4>3
    <3>. QED  BY <3>1, <3>2
  <2>. QED  BY <2>2, <2>3
<1>8. ASSUME NEW k \in DOMAIN now \ {id} PROVE StoredAs(after, k, now[k])
  <2>1. k \in DOMAIN latest /\ now[k] = latest[k] /\ StoredAs(d, k, latest[k])
    BY <1>3, <1>8 DEF Stored
  <2>2. after.registry[k].deleted = d.registry[k].deleted  BY <1>5, <1>8, <2>1
  <2>3. OwnRow(after, k) = OwnRow(d, k)
    BY <1>4, <1>8 DEF OwnRow, Replaced
  <2>4. {x \in after.scalars : IdentityOf(x) = k} = {x \in d.scalars : IdentityOf(x) = k}
    BY <1>4, <1>8 DEF Replaced
  <2>5. {x \in after.relations : IdentityOf(x) = k} = {x \in d.relations : IdentityOf(x) = k}
    BY <1>4, <1>8 DEF Replaced
  <2>6. RepeatedIn(after, k) = RepeatedIn(d, k) /\ RelationsIn(after, k) = RelationsIn(d, k)
    BY <2>4, <2>5 DEF RepeatedIn, RelationsIn
  <2>. QED  BY <2>1, <2>2, <2>3, <2>6 DEF StoredAs
<1>9. StoredAs(after, id, p)
  <2>1. SingleScalars(p) = p.scalars \ Repeated(e, p)
    BY DEF SingleScalars, Repeated, WellParsed
  <2>2. p.scalars \ SingleScalars(p) = Repeated(e, p)  BY <2>1 DEF Repeated
  <2>3. ASSUME NEW r \in OwnRow(after, id)
        PROVE  /\ ScalarsIn(r) = {<<SqlName[s.name], s.value.of>> : s \in SingleScalars(p)}
               /\ \A n \in DOMAIN r \cap DOMAIN Envelope(p) : r[n] = Envelope(p)[n]
    <3>1. r = row  BY <1>4, <2>3 DEF OwnRow, Replaced
    <3>2. ScalarsIn(r) = {<<SqlName[s.name], s.value.of>> : s \in SingleScalars(p)}
      BY <2>1, <3>1, ScalarsOfRow DEF row
    <3>3. \A n \in DOMAIN r \cap DOMAIN Envelope(p) : r[n] = Envelope(p)[n]
      BY <3>1, RowEnvelope DEF row
    <3>. QED  BY <3>2, <3>3
  <2>4. RepeatedIn(after, id) = {<<SqlName[s.name], s.ordinal, s.value.of>> : s \in Repeated(e, p)}
    <3>1. {x \in after.scalars : IdentityOf(x) = id} = S  BY <1>4 DEF Replaced
    <3>2. RepeatedIn(after, id) = {<<r.table[2], r.ordinal, r.value>> : r \in S}
      BY <3>1 DEF RepeatedIn
    <3>3. ASSUME NEW s
          PROVE  <<ScalarRow(e, p, s).table[2], ScalarRow(e, p, s).ordinal, ScalarRow(e, p, s).value>>
                   = <<SqlName[s.name], s.ordinal, s.value.of>>
      BY DEF ScalarRow
    <3>4. ASSUME NEW r \in S
          PROVE  \E s \in Repeated(e, p) :
                   <<r.table[2], r.ordinal, r.value>> = <<SqlName[s.name], s.ordinal, s.value.of>>
      <4>1. PICK s \in Repeated(e, p) : r = ScalarRow(e, p, s)  BY DEF S
      <4>2. <<r.table[2], r.ordinal, r.value>> = <<SqlName[s.name], s.ordinal, s.value.of>>
        BY <3>3, <4>1
      <4>. QED  BY <4>2
    <3>5. ASSUME NEW s \in Repeated(e, p)
          PROVE  \E r \in S :
                   <<r.table[2], r.ordinal, r.value>> = <<SqlName[s.name], s.ordinal, s.value.of>>
      <4>1. PICK r : r = ScalarRow(e, p, s)  OBVIOUS
      <4>2. r \in S  BY <4>1 DEF S
      <4>3. <<r.table[2], r.ordinal, r.value>> = <<SqlName[s.name], s.ordinal, s.value.of>>
        BY <3>3, <4>1
      <4>. QED  BY <4>2, <4>3
    <3>. HIDE DEF S
    <3>6. \A x : x \in RepeatedIn(after, id) <=> \E r \in S : x = <<r.table[2], r.ordinal, r.value>>
      BY <3>2
    <3>. QED  BY <3>4, <3>5, <3>6
  <2>5. RelationsIn(after, id) = p.relations
    <3>1. {x \in after.relations : IdentityOf(x) = id} = R  BY <1>4 DEF Replaced
    <3>2. RelationsIn(after, id) =
            {[name |-> r.relation_name, ordinal |-> r.ordinal,
              category |-> r.target_category, id |-> r.target_id] : r \in R}
      BY <3>1 DEF RelationsIn
    <3>3. ASSUME NEW r \in p.relations
          PROVE  [name |-> RelationRow(e, p, r).relation_name,
                  ordinal |-> RelationRow(e, p, r).ordinal,
                  category |-> RelationRow(e, p, r).target_category,
                  id |-> RelationRow(e, p, r).target_id] = r
      <4>1. PICK name : r = [name |-> name, ordinal |-> r.ordinal, category |-> r.category,
                             id |-> r.id]
        BY DEF WellParsed, IsRelation
      <4>2. r = [name |-> r.name, ordinal |-> r.ordinal, category |-> r.category, id |-> r.id]
        BY <4>1
      <4>. QED  BY <4>2 DEF RelationRow
    <3>. QED  BY <3>2, <3>3 DEF R
  <2>. QED  BY <1>5, <2>2, <2>3, <2>4, <2>5 DEF StoredAs
<1>10. ASSUME NEW r \in after.relations
       PROVE  <<r.target_category, r.target_id>> \in DOMAIN after.registry
  <2>1. CASE r \in R
    <3>1. PICK x \in p.relations : r = RelationRow(e, p, x)  BY <2>1 DEF R
    <3>2. <<r.target_category, r.target_id>> = IdOf(x)  BY <3>1 DEF RelationRow, IdOf
    <3>. QED  BY <1>5, <3>2
  <2>2. CASE r \in d.relations  BY <1>5, <2>2 DEF Stored
  <2>. QED  BY <1>4, <2>1, <2>2 DEF Replaced
<1>11. Stored(after, now)  BY <1>3, <1>7, <1>8, <1>9, <1>10 DEF Stored
<1>12. DOMAIN now \subseteq DOMAIN after.registry  BY <1>3, <1>5
<1>. QED  BY <1>1, <1>2, <1>11, <1>12 DEF id

-------------------------------------------------------------------------------
(* A page of entities: the two recursions and what they keep.              *)

IsStages(f, d, e, parsed, token, n) ==
  f = [i \in 0 .. n |-> IF i = 0 THEN d ELSE EntityWritten(f[i - 1], e, parsed[i], token)]

LEMMA StagesExist ==
  ASSUME NEW d, NEW e, NEW parsed, NEW token, NEW n \in Nat
  PROVE  \E f : IsStages(f, d, e, parsed, token, n)
<1>. DEFINE T == {m \in Nat : \E f : IsStages(f, d, e, parsed, token, m)}
<1>1. 0 \in T
  <2>1. IsStages([i \in 0 .. 0 |-> d], d, e, parsed, token, 0)  BY DEF IsStages
  <2>. QED  BY <2>1
<1>2. ASSUME NEW m \in Nat, m \in T PROVE m + 1 \in T
  <2>1. PICK f : IsStages(f, d, e, parsed, token, m)  BY <1>2
  <2>. DEFINE final == EntityWritten(f[m], e, parsed[m + 1], token)
              g == [i \in 0 .. m + 1 |-> IF i = m + 1 THEN final ELSE f[i]]
  <2>2. ASSUME NEW i \in 0 .. m + 1
        PROVE  g[i] = IF i = 0 THEN d ELSE EntityWritten(g[i - 1], e, parsed[i], token)
    <3>1. CASE i = m + 1
      <4>1. m \in 0 .. m + 1 /\ m # m + 1 /\ i - 1 = m /\ i # 0  BY <3>1
      <4>2. g[i] = EntityWritten(f[m], e, parsed[i], token) /\ g[m] = f[m]  BY <3>1, <4>1
      <4>. HIDE DEF g
      <4>. QED  BY <4>1, <4>2
    <3>2. CASE i # m + 1
      <4>1. i \in 0 .. m  BY <3>2
      <4>2. f[i] = IF i = 0 THEN d ELSE EntityWritten(f[i - 1], e, parsed[i], token)
        BY <2>1, <4>1 DEF IsStages
      <4>3. g[i] = f[i]  BY <3>2
      <4>4. i # 0 => g[i - 1] = f[i - 1]  BY <4>1
      <4>. HIDE DEF g
      <4>. QED  BY <4>2, <4>3, <4>4
    <3>. QED  BY <3>1, <3>2
  <2>3. IsStages(g, d, e, parsed, token, m + 1)
    <3>1. g = [i \in 0 .. m + 1 |-> g[i]]  OBVIOUS
    <3>. HIDE DEF g
    <3>. QED  BY <2>2, <3>1 DEF IsStages
  <2>. HIDE DEF g
  <2>. QED  BY <2>3
<1>. HIDE DEF T
<1>3. n \in T  BY <1>1, <1>2, NatSetInduction
<1>. QED  BY <1>3 DEF T

LEMMA StagesAre ==
  ASSUME NEW d, NEW e, NEW parsed, NEW token, Len(parsed) \in Nat
  PROVE  LET written == Stages(d, e, parsed, token) IN
         /\ written[0] = d
         /\ \A n \in 1 .. Len(parsed) :
              written[n] = EntityWritten(written[n - 1], e, parsed[n], token)
<1>1. PICK f : f = Stages(d, e, parsed, token)  OBVIOUS
<1>2. IsStages(f, d, e, parsed, token, Len(parsed))
  <2>1. Stages(d, e, parsed, token) = CHOOSE g : IsStages(g, d, e, parsed, token, Len(parsed))
    BY DEF Stages, IsStages
  <2>. QED  BY <1>1, <2>1, StagesExist
<1>3. f[0] = d  BY <1>2 DEF IsStages
<1>4. \A n \in 1 .. Len(parsed) : f[n] = EntityWritten(f[n - 1], e, parsed[n], token)
  BY <1>2 DEF IsStages
<1>. QED  BY <1>1, <1>3, <1>4

IsLatest(f, seen, parsed, n) ==
  f = [i \in 0 .. n |-> IF i = 0 THEN seen ELSE Noted(f[i - 1], parsed[i])]

LEMMA LatestExist ==
  ASSUME NEW seen, NEW parsed, NEW n \in Nat
  PROVE  \E f : IsLatest(f, seen, parsed, n)
<1>. DEFINE T == {m \in Nat : \E f : IsLatest(f, seen, parsed, m)}
<1>1. 0 \in T
  <2>1. IsLatest([i \in 0 .. 0 |-> seen], seen, parsed, 0)  BY DEF IsLatest
  <2>. QED  BY <2>1
<1>2. ASSUME NEW m \in Nat, m \in T PROVE m + 1 \in T
  <2>1. PICK f : IsLatest(f, seen, parsed, m)  BY <1>2
  <2>. DEFINE final == Noted(f[m], parsed[m + 1])
              g == [i \in 0 .. m + 1 |-> IF i = m + 1 THEN final ELSE f[i]]
  <2>2. ASSUME NEW i \in 0 .. m + 1
        PROVE  g[i] = IF i = 0 THEN seen ELSE Noted(g[i - 1], parsed[i])
    <3>1. CASE i = m + 1
      <4>1. m \in 0 .. m + 1 /\ m # m + 1 /\ i - 1 = m /\ i # 0  BY <3>1
      <4>2. g[i] = Noted(f[m], parsed[i]) /\ g[m] = f[m]  BY <3>1, <4>1
      <4>. HIDE DEF g
      <4>. QED  BY <4>1, <4>2
    <3>2. CASE i # m + 1
      <4>1. i \in 0 .. m  BY <3>2
      <4>2. f[i] = IF i = 0 THEN seen ELSE Noted(f[i - 1], parsed[i])
        BY <2>1, <4>1 DEF IsLatest
      <4>3. g[i] = f[i]  BY <3>2
      <4>4. i # 0 => g[i - 1] = f[i - 1]  BY <4>1
      <4>. HIDE DEF g
      <4>. QED  BY <4>2, <4>3, <4>4
    <3>. QED  BY <3>1, <3>2
  <2>3. IsLatest(g, seen, parsed, m + 1)
    <3>1. g = [i \in 0 .. m + 1 |-> g[i]]  OBVIOUS
    <3>. HIDE DEF g
    <3>. QED  BY <2>2, <3>1 DEF IsLatest
  <2>. HIDE DEF g
  <2>. QED  BY <2>3
<1>. HIDE DEF T
<1>3. n \in T  BY <1>1, <1>2, NatSetInduction
<1>. QED  BY <1>3 DEF T

LEMMA LatestAre ==
  ASSUME NEW seen, NEW parsed, Len(parsed) \in Nat
  PROVE  LET latest == Latest(seen, parsed) IN
         /\ latest[0] = seen
         /\ \A n \in 1 .. Len(parsed) :
              latest[n] = Noted(latest[n - 1], parsed[n])
<1>1. PICK f : f = Latest(seen, parsed)  OBVIOUS
<1>2. IsLatest(f, seen, parsed, Len(parsed))
  <2>1. Latest(seen, parsed) = CHOOSE g : IsLatest(g, seen, parsed, Len(parsed))
    BY DEF Latest, IsLatest
  <2>. QED  BY <1>1, <2>1, LatestExist
<1>3. f[0] = seen  BY <1>2 DEF IsLatest
<1>4. \A n \in 1 .. Len(parsed) : f[n] = Noted(f[n - 1], parsed[n])
  BY <1>2 DEF IsLatest
<1>. QED  BY <1>1, <1>3, <1>4

LEMMA PageStored ==
  ASSUME NEW d, NEW seen, DOMAIN seen \subseteq DOMAIN d.registry, Stored(d, seen),
         NEW e \in Types, EntityOf(e.category) = e, NEW parsed, Len(parsed) \in Nat,
         \A n \in 1 .. Len(parsed) : WellParsed(e, parsed[n]), NEW token
  PROVE  LET after == PageWritten(d, e, parsed, token)
             now == Latest(seen, parsed)[Len(parsed)]
         IN DOMAIN now \subseteq DOMAIN after.registry /\ Stored(after, now)
<1>1. PICK written : written = Stages(d, e, parsed, token)  OBVIOUS
<1>2. PICK latest : latest = Latest(seen, parsed)  OBVIOUS
<1> DEFINE Good(n) == DOMAIN latest[n] \subseteq DOMAIN written[n].registry
                      /\ Stored(written[n], latest[n])
           T == {n \in Nat : n <= Len(parsed) => Good(n)}
<1>3. 0 \in T
  <2>1. written[0] = d /\ latest[0] = seen  BY <1>1, <1>2, StagesAre, LatestAre
  <2>. QED  BY <2>1
<1>4. ASSUME NEW n \in Nat, n \in T PROVE n + 1 \in T
  <2>1. SUFFICES ASSUME n + 1 <= Len(parsed) PROVE Good(n + 1)  OBVIOUS
  <2>2. n + 1 \in 1 .. Len(parsed) /\ n + 1 - 1 = n /\ n <= Len(parsed)  BY <2>1
  <2>3. /\ written[n + 1] = EntityWritten(written[n + 1 - 1], e, parsed[n + 1], token)
        /\ latest[n + 1] = Noted(latest[n + 1 - 1], parsed[n + 1])
    BY <1>1, <1>2, <2>2, StagesAre, LatestAre
  <2>4. PICK p, w, l : p = parsed[n + 1] /\ w = written[n] /\ l = latest[n]  OBVIOUS
  <2>5. /\ written[n + 1] = EntityWritten(w, e, p, token)
        /\ latest[n + 1] = Noted(l, p)
    BY <2>2, <2>3, <2>4
  <2>6. DOMAIN l \subseteq DOMAIN w.registry /\ Stored(w, l)  BY <1>4, <2>2, <2>4
  <2>7. WellParsed(e, p)  BY <2>2, <2>4
  <2>. QED  BY <2>5, <2>6, <2>7, StoredStep
<1>. HIDE DEF T
<1>5. Len(parsed) \in T  BY <1>3, <1>4, NatSetInduction
<1>. QED  BY <1>1, <1>2, <1>5 DEF T, PageWritten

-------------------------------------------------------------------------------
(* What is read.  The rows are those of well-parsed entities, one of each; *)
(* a relation leads out of its category.                                   *)

IsEntityRow(r) ==
  \E e \in Types : \E p, token :
    WellParsed(e, p) /\ token \in Int /\ r = EntityRow(EntityTable(e), p, token)

WellKept(d) ==
  /\ IsFiniteSet(d.entities)
  /\ \A r \in d.entities : IsEntityRow(r)
  /\ \A r, s \in d.entities : IdentityOf(r) = IdentityOf(s) => r = s
  /\ \A r \in d.relations : r.source_category # r.target_category

LEMMA KeptStep ==
  ASSUME NEW d, WellKept(d), NEW e \in Types, NEW p, WellParsed(e, p), NEW token \in Int
  PROVE  WellKept(EntityWritten(d, e, p, token))
<1> DEFINE row == EntityRow(EntityTable(e), p, token)
           R == {RelationRow(e, p, r) : r \in p.relations}
<1>1. PICK after : after = EntityWritten(d, e, p, token)  OBVIOUS
<1>2. /\ Replaced(d.entities, after.entities, IF p.deleted THEN {} ELSE {row}, IdOf(p))
      /\ Replaced(d.relations, after.relations, R, IdOf(p))
  BY <1>1, WrittenRows
<1>3. IdentityOf(row) = IdOf(p)  BY RowIdentity
<1>4. IsEntityRow(row)  BY DEF IsEntityRow
<1>5. ASSUME NEW r \in R PROVE r.source_category # r.target_category
  <2>1. PICK x \in p.relations : r = RelationRow(e, p, x)  OBVIOUS
  <2>2. PICK f \in Relations(e) :
          x = [name |-> f.name, ordinal |-> x.ordinal,
               category |-> InferTargetCategory(f.name), id |-> x.id]
    BY DEF WellParsed, IsRelation
  <2>3. x.category # e.category  BY <2>2, TargetsAssumption DEF Types
  <2>4. r.source_category = e.category /\ r.target_category = x.category
    BY <2>1 DEF RelationRow, WellParsed
  <2>. QED  BY <2>3, <2>4
<1>. HIDE DEF row, R
<1>6. after.entities \subseteq d.entities \cup {row}  BY <1>2 DEF Replaced
<1>7. IsFiniteSet(after.entities)
  <2>1. IsFiniteSet(d.entities \cup {row})  BY FS_AddElement DEF WellKept
  <2>. QED  BY <1>6, <2>1, FS_Subset
<1>8. ASSUME NEW r \in after.entities, NEW s \in after.entities, IdentityOf(r) = IdentityOf(s)
      PROVE  r = s
  BY <1>2, <1>3, <1>6, <1>8 DEF Replaced, WellKept
<1>9. \A r \in after.relations : r.source_category # r.target_category
  BY <1>2, <1>5 DEF Replaced, WellKept
<1>. QED  BY <1>1, <1>4, <1>6, <1>7, <1>8, <1>9 DEF WellKept

LEMMA PageKept ==
  ASSUME NEW d, WellKept(d), NEW e \in Types, NEW parsed, Len(parsed) \in Nat,
         \A n \in 1 .. Len(parsed) : WellParsed(e, parsed[n]), NEW token \in Int
  PROVE  WellKept(PageWritten(d, e, parsed, token))
<1>1. PICK written : written = Stages(d, e, parsed, token)  OBVIOUS
<1> DEFINE T == {n \in Nat : n <= Len(parsed) => WellKept(written[n])}
<1>2. 0 \in T
  <2>1. written[0] = d  BY <1>1, StagesAre
  <2>. QED  BY <2>1
<1>3. ASSUME NEW n \in Nat, n \in T PROVE n + 1 \in T
  <2>1. SUFFICES ASSUME n + 1 <= Len(parsed) PROVE WellKept(written[n + 1])  OBVIOUS
  <2>2. n + 1 \in 1 .. Len(parsed) /\ n + 1 - 1 = n /\ n <= Len(parsed)  BY <2>1
  <2>3. PICK p, w : p = parsed[n + 1] /\ w = written[n]  OBVIOUS
  <2>4. written[n + 1] = EntityWritten(w, e, p, token)
    <3>1. written[n + 1] = EntityWritten(written[n + 1 - 1], e, parsed[n + 1], token)
      BY <1>1, <2>2, StagesAre
    <3>. QED  BY <2>2, <2>3, <3>1
  <2>5. WellKept(w) /\ WellParsed(e, p)  BY <1>3, <2>2, <2>3
  <2>. QED  BY <2>4, <2>5, KeptStep
<1>. HIDE DEF T
<1>4. Len(parsed) \in T  BY <1>2, <1>3, NatSetInduction
<1>. QED  BY <1>1, <1>4 DEF T, PageWritten

(* Columns to sort by.                                                     *)

Place(column, r) == IF column = "latest_skiptoken" THEN r[column] ELSE Rank[r[column]]
Placed(column, r) == r[column] = NoValue \/ Place(column, r) \in Int

Sorting(column, rows, sort) ==
  {p \in rows \X rows : ValueBefore(column, p[1], p[2], sort)}

(* NULLS LAST, and the values up or down: an order but for ties.           *)
LEMMA ColumnRanks ==
  ASSUME NEW column, NEW rows, NEW sort, \A r \in rows : Placed(column, r)
  PROVE  IsRanking(Sorting(column, rows, sort), rows)
<1>1. ASSUME NEW r \in rows, NEW s \in rows
      PROVE  ValueBefore(column, r, s, sort) <=>
               /\ r[column] # NoValue
               /\ \/ s[column] = NoValue
                  \/ IF Descends(sort) THEN Place(column, r) > Place(column, s)
                     ELSE Place(column, r) < Place(column, s)
  BY DEF ValueBefore, Place
<1>2. ASSUME NEW r \in rows, NEW s \in rows, NEW t \in rows
      PROVE  /\ ~ValueBefore(column, r, r, sort)
             /\ ValueBefore(column, r, s, sort) /\ ValueBefore(column, s, t, sort)
                  => ValueBefore(column, r, t, sort)
             /\ ValueBefore(column, r, t, sort)
                  => ValueBefore(column, r, s, sort) \/ ValueBefore(column, s, t, sort)
  <2>1. PICK x, y, z : x = Place(column, r) /\ y = Place(column, s) /\ z = Place(column, t)
    OBVIOUS
  <2>2. PICK f, g, h : f = r[column] /\ g = s[column] /\ h = t[column]  OBVIOUS
  <2>3. /\ f = NoValue \/ x \in Int
        /\ g = NoValue \/ y \in Int
        /\ h = NoValue \/ z \in Int
    <3>1. Placed(column, r) /\ Placed(column, s) /\ Placed(column, t)  OBVIOUS
    <3>. QED  BY <2>1, <2>2, <3>1 DEF Placed
  <2>4. ValueBefore(column, r, r, sort) <=>
          (f # NoValue /\ (IF Descends(sort) THEN x > x ELSE x < x))
    BY <1>1, <2>1, <2>2
  <2>5. ValueBefore(column, r, s, sort) <=>
          (f # NoValue /\ (g = NoValue \/ IF Descends(sort) THEN x > y ELSE x < y))
    BY <1>1, <2>1, <2>2
  <2>6. ValueBefore(column, s, t, sort) <=>
          (g # NoValue /\ (h = NoValue \/ IF Descends(sort) THEN y > z ELSE y < z))
    BY <1>1, <2>1, <2>2
  <2>7. ValueBefore(column, r, t, sort) <=>
          (f # NoValue /\ (h = NoValue \/ IF Descends(sort) THEN x > z ELSE x < z))
    BY <1>1, <2>1, <2>2
  <2>. QED  BY <2>3, <2>4, <2>5, <2>6, <2>7
<1>3. ASSUME NEW r \in rows, NEW s \in rows
      PROVE  <<r, s>> \in Sorting(column, rows, sort) <=> ValueBefore(column, r, s, sort)
  BY DEF Sorting
<1>. QED  BY <1>2, <1>3 DEF IsRanking

LEMMA IdsOrder ==
  ASSUME NEW rows, NEW sort, \A r \in rows : r.source_id \in Reads["uuid"],
         \A r, s \in rows : r.source_id = s.source_id => r = s
  PROVE  IsOrder(Sorting("source_id", rows, sort), rows)
<1>1. \A r \in rows : Place("source_id", r) = Rank[r.source_id] /\ Rank[r.source_id] \in Int
                      /\ r["source_id"] # NoValue
  BY RankAssumption, NoValueAssumption DEF Place
<1>2. IsRanking(Sorting("source_id", rows, sort), rows)  BY <1>1, ColumnRanks DEF Placed
<1>3. ASSUME NEW r \in rows, NEW s \in rows, r # s
      PROVE  <<r, s>> \in Sorting("source_id", rows, sort)
             \/ <<s, r>> \in Sorting("source_id", rows, sort)
  <2>1. Rank[r.source_id] # Rank[s.source_id]  BY <1>3, RankAssumption
  <2>2. PICK x \in Int, y \in Int : x = Rank[r.source_id] /\ y = Rank[s.source_id]  BY <1>1
  <2>3. ValueBefore("source_id", r, s, sort) \/ ValueBefore("source_id", s, r, sort)
    BY <1>1, <2>1, <2>2 DEF ValueBefore
  <2>. QED  BY <2>3 DEF Sorting
<1>. QED  BY <1>2, <1>3 DEF IsRanking, IsOrder

(* What there is to sort a table by, and the values of it.                 *)
LEMMA PrimaryIs ==
  ASSUME NEW e \in Types, NEW sort \in Sorts
  PROVE  LET primary == PrimaryColumn(EntityTable(e), sort) IN
         \/ primary \in {"latest_skiptoken", "source_updated_at"}
         \/ primary \in DOMAIN EntityTable(e).columns \ (OwnColumns \cup {"atom_updated_at"})
<1>1. PICK table : table = EntityTable(e)  OBVIOUS
<1>2. "source_updated_at" \in DOMAIN table.columns  BY <1>1, Columned
<1> DEFINE There(candidates) == {i \in DOMAIN candidates : candidates[i] \in DOMAIN table.columns}
<1>3. ASSUME NEW T \in SUBSET Nat, T # {} PROVE Min(T) \in T /\ \A k \in T : Min(T) <= k
  BY <1>3, LeastNumber DEF Min
<1>4. SortableColumn(table, DATE_SORT_COLUMNS) \in
        {"source_updated_at"} \cup (DOMAIN table.columns \ (OwnColumns \cup {"atom_updated_at"}))
  <2>1. DOMAIN DATE_SORT_COLUMNS = 1 .. 5  BY DEF DATE_SORT_COLUMNS
  <2>2. There(DATE_SORT_COLUMNS) \in SUBSET (1 .. 5) /\ 4 \in There(DATE_SORT_COLUMNS)
    BY <1>2, <2>1 DEF DATE_SORT_COLUMNS
  <2>3. PICK m : m = Min(There(DATE_SORT_COLUMNS))  OBVIOUS
  <2>4. m \in There(DATE_SORT_COLUMNS) /\ m <= 4
    <3>. HIDE DEF There
    <3>. QED  BY <1>3, <2>2, <2>3
  <2>5. m \in 1 .. 4 /\ DATE_SORT_COLUMNS[m] \in DOMAIN table.columns  BY <2>2, <2>4
  <2>6. SortableColumn(table, DATE_SORT_COLUMNS) = DATE_SORT_COLUMNS[m]
    BY <2>2, <2>3 DEF SortableColumn
  <2>7. DATE_SORT_COLUMNS[m] \in {"datum", "gewijzigd_op", "registratiedatum", "source_updated_at"}
    BY <2>5 DEF DATE_SORT_COLUMNS
  <2>. QED  BY <2>5, <2>6, <2>7 DEF OwnColumns
<1>5. SortableColumn(table, NAME_SORT_COLUMNS) \in
        {"latest_skiptoken"} \cup (DOMAIN table.columns \ (OwnColumns \cup {"atom_updated_at"}))
  <2>1. DOMAIN NAME_SORT_COLUMNS = 1 .. 7  BY DEF NAME_SORT_COLUMNS
  <2>2. There(NAME_SORT_COLUMNS) \in SUBSET (1 .. 7)  BY <2>1
  <2>3. PICK m : m = Min(There(NAME_SORT_COLUMNS))  OBVIOUS
  <2>4. CASE There(NAME_SORT_COLUMNS) # {}
    <3>1. m \in There(NAME_SORT_COLUMNS)
      <4>. HIDE DEF There
      <4>. QED  BY <1>3, <2>2, <2>3, <2>4
    <3>2. m \in 1 .. 7 /\ NAME_SORT_COLUMNS[m] \in DOMAIN table.columns  BY <2>2, <3>1
    <3>3. SortableColumn(table, NAME_SORT_COLUMNS) = NAME_SORT_COLUMNS[m]
      BY <2>3, <2>4 DEF SortableColumn
    <3>4. NAME_SORT_COLUMNS[m] \in {"titel", "naam", "achternaam", "roepnaam", "onderwerp",
                                    "nummer", "document_nummer"}
      BY <3>2 DEF NAME_SORT_COLUMNS
    <3>. QED  BY <3>2, <3>3, <3>4 DEF OwnColumns
  <2>5. CASE There(NAME_SORT_COLUMNS) = {}  BY <2>5 DEF SortableColumn
  <2>. QED  BY <2>4, <2>5
<1>6. PrimaryColumn(table, sort) \in {"latest_skiptoken",
        SortableColumn(table, DATE_SORT_COLUMNS), SortableColumn(table, NAME_SORT_COLUMNS)}
  BY DEF PrimaryColumn, Sorts
<1>. QED  BY <1>1, <1>4, <1>5, <1>6

LEMMA RowValues ==
  ASSUME NEW e \in Types, NEW p, WellParsed(e, p), NEW token \in Int, NEW row,
         row = EntityRow(EntityTable(e), p, token)
  PROVE  /\ row.source_category = e.category /\ row.source_id \in Reads["uuid"]
         /\ Placed("latest_skiptoken", row) /\ Placed("source_updated_at", row)
         /\ \A n \in DOMAIN EntityTable(e).columns \ (OwnColumns \cup {"atom_updated_at"}) :
              Placed(n, row)
<1>1. PICK columns : columns = EntityTable(e).columns  OBVIOUS
<1>2. /\ "source_category" \in DOMAIN columns /\ "source_id" \in DOMAIN columns
      /\ "latest_skiptoken" \in DOMAIN columns /\ "source_updated_at" \in DOMAIN columns
      /\ DOMAIN columns \ (OwnColumns \cup {"atom_updated_at"}) = {SqlName[f.name] : f \in Single(e)}
  BY <1>1, Columned
<1>3. \A n \in DOMAIN columns \ {"atom_updated_at"} :
        row[n] = IF n \in OwnColumns \/ ScalarsNamed(p, n) = {} THEN OwnColumn(p, token, n)
                 ELSE (CHOOSE s \in ScalarsNamed(p, n) : TRUE).value.of
  BY <1>1 DEF EntityRow
<1>4. /\ row["source_category"] = p.category /\ row["source_id"] = p.id
      /\ row["latest_skiptoken"] = token /\ row["source_updated_at"] = p.updated
  BY <1>2, <1>3 DEF OwnColumn, OwnColumns
<1>5. Placed("latest_skiptoken", row)  BY <1>4 DEF Placed, Place
<1>6. Placed("source_updated_at", row)  BY <1>4, RankAssumption DEF Placed, Place, WellParsed
<1>7. ASSUME NEW n \in DOMAIN columns \ (OwnColumns \cup {"atom_updated_at"}) PROVE Placed(n, row)
  <2>1. n # "latest_skiptoken"  BY DEF OwnColumns
  <2>2. CASE ScalarsNamed(p, n) = {}
    <3>1. OwnColumn(p, token, n) = NoValue  BY DEF OwnColumn, OwnColumns
    <3>. QED  BY <1>3, <2>2, <3>1 DEF Placed
  <2>3. CASE ScalarsNamed(p, n) # {}
    <3>1. PICK s \in ScalarsNamed(p, n) : row[n] = s.value.of  BY <1>3, <2>3
    <3>2. s.value.of \in DOMAIN Rank  BY DEF ScalarsNamed, WellParsed, IsScalar
    <3>. QED  BY <2>1, <3>1, <3>2, RankAssumption DEF Placed, Place
  <2>. QED  BY <2>2, <2>3
<1>. QED  BY <1>1, <1>4, <1>5, <1>6, <1>7 DEF WellParsed

(* The rows of a category can be sorted.                                   *)
LEMMA ReadRow ==
  ASSUME NEW c, NEW r, IsEntityRow(r), r.source_category = c, NEW sort \in Sorts
  PROVE  LET primary == PrimaryColumn(TableOf[c], sort) IN
         /\ OrderOf[c][sort] = SortColumns(TableOf[c], sort)
         /\ r.source_id \in Reads["uuid"]
         /\ Placed("latest_skiptoken", r) /\ Placed(primary, r)
<1>0. PICK e \in Types : \E p, token :
        WellParsed(e, p) /\ token \in Int /\ r = EntityRow(EntityTable(e), p, token)
  BY DEF IsEntityRow
<1>1. PICK p, token :
        WellParsed(e, p) /\ token \in Int /\ r = EntityRow(EntityTable(e), p, token)
  BY <1>0
<1>2. /\ r.source_category = e.category /\ r.source_id \in Reads["uuid"]
      /\ Placed("latest_skiptoken", r) /\ Placed("source_updated_at", r)
      /\ \A n \in DOMAIN EntityTable(e).columns \ (OwnColumns \cup {"atom_updated_at"}) : Placed(n, r)
  BY <1>1, RowValues
<1>3. e \in EntitiesNamed(c)  BY <1>2 DEF EntitiesNamed, Types
<1>4. c \in {x.category : x \in ToSet(EntityTypes)}  BY <1>2 DEF Types
<1>5. c \in DOMAIN TableOf /\ TableOf[c] = EntityTable(e)
  BY <1>3, <1>4, EntityNamed DEF TableOf
<1>6. OrderOf[c][sort] = SortColumns(TableOf[c], sort)
  <2>1. OrderOf[c] = [s \in Sorts |-> SortColumns(TableOf[c], s)]  BY <1>5 DEF OrderOf
  <2>. QED  BY <2>1
<1>7. Placed(PrimaryColumn(TableOf[c], sort), r)  BY <1>2, <1>5, PrimaryIs
<1>. QED  BY <1>2, <1>6, <1>7

RowOrder(rows, columns, sort) ==
  {p \in rows \X rows : RowBefore(columns, p[1], p[2], sort)}

LEMMA RowsOrdered ==
  ASSUME NEW d, WellKept(d), NEW c, NEW sort \in Sorts
  PROVE  LET rows == RowsOf(d, c) IN
         IsOrder(RowOrder(rows, OrderOf[c][sort], sort), rows)
<1>1. PICK rows : rows = RowsOf(d, c)  OBVIOUS
<1>2. PICK columns : columns = OrderOf[c][sort]  OBVIOUS
<1>3. SUFFICES ASSUME rows # {} PROVE IsOrder(RowOrder(rows, columns, sort), rows)
  BY ZenonT(60), <1>1, <1>2 DEF IsOrder
<1>4. PICK primary : primary = PrimaryColumn(TableOf[c], sort)  OBVIOUS
<1>5. /\ columns = SortColumns(TableOf[c], sort)
      /\ \A r \in rows : /\ r.source_id \in Reads["uuid"]
                         /\ Placed("latest_skiptoken", r) /\ Placed(primary, r)
  BY <1>1, <1>2, <1>3, <1>4, ReadRow DEF RowsOf, WellKept
<1>6. \A r, s \in rows : r.source_id = s.source_id => r = s
  BY <1>1 DEF RowsOf, WellKept, IdentityOf
<1> DEFINE I == Sorting("source_id", rows, sort)
           L == Sorting("latest_skiptoken", rows, sort)
           P == Sorting(primary, rows, sort)
           LI == TiesBroken(L, I, rows)
<1>7. IsOrder(I, rows) /\ IsRanking(L, rows) /\ IsRanking(P, rows)
  BY <1>5, <1>6, IdsOrder, ColumnRanks
<1>8. IsOrder(LI, rows) /\ IsOrder(TiesBroken(P, LI, rows), rows)
  <2>. HIDE DEF I, L, P
  <2>1. IsOrder(LI, rows)  BY <1>7, TiesBrokenOrder
  <2>. HIDE DEF LI
  <2>. QED  BY <1>7, <2>1, TiesBrokenOrder
<1>9. CASE primary = "latest_skiptoken"
  <2>1. columns = <<"latest_skiptoken", "source_id">>  BY <1>4, <1>5, <1>9 DEF SortColumns
  <2>2. ASSUME NEW r, NEW s
        PROVE  RowBefore(columns, r, s, sort) <=>
                 \/ ValueBefore("latest_skiptoken", r, s, sort)
                 \/ /\ Alike("latest_skiptoken", r, s, sort)
                    /\ ValueBefore("source_id", r, s, sort)
    BY <2>1 DEF RowBefore
  <2>3. RowOrder(rows, columns, sort) = LI
    BY <2>2 DEF RowOrder, TiesBroken, AheadOf, Sorting, Alike
  <2>. QED  BY <1>8, <2>3
<1>10. CASE primary # "latest_skiptoken"
  <2>1. columns = <<primary, "latest_skiptoken", "source_id">>
    BY <1>4, <1>5, <1>10 DEF SortColumns
  <2>2. ASSUME NEW r, NEW s
        PROVE  RowBefore(columns, r, s, sort) <=>
                 \/ ValueBefore(primary, r, s, sort)
                 \/ /\ Alike(primary, r, s, sort)
                    /\ \/ ValueBefore("latest_skiptoken", r, s, sort)
                       \/ /\ Alike("latest_skiptoken", r, s, sort)
                          /\ ValueBefore("source_id", r, s, sort)
    BY <2>1 DEF RowBefore
  <2>3. RowOrder(rows, columns, sort) = TiesBroken(P, LI, rows)
    BY <2>2 DEF RowOrder, TiesBroken, AheadOf, Sorting, Alike
  <2>. QED  BY <1>8, <2>3
<1>. QED  BY <1>9, <1>10

-------------------------------------------------------------------------------
LEMMA FirstRowsSize ==
  ASSUME NEW d, WellKept(d), NEW c, NEW sort \in Sorts, NEW n \in Nat
  PROVE  LET rows == RowsOf(d, c)
             page == EntityPage(d, c, n, sort)
         IN /\ IsFiniteSet(rows) /\ Cardinality(rows) \in Nat
            /\ page \subseteq rows /\ IsFiniteSet(page)
            /\ Cardinality(page) = (IF Cardinality(rows) > n THEN n ELSE Cardinality(rows))
<1>1. PICK rows : rows = RowsOf(d, c)  OBVIOUS
<1>2. IsFiniteSet(rows) /\ Cardinality(rows) \in Nat
  BY <1>1, FS_Subset, FS_CardinalityType DEF RowsOf, WellKept
<1>3. PICK columns : columns = OrderOf[c][sort]  OBVIOUS
<1>4. PICK R : R = RowOrder(rows, columns, sort)  OBVIOUS
<1>5. IsOrder(R, rows)  BY <1>1, <1>3, <1>4, RowsOrdered
<1>6. ASSUME NEW r \in rows
      PROVE  Under(R, rows, r) = {s \in rows : RowBefore(columns, s, r, sort)}
  BY <1>4 DEF Under, RowOrder
<1>7. EntityPage(d, c, n, sort) = FirstIn(R, rows, n)
  BY <1>1, <1>3, <1>6 DEF EntityPage, FirstRows, FirstIn
<1>. QED  BY <1>1, <1>2, <1>5, <1>7, FirstSize

LEMMA PagesFull ==
  ASSUME NEW d, WellKept(d), NEW c, NEW limit \in Nat
  PROVE  PagesAreFull(d, c, limit)
<1> SUFFICES ASSUME NEW sort \in Sorts
             PROVE  LET page == EntityPage(d, c, limit, sort)
                        rows == RowsOf(d, c)
                    IN /\ Cardinality(page) = IF Cardinality(rows) > limit THEN limit
                                              ELSE Cardinality(rows)
                       /\ EntityPageHasMore(d, c, limit, sort) <=> page # rows
                       /\ \A r \in page : EntityDetail(d, c, r.source_id) = {r}
  BY DEF PagesAreFull
<1>1. PICK rows : rows = RowsOf(d, c)  OBVIOUS
<1>2. PICK page : page = EntityPage(d, c, limit, sort)  OBVIOUS
<1>3. PICK more : more = EntityPage(d, c, limit + 1, sort)  OBVIOUS
<1>4. /\ IsFiniteSet(rows) /\ Cardinality(rows) \in Nat
      /\ page \subseteq rows
      /\ Cardinality(page) = (IF Cardinality(rows) > limit THEN limit ELSE Cardinality(rows))
  BY <1>1, <1>2, FirstRowsSize
<1>5. Cardinality(more) = IF Cardinality(rows) > limit + 1 THEN limit + 1 ELSE Cardinality(rows)
  <2>1. limit + 1 \in Nat  OBVIOUS
  <2>. QED  BY <1>1, <1>3, <2>1, FirstRowsSize
<1>6. EntityPageHasMore(d, c, limit, sort) <=> Cardinality(rows) > limit
  BY <1>3, <1>4, <1>5 DEF EntityPageHasMore
<1>7. page # rows <=> Cardinality(rows) > limit
  <2>1. page # rows => Cardinality(page) # Cardinality(rows)  BY <1>4, FS_Subset
  <2>. QED  BY <1>4, <2>1
<1>8. ASSUME NEW r \in page PROVE EntityDetail(d, c, r.source_id) = {r}
  <2>1. r \in rows  BY <1>4
  <2>2. \A s \in rows : s.source_id = r.source_id => s = r
    BY <1>1, <2>1 DEF RowsOf, WellKept, IdentityOf
  <2>. QED  BY <1>1, <2>1, <2>2 DEF EntityDetail
<1>. QED  BY <1>1, <1>2, <1>4, <1>6, <1>7, <1>8

LEMMA RelationsAlike ==
  ASSUME NEW d, WellKept(d), NEW c, NEW ids
  PROVE  RelationsReadAlike(d, c, ids)
<1> SUFFICES ASSUME NEW row \in d.relations, NEW id \in ids, NEW direction \in Directions
             PROVE  PageCopies(row, c, ids, id, direction) = DetailCopies(row, c, id, direction)
  BY DEF RelationsReadAlike
<1>1. row.source_category # row.target_category  BY DEF WellKept
<1>2. ~(SourceIs(direction, row, c, ids) /\ TargetIs(direction, row, c, ids))
  BY <1>1 DEF SourceIs, TargetIs
<1>3. /\ SourceIs(direction, row, c, {id}) => SourceIs(direction, row, c, ids)
      /\ TargetIs(direction, row, c, {id}) => TargetIs(direction, row, c, ids)
  BY DEF SourceIs, TargetIs
<1>4. CASE SourceIs(direction, row, c, ids) \/ TargetIs(direction, row, c, ids)
  <2>1. Copies(SourceIs(direction, row, c, ids), TargetIs(direction, row, c, ids)) = 1
    BY <1>2, <1>4 DEF Copies
  <2>2. PICK n \in Nat : n = DetailCopies(row, c, id, direction)  BY DEF DetailCopies, Copies
  <2>3. PageCopies(row, c, ids, id, direction) = 1 * n
    BY <2>1, <2>2 DEF PageCopies, DetailCopies
  <2>. QED  BY <2>2, <2>3
<1>5. CASE ~(SourceIs(direction, row, c, ids) \/ TargetIs(direction, row, c, ids))
  <2>1. Copies(SourceIs(direction, row, c, ids), TargetIs(direction, row, c, ids)) = 0
    BY <1>5 DEF Copies
  <2>2. Copies(SourceIs(direction, row, c, {id}), TargetIs(direction, row, c, {id})) = 0
    BY <1>3, <1>5 DEF Copies
  <2>. QED  BY <2>1, <2>2 DEF PageCopies, DetailCopies
<1>. QED  BY <1>4, <1>5

LEMMA LimitsNatural == Limits \subseteq Nat
BY DEF Limits, EffectiveLimit

-------------------------------------------------------------------------------
(* The loop.                                                               *)

(* The page in hand is usable, and its entities are those of its entries.  *)
InHand ==
  /\ Usable /\ document.entries # <<>>
  /\ entities = [i \in DOMAIN document.entries |->
       ParsedEntity(feed, document.entries[i].content, document.entries[i].enclosure)]

IngestInv ==
  /\ IngestTypeOK
  /\ phase = "parsed" => InHand
  /\ \A c \in DOMAIN Feeds : cursors[c] = Absent \/ ValidCursorUrl(c, cursors[c])
  /\ Stored(db, payloads)
  /\ WellKept(db)

LEMMA EntriesInHand ==
  ASSUME feed \in DOMAIN Feeds, document \in Feeds[feed]
  PROVE  /\ document.entries \in Seq(ToSet(document.entries))
         /\ \A i \in DOMAIN document.entries :
              document.entries[i].content # Absent => GoodXml(document.entries[i].content)
<1>1. document.entries \in Seq(ToSet(document.entries))  BY FeedsAssumption
<1>2. ASSUME NEW i \in DOMAIN document.entries, document.entries[i].content # Absent
      PROVE  GoodXml(document.entries[i].content)
  <2>1. document.entries[i] \in ToSet(document.entries)  BY DEF ToSet
  <2>. QED  BY <1>2, <2>1, FeedsAssumption DEF GoodXml
<1>. QED  BY <1>1, <1>2

LEMMA ParsedInHand ==
  ASSUME feed \in DOMAIN Feeds, document \in Feeds[feed], InHand
  PROVE  /\ EntityOf(feed) \in Types /\ EntityOf(EntityOf(feed).category) = EntityOf(feed)
         /\ Len(entities) \in Nat /\ DOMAIN entities = 1 .. Len(entities)
         /\ \A i \in DOMAIN entities : WellParsed(EntityOf(feed), entities[i])
         /\ ValidCursorUrl(feed, NextCursor(document))
         /\ Token \in Int
<1>1. /\ document.entries \in Seq(ToSet(document.entries)) /\ document.entries # <<>>
      /\ Len(document.entries) \in Nat /\ DOMAIN document.entries = 1 .. Len(document.entries)
  BY EntriesInHand DEF InHand
<1>2. DOMAIN entities = 1 .. Len(document.entries)  BY <1>1 DEF InHand
<1>3. Len(entities) = Len(document.entries)
  <2>1. PICK n \in Nat : n = Len(document.entries)  BY <1>1
  <2>2. entities \in [1 .. n -> {entities[i] : i \in 1 .. n}]
    <3>1. entities = [i \in DOMAIN entities |-> entities[i]]  BY DEF InHand
    <3>. QED  BY <1>2, <2>1, <3>1
  <2>3. entities \in Seq({entities[i] : i \in 1 .. n})  BY <2>2
  <2>. QED  BY <1>2, <2>1, <2>3
<1>4. ASSUME NEW i \in DOMAIN entities
      PROVE  \E e \in EntitiesNamed(feed) : e = EntityOf(feed) /\ WellParsed(e, entities[i])
  <2>1. i \in DOMAIN document.entries  BY <1>1, <1>2
  <2>2. PICK xml, enclosure :
          xml = document.entries[i].content /\ enclosure = document.entries[i].enclosure
    OBVIOUS
  <2>3. xml # Absent /\ AcceptsEntity(feed, xml)  BY <1>1, <2>1, <2>2 DEF InHand, Usable
  <2>4. GoodXml(xml)  BY <2>1, <2>2, <2>3, EntriesInHand
  <2>5. entities[i] = ParsedEntity(feed, xml, enclosure)  BY <2>1, <2>2 DEF InHand
  <2>. QED  BY <2>3, <2>4, <2>5, ParsedWell
<1>5. Len(document.entries) \in DOMAIN document.entries
  <2>1. Len(document.entries) # 0  BY <1>1
  <2>. QED  BY <1>1, <2>1
<1>6. EntityOf(feed) \in Types /\ EntityOf(EntityOf(feed).category) = EntityOf(feed)
  <2>1. PICK e \in EntitiesNamed(feed) : e = EntityOf(feed)  BY <1>1, <1>2, <1>4, <1>5
  <2>. QED  BY <2>1, EntityNamed
<1>7. ValidCursorUrl(feed, NextCursor(document))
  <2>1. NextCursor(document) # Absent /\ ParsesPage(feed, document)  BY <1>1 DEF InHand, Usable
  <2>2. NextCursor(document) = document.entries[Len(document.entries)].next
    BY <1>1, <2>1 DEF NextCursor, NextRequest, Last
  <2>3. ParsesEntry(feed, document.entries[Len(document.entries)])
    BY <1>5, <2>1 DEF ParsesPage
  <2>. QED  BY <2>2, <2>3 DEF ParsesEntry
<1>8. Token \in Int
  <2>1. NextCursor(document) # Absent  BY <1>1 DEF InHand, Usable
  <2>2. SkiptokenFromUrl(NextCursor(document)) # Absent  BY <2>1 DEF NextCursor
  <2>. QED  BY <2>2, NumberAssumption DEF Token, SkiptokenFromUrl
<1>. QED  BY <1>1, <1>2, <1>3, <1>4, <1>6, <1>7, <1>8

LEMMA IngestInvInit == IngestInit => IngestInv
<1> SUFFICES ASSUME IngestInit PROVE IngestInv  OBVIOUS
<1>1. IngestTypeOK  BY FeedsAssumption, MaxPagesAssumption DEF IngestInit, IngestTypeOK, NoRows
<1>2. phase # "parsed" /\ \A c \in DOMAIN Feeds : cursors[c] = Absent  BY DEF IngestInit
<1>3. Stored(db, payloads)
  <2>1. DOMAIN payloads = {} /\ db.entities = {} /\ db.relations = {}
    BY DEF IngestInit, NoRows
  <2>. QED  BY <2>1 DEF Stored
<1>4. WellKept(db)
  <2>1. db.entities = {} /\ db.relations = {}  BY DEF IngestInit, NoRows
  <2>. QED  BY <2>1, FS_EmptySet DEF WellKept
<1>. QED  BY <1>1, <1>2, <1>3, <1>4 DEF IngestInv

LEMMA IngestInvStep == IngestInv /\ [IngestNext]_ingestVars => IngestInv'
<1> SUFFICES ASSUME IngestInv, [IngestNext]_ingestVars PROVE IngestInv'  OBVIOUS
<1>0. IngestTypeOK  BY DEF IngestInv
<1>1. CASE Fetch
  <2>1. PICK c \in DOMAIN Feeds : feed' = c /\ document' \in Feeds[c]  BY <1>1 DEF Fetch
  <2>2. /\ phase = "idle" /\ pages < MaxPages /\ phase' = "fetched" /\ pages' = pages + 1
        /\ UNCHANGED <<entities, cursors, db, payloads>>
    BY <1>1 DEF Fetch
  <2>3. IngestTypeOK'
    <3>1. pages' \in 0 .. MaxPages  BY <1>0, <2>2, MaxPagesAssumption DEF IngestTypeOK
    <3>2. c # Absent  BY FeedsAssumption
    <3>. QED  BY <1>0, <2>1, <2>2, <3>1, <3>2 DEF IngestTypeOK
  <2>. QED  BY <2>2, <2>3 DEF IngestInv
<1>2. CASE Reject
  <2>1. /\ phase' = "idle" /\ feed' = Absent /\ entities' = <<>>
        /\ UNCHANGED <<cursors, db, payloads, pages>>
    BY <1>2 DEF Reject, PutAside
  <2>2. IngestTypeOK'  BY <1>0, <2>1 DEF IngestTypeOK
  <2>. QED  BY <2>1, <2>2 DEF IngestInv
<1>3. CASE CatchUp
  <2>1. /\ phase = "fetched" /\ Usable /\ document.entries = <<>>
        /\ cursors' = [cursors EXCEPT ![feed] = document.resume]
        /\ phase' = "idle" /\ feed' = Absent /\ entities' = <<>>
        /\ UNCHANGED <<db, payloads, pages>>
    BY <1>3 DEF CatchUp, PutAside
  <2>2. IngestTypeOK'  BY <1>0, <2>1 DEF IngestTypeOK
  <2>3. ValidCursorUrl(feed, document.resume)  BY <2>1 DEF Usable, ParsesPage, ParsesLink
  <2>4. ASSUME NEW c \in DOMAIN Feeds
        PROVE  cursors'[c] = Absent \/ ValidCursorUrl(c, cursors'[c])
    BY <1>0, <2>1, <2>3 DEF IngestTypeOK, IngestInv
  <2>. QED  BY <2>1, <2>2, <2>4 DEF IngestInv
<1>4. CASE Parse
  <2>1. /\ phase = "fetched" /\ Usable /\ document.entries # <<>>
        /\ entities' = [i \in DOMAIN document.entries |->
             ParsedEntity(feed, document.entries[i].content, document.entries[i].enclosure)]
        /\ phase' = "parsed"
        /\ UNCHANGED <<feed, document, cursors, db, payloads, pages>>
    BY <1>4 DEF Parse
  <2>2. feed \in DOMAIN Feeds /\ document \in Feeds[feed]  BY <1>0, <2>1 DEF IngestTypeOK
  <2>3. entities' # <<>>
    <3>1. /\ document.entries \in Seq(ToSet(document.entries)) /\ document.entries # <<>>
      BY <2>1, <2>2, EntriesInHand
    <3>2. /\ Len(document.entries) \in Nat /\ Len(document.entries) # 0
          /\ DOMAIN document.entries = 1 .. Len(document.entries)
      BY <3>1
    <3>4. 1 \in DOMAIN document.entries  BY <3>2
    <3>3. DOMAIN entities' = DOMAIN document.entries  BY <2>1
    <3>. QED  BY <3>3, <3>4
  <2>4. IngestTypeOK'  BY <1>0, <2>1, <2>3 DEF IngestTypeOK
  <2>5. InHand'  BY <2>1 DEF InHand, Usable
  <2>. QED  BY <2>1, <2>4, <2>5 DEF IngestInv
<1>5. CASE Write
  <2>1. /\ phase = "parsed"
        /\ db' = PageWritten(db, EntityOf(feed), entities, Token)
        /\ cursors' = [cursors EXCEPT ![feed] = NextCursor(document)]
        /\ payloads' = Latest(payloads, entities)[Len(entities)]
        /\ phase' = "idle" /\ feed' = Absent /\ entities' = <<>> /\ pages' = pages
    BY <1>5 DEF Write, PutAside
  <2>2. /\ feed \in DOMAIN Feeds /\ document \in Feeds[feed] /\ InHand
        /\ DOMAIN payloads \subseteq DOMAIN db.registry /\ Stored(db, payloads)
    BY <1>0, <2>1 DEF IngestTypeOK, IngestInv
  <2>3. DOMAIN payloads' \subseteq DOMAIN db'.registry /\ Stored(db', payloads')
    BY <2>1, <2>2, ParsedInHand, PageStored
  <2>4. IngestTypeOK'  BY <1>0, <2>1, <2>3 DEF IngestTypeOK
  <2>5. ValidCursorUrl(feed, NextCursor(document))  BY <2>2, ParsedInHand
  <2>6. ASSUME NEW c \in DOMAIN Feeds
        PROVE  cursors'[c] = Absent \/ ValidCursorUrl(c, cursors'[c])
    BY <1>0, <2>1, <2>5 DEF IngestTypeOK, IngestInv
  <2>7. WellKept(db')  BY <2>1, <2>2, ParsedInHand, PageKept DEF IngestInv
  <2>. QED  BY <2>1, <2>3, <2>4, <2>6, <2>7 DEF IngestInv
<1>6. CASE FailWrite
  <2>1. /\ phase' = "idle" /\ feed' = Absent /\ entities' = <<>>
        /\ UNCHANGED <<cursors, db, payloads, pages>>
    BY <1>6 DEF FailWrite, PutAside
  <2>2. IngestTypeOK'  BY <1>0, <2>1 DEF IngestTypeOK
  <2>. QED  BY <2>1, <2>2 DEF IngestInv
<1>7. CASE UNCHANGED ingestVars
  BY <1>7 DEF ingestVars, IngestInv, IngestTypeOK, InHand, Usable
<1>. QED  BY <1>1, <1>2, <1>3, <1>4, <1>5, <1>6, <1>7 DEF IngestNext

LEMMA IngestInvUsable == IngestInv => AcceptedPageIsUsable
<1> SUFFICES ASSUME IngestInv PROVE AcceptedPageIsUsable  OBVIOUS
<1>1. ASSUME phase = "parsed", NEW i \in DOMAIN entities
      PROVE  \/ Storable(EntityOf(feed), entities[i])
             \/ /\ "content_length" \in DOMAIN EntityTable(EntityOf(feed)).columns
                /\ ~Optional("i32", entities[i].contentLength)
  <2>1. feed \in DOMAIN Feeds /\ document \in Feeds[feed] /\ InHand
    BY <1>1 DEF IngestInv, IngestTypeOK
  <2>2. EntityOf(feed) \in Types /\ WellParsed(EntityOf(feed), entities[i])
    BY <2>1, ParsedInHand
  <2>. QED  BY <2>2, ParsedStorable
<1>2. ASSUME NEW c \in DOMAIN cursors PROVE StartCursor(c, cursors[c]) # Absent
  BY FeedsAssumption DEF IngestInv, IngestTypeOK, StartCursor
<1>. QED  BY <1>1, <1>2 DEF AcceptedPageIsUsable

LEMMA IngestInvariant == IngestSpec => []IngestInv
<1>. QED  BY IngestInvInit, IngestInvStep, PTL DEF IngestSpec

(* The loop's variables keep their types: a page is in hand just when the  *)
(* category it came from is, and what was stored is registered.            *)
THEOREM IngestTypes == IngestSpec => []IngestTypeOK
<1>1. IngestInv => IngestTypeOK  BY DEF IngestInv
<1>. QED  BY <1>1, IngestInvariant, PTL

(* parse_entity_xml and write_sync_page agree, for every schema whose      *)
(* fields keep to FieldsAssumption: no page is parsed that its tables      *)
(* could not hold, but for a content length beyond xs:int, and no cursor   *)
(* is stored that start_cursor would refuse.                               *)
THEOREM AcceptedPagesAreUsable == IngestSpec => []AcceptedPageIsUsable
<1>. QED  BY IngestInvUsable, IngestInvariant, PTL

(* write_sync_page: after any pages, of any categories, in any order, with *)
(* an entity in one page twice and over again in the next, the rows are    *)
(* those of the last payload of each, and every relation's target is       *)
(* registered.                                                             *)
THEOREM StoredIsLatest == IngestSpec => []StoredIsLatestPayload
<1>1. IngestInv => StoredIsLatestPayload  BY DEF IngestInv, StoredIsLatestPayload
<1>. QED  BY <1>1, IngestInvariant, PTL

(* GET /entities and its details agree, whatever the sort and the limit,   *)
(* after any pages: a list is as long as it can be and says whether there  *)
(* is more, no two rows tie, and a list gives the relations of an entity   *)
(* as often as its detail (query_public_entities, list_relations,          *)
(* list_relations_for_entities).                                           *)
THEOREM ReadersOfRowsAgree == IngestSpec => []ReadsAgree
<1>1. IngestInv => ReadsAgree
  BY LimitsNatural, PagesFull, RelationsAlike DEF IngestInv, ReadsAgree
<1>. QED  BY <1>1, IngestInvariant, PTL
=============================================================================
