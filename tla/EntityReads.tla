------------------------------- MODULE EntityReads -------------------------------
(***************************************************************************)
(* opentk-db::read_model and the entity endpoints of opentk-api: lists of  *)
(* entities, sorted and cut off at a limit, and the relations of one       *)
(* entity (detail) or of a list's entities (page), by direction.           *)
(***************************************************************************)
EXTENDS EntityRows, FiniteSetsExt, Integers

CONSTANT Rank  \* Rank[v]: where PostgreSQL sorts the value v

(* Two texts of one time may rank alike; the uuids are all apart.          *)
ASSUME RankAssumption ==
  /\ \A v \in DOMAIN Rank : Rank[v] \in Int
  /\ Reads["datetime"] \cup Reads["uuid"] \cup {"true", "false"} \subseteq DOMAIN Rank
  /\ \A u, v \in Reads["uuid"] : Rank[u] = Rank[v] => u = v

(* No official relation infers the category of the entity it is in.        *)
ASSUME TargetsAssumption ==
  \A e \in ToSet(EntityTypes) : \A f \in Relations(e) :
    InferTargetCategory(f.name) # e.category

Sorts == {"latest_asc", "latest_desc", "date_asc", "date_desc", "name_asc", "name_desc"}
Directions == {"outgoing", "incoming", "both"}

DATE_SORT_COLUMNS ==
  <<"datum", "gewijzigd_op", "registratiedatum", "source_updated_at", "atom_updated_at">>
NAME_SORT_COLUMNS ==
  <<"titel", "naam", "achternaam", "roepnaam", "onderwerp", "nummer", "document_nummer">>

(* effective_public_limit: what is asked for, up to the configured limit;  *)
(* 0 stands for a rejected request.                                        *)
EffectiveLimit(requested, configured) ==
  IF requested = NoValue THEN configured
  ELSE IF requested < configured THEN requested ELSE configured

(* sortable_column                                                         *)
SortableColumn(table, candidates) ==
  LET there == {i \in DOMAIN candidates : candidates[i] \in DOMAIN table.columns}
  IN IF there = {} THEN "latest_skiptoken" ELSE candidates[Min(there)]

Descends(sort) == sort \in {"latest_desc", "date_desc", "name_desc"}

PrimaryColumn(table, sort) ==
  CASE sort \in {"latest_asc", "latest_desc"} -> "latest_skiptoken"
    [] sort \in {"date_asc", "date_desc"} -> SortableColumn(table, DATE_SORT_COLUMNS)
    [] sort \in {"name_asc", "name_desc"} -> SortableColumn(table, NAME_SORT_COLUMNS)

(* sort_columns: ties are broken by token, then by source_id, each in the  *)
(* direction of the sort; a primary column that falls back to the token    *)
(* keeps its direction.                                                    *)
SortColumns(table, sort) ==
  LET primary == PrimaryColumn(table, sort)
  IN IF primary = "latest_skiptoken" THEN <<primary, "source_id">>
     ELSE <<primary, "latest_skiptoken", "source_id">>

(* ASC or DESC, NULLS LAST.                                                *)
ValueBefore(column, r, s, sort) ==
  LET Place(row) == IF column = "latest_skiptoken" THEN row[column] ELSE Rank[row[column]] IN
  CASE r[column] = NoValue -> FALSE
    [] r[column] # NoValue /\ s[column] = NoValue -> TRUE
    [] OTHER -> IF Descends(sort) THEN Place(r) > Place(s) ELSE Place(r) < Place(s)

Alike(column, r, s, sort) ==
  ~ValueBefore(column, r, s, sort) /\ ~ValueBefore(column, s, r, sort)

(* READ_SCHEMA: the table of a category, and the columns a sort of it has. *)
TableOf ==
  [c \in {e.category : e \in ToSet(EntityTypes)} |->
     EntityTable(CHOOSE e \in EntitiesNamed(c) : TRUE)]
OrderOf == [c \in DOMAIN TableOf |-> [sort \in Sorts |-> SortColumns(TableOf[c], sort)]]

RowBefore(columns, r, s, sort) ==
  \E i \in DOMAIN columns :
    /\ ValueBefore(columns[i], r, s, sort)
    /\ \A k \in 1 .. i - 1 : Alike(columns[k], r, s, sort)

RowsOf(db, category) == {r \in db.entities : r.source_category = category}

(* The first n of rows.                                                    *)
FirstRows(rows, n, columns, sort) ==
  {r \in rows : Cardinality({s \in rows : RowBefore(columns, s, r, sort)}) < n}

(* query_public_entities: the first of a category, up to limit; one more   *)
(* is asked for to know whether there are more.                            *)
EntityPage(db, category, limit, sort) ==
  FirstRows(RowsOf(db, category), limit, OrderOf[category][sort], sort)

EntityPageHasMore(db, category, limit, sort) ==
  Cardinality(EntityPage(db, category, limit + 1, sort)) > limit

(* get_detail: the same query for one source_id, with limit 1.             *)
EntityDetail(db, category, id) == {r \in RowsOf(db, category) : r.source_id = id}

-------------------------------------------------------------------------------
(* relation_lookups: outgoing in the category's own tables, incoming in    *)
(* all of them.                                                            *)
SourceIs(direction, row, category, ids) ==
  /\ direction \in {"outgoing", "both"}
  /\ row.source_category = category /\ row.source_id \in ids
TargetIs(direction, row, category, ids) ==
  /\ direction \in {"incoming", "both"}
  /\ row.target_category = category /\ row.target_id \in ids

Copies(a, b) == IF a /\ b THEN 2 ELSE IF a \/ b THEN 1 ELSE 0

(* list_relations: how often UNION ALL returns the row.                    *)
DetailCopies(row, category, id, direction) ==
  Copies(SourceIs(direction, row, category, {id}), TargetIs(direction, row, category, {id}))

(* Mutant: incoming relations are grouped by where they come from.         *)
PageCopiesBySource(row, category, ids, id, direction) ==
  Copies(SourceIs(direction, row, category, ids), TargetIs(direction, row, category, ids))
  * Copies(SourceIs(direction, row, category, {id}),
           TargetIs(direction, row, category, ids) /\ row.source_id = id)

(* list_relations_for_entities, then group_relations_by_entity: each copy  *)
(* goes to either end that was asked for.                                  *)
PageCopies(row, category, ids, id, direction) ==
  Copies(SourceIs(direction, row, category, ids), TargetIs(direction, row, category, ids))
  * Copies(SourceIs(direction, row, category, {id}), TargetIs(direction, row, category, {id}))

(* A list gives each of its entities the relations its detail gives, and  *)
(* as often.  A relation between two entities of one category would come   *)
(* twice in a list that has both, but no official field infers its own     *)
(* category.                                                               *)
RelationsReadAlike(db, category, ids) ==
  \A row \in db.relations, id \in ids, direction \in Directions :
    PageCopies(row, category, ids, id, direction) = DetailCopies(row, category, id, direction)

(* Whatever the sort, a list has as many entities as its limit allows, of  *)
(* those that are there, and says whether there are more.                  *)
PagesAreFull(db, category, limit) ==
  \A sort \in Sorts :
    LET page == EntityPage(db, category, limit, sort)
        rows == RowsOf(db, category)
    IN /\ Cardinality(page) = IF Cardinality(rows) > limit THEN limit ELSE Cardinality(rows)
       /\ EntityPageHasMore(db, category, limit, sort) <=> page # rows
       /\ \A r \in page : EntityDetail(db, category, r.source_id) = {r}
=============================================================================
