--------------------------------- MODULE Ingest ---------------------------------
(***************************************************************************)
(* opentk-sync::runner, run_category, with what it keeps: answers of the   *)
(* feed become pages (FeedPage), their payloads entities (EntityPayload),  *)
(* these rows (EntityRows), and the read model reads them (EntityReads).   *)
(* SyncRunner has the control of the worker, its retries and shutdown,     *)
(* SyncWriter the interleaving of two pages' statements; here a page is    *)
(* one step, and its data what matters.                                    *)
(***************************************************************************)
EXTENDS FeedPage, EntityReads

CONSTANTS
  Feeds,       \* Feeds[c]: the answers there may be for a category
  MaxPages     \* bound: answers fetched

(* A child element that is not nil has a text, the empty one if no other,  *)
(* which PostgreSQL can sort.                                              *)
ASSUME FeedsAssumption ==
  /\ Absent \notin DOMAIN Feeds
  /\ \A c \in DOMAIN Feeds : Absent # FirstPage(c) /\ \A answer \in Feeds[c] :
       /\ answer.entries \in Seq(ToSet(answer.entries))
       /\ \A entry \in ToSet(answer.entries) : entry.content # Absent =>
            /\ entry.content.children \in Seq(ToSet(entry.content.children))
            /\ \A child \in ToSet(entry.content.children) :
                 child.nil \in BOOLEAN /\ child.text \in DOMAIN Rank \ {NoValue}
ASSUME MaxPagesAssumption == MaxPages \in Nat

VARIABLES
  phase,       \* "idle", "fetched", "parsed"
  feed,        \* the category of the page in hand
  document,    \* the answer
  entities,    \* the entities parsed from it
  cursors,     \* sync_category.next_url by category
  db,          \* the registry and the rows
  payloads,    \* history: the last stored payload of each identity
  pages        \* answers fetched so far

ingestVars == <<phase, feed, document, entities, cursors, db, payloads, pages>>

IngestInit ==
  /\ phase = "idle" /\ feed = Absent /\ document = Absent /\ entities = <<>>
  /\ cursors = [c \in DOMAIN Feeds |-> Absent]
  /\ db = NoRows
  /\ payloads = <<>>
  /\ pages = 0

EntityOf(c) == CHOOSE e \in EntitiesNamed(c) : TRUE

(* The cursor in memory is the one that was stored.                        *)
Fetch ==
  /\ phase = "idle" /\ pages < MaxPages
  /\ \E c \in DOMAIN Feeds :
       /\ StartCursor(c, cursors[c]) # Absent
       /\ feed' = c
       /\ document' \in Feeds[c]
  /\ phase' = "fetched"
  /\ pages' = pages + 1
  /\ UNCHANGED <<entities, cursors, db, payloads>>

(* Back to the beginning, the rows as they were.                           *)
PutAside == phase' = "idle" /\ feed' = Absent /\ document' = Absent /\ entities' = <<>>

(* parse_page, MissingResume, MissingNext, parse_entities: an answer that  *)
(* is not accepted whole is dropped; nothing is stored but the error.      *)
Usable ==
  /\ ParsesPage(feed, document)
  /\ IF document.entries = <<>> THEN document.resume # Absent
     ELSE /\ NextCursor(document) # Absent
          /\ \A i \in DOMAIN document.entries :
               /\ document.entries[i].content # Absent
               /\ AcceptsEntity(feed, document.entries[i].content)

Reject ==
  /\ phase = "fetched" /\ ~Usable
  /\ PutAside
  /\ UNCHANGED <<cursors, db, payloads, pages>>

(* handle_empty_page: mark_caught_up stores the resume URL.                *)
CatchUp ==
  /\ phase = "fetched" /\ Usable /\ document.entries = <<>>
  /\ cursors' = [cursors EXCEPT ![feed] = document.resume]
  /\ PutAside
  /\ UNCHANGED <<db, payloads, pages>>

Parse ==
  /\ phase = "fetched" /\ Usable /\ document.entries # <<>>
  /\ entities' = [i \in DOMAIN document.entries |->
       ParsedEntity(feed, document.entries[i].content, document.entries[i].enclosure)]
  /\ phase' = "parsed"
  /\ UNCHANGED <<feed, document, cursors, db, payloads, pages>>

Token == SkiptokenFromUrl(NextCursor(document))
AllStorable == \A i \in DOMAIN entities : Storable(EntityOf(feed), entities[i])

Noted(seen, entity) == [k \in {IdOf(entity)} |-> entity] ++ seen

(* The last payload of each identity, after each of the entities.          *)
Latest(seen, parsed) ==
  LET latest[n \in 0 .. Len(parsed)] ==
        IF n = 0 THEN seen ELSE Noted(latest[n - 1], parsed[n])
  IN latest

(* write_sync_page, to its commit.                                         *)
Write ==
  /\ phase = "parsed" /\ AllStorable
  /\ db' = PageWritten(db, EntityOf(feed), entities, Token)
  /\ cursors' = [cursors EXCEPT ![feed] = NextCursor(document)]
  /\ payloads' = Latest(payloads, entities)[Len(entities)]
  /\ PutAside
  /\ UNCHANGED pages

(* A statement failed, a value that does not fit its column included, or   *)
(* the process ended: the page is rolled back.                             *)
FailWrite ==
  /\ phase = "parsed"
  /\ PutAside
  /\ UNCHANGED <<cursors, db, payloads, pages>>

IngestNext == Fetch \/ Reject \/ CatchUp \/ Parse \/ Write \/ FailWrite

IngestSpec == IngestInit /\ [][IngestNext]_ingestVars

-------------------------------------------------------------------------------
(* Types: what is in hand fits the phase, and whatever was delivered as an *)
(* entity is in the registry, deleted or not.                              *)
IngestTypeOK ==
  /\ phase \in {"idle", "fetched", "parsed"}
  /\ phase = "idle" <=> feed = Absent
  /\ feed # Absent => feed \in DOMAIN Feeds /\ document \in Feeds[feed]
  /\ entities # <<>> <=> phase = "parsed"
  /\ DOMAIN cursors = DOMAIN Feeds
  /\ \A k \in DOMAIN payloads : k \in DOMAIN db.registry
  /\ pages \in 0 .. MaxPages

(* What the parser accepts, the schema can store, and what was stored as   *)
(* the cursor, the next start accepts: else the category would stop at     *)
(* that page, every time.  The one exception is a content length beyond    *)
(* xs:int, which is parsed with 64 bits and, in the tables that have a     *)
(* column for it, stored with 32.                                          *)
AcceptedPageIsUsable ==
  /\ phase = "parsed" =>
       \A i \in DOMAIN entities :
         \/ Storable(EntityOf(feed), entities[i])
         \/ /\ "content_length" \in DOMAIN EntityTable(EntityOf(feed)).columns
            /\ ~Optional("i32", entities[i].contentLength)
  /\ \A c \in DOMAIN cursors : StartCursor(c, cursors[c]) # Absent

(* What is stored of the identity k.                                       *)
OwnRow(rows, k) == {r \in rows.entities : IdentityOf(r) = k}
ScalarsIn(row) ==
  {<<n, row[n]>> : n \in {m \in DOMAIN row \ OwnColumns : row[m] # NoValue}}
RepeatedIn(rows, k) ==
  {<<r.table[2], r.ordinal, r.value>> : r \in {x \in rows.scalars : IdentityOf(x) = k}}
RelationsIn(rows, k) ==
  {[name |-> r.relation_name, ordinal |-> r.ordinal,
    category |-> r.target_category, id |-> r.target_id] :
   r \in {x \in rows.relations : IdentityOf(x) = k}}

SingleScalars(p) == {s \in p.scalars : ~FieldNamed(EntityOf(p.category), s.name).many}

(* What of it is not a field.                                              *)
Envelope(p) ==
  [source_category |-> p.category, source_id |-> p.id, source_updated_at |-> p.updated,
   content_type |-> p.contentType, content_length |-> p.contentLength,
   enclosure_url |-> p.enclosure]

StoredAs(rows, k, p) ==
  /\ rows.registry[k].deleted = p.deleted
  /\ \A r \in OwnRow(rows, k) :
     /\ \A n \in DOMAIN r \cap DOMAIN Envelope(p) : r[n] = Envelope(p)[n]
     /\ ScalarsIn(r) = {<<SqlName[s.name], s.value.of>> : s \in SingleScalars(p)}
  /\ RepeatedIn(rows, k) = {<<SqlName[s.name], s.ordinal, s.value.of>> :
                            s \in p.scalars \ SingleScalars(p)}
  /\ RelationsIn(rows, k) = p.relations

Stored(rows, latest) ==
  /\ {IdentityOf(r) : r \in rows.entities} = {k \in DOMAIN latest : ~latest[k].deleted}
  /\ \A k \in DOMAIN latest : StoredAs(rows, k, latest[k])
  /\ \A r \in rows.relations : <<r.target_category, r.target_id>> \in DOMAIN rows.registry

(* The rows of an entity, its relations and its repeated values among      *)
(* them, are those of the payload that was stored last, and of no earlier  *)
(* one; of a deleted entity there are none.  No field or reference that    *)
(* the parser kept is lost on the way, nor anything else of the payload    *)
(* (its time, its content's type and length, its enclosure) that the table *)
(* has a column for; and what a relation points at is registered.          *)
StoredIsLatestPayload == Stored(db, payloads)

(* The limits of a list, by what was asked for, if the API allows two.     *)
Limits == {EffectiveLimit(requested, 2) : requested \in {NoValue, 1, 3}}

(* Lists, details and relations of the rows agree with each other, for     *)
(* every category that has any, every sort and every limit.                *)
ReadsAgree ==
  \A c \in {r.source_category : r \in db.entities} :
    /\ RelationsReadAlike(db, c, {r.source_id : r \in RowsOf(db, c)})
    /\ \A limit \in Limits : PagesAreFull(db, c, limit)
=============================================================================
