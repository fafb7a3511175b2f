---------------------------- MODULE DocumentAssets ----------------------------
(***************************************************************************)
(* opentk-db::document_assets: recording the assets fetched for documents  *)
(* and the content extracted from them, statement by statement, while      *)
(* sync pages delete and insert the document rows they belong to           *)
(* (opentk-db::sync_writer) and the foreign keys cascade.  The caller of   *)
(* fetcher, extractor and store is external: outside of the tests nothing  *)
(* in the repository calls them.  Each document has one asset URL.         *)
(* Any statement may fail for reasons of its own, a deadlock that          *)
(* PostgreSQL breaks included.                                             *)
(***************************************************************************)
EXTENDS DocumentFetch, FiniteSets

CONSTANTS
  Documents,   \* source_ids of category Document
  Callers,     \* the callers, each with one batch at a time
  Requests,    \* Requests[c]: the batches of documents c may ask for
  Runs,        \* what a server answers to the attempts of one request
  AlternativeRuns, \* ... of the request for an official alternative
  Fixtures,    \* what the extractor's fixtures say of a body
  Times,       \* retrieved_at: when a fetch began
  Pages,       \* the pages: sequences of [document, deleted]
  MaxId,       \* bound: identity values handed out
  NoAsset      \* no document_asset row

AssetRow == [id : 1 .. MaxId, status : Statuses, at : Times]

ASSUME RequestsAssumption == \A c \in Callers : \A r \in Requests[c] : r \in Seq(Documents)
ASSUME PagesAssumption == \A p \in Pages : p \in Seq([document : Documents, deleted : BOOLEAN])
ASSUME NoAssetAssumption == NoAsset \notin AssetRow \cup [status : Statuses, at : Times]
ASSUME MaxIdAssumption == MaxId \in Nat
ASSUME TimesAssumption == Times \subseteq Nat

VARIABLES
  present,     \* committed: the document rows
  asset,       \* committed: document_asset by document
  content,     \* committed: document_content
  ids,         \* identity values handed out so far
  page, next,  \* the open page transaction and its next entity
  pc,          \* pc[c]: where the caller is
  reports,     \* reports[c]: the reports of its batch
  at,          \* at[c]: the report the next statement is about
  newAsset, newContent  \* what its open transaction has written

pageVars == <<page, next>>
callVars == <<pc, reports, at, newAsset, newContent>>
storeVars == <<present, asset, content>>
vars == <<storeVars, ids, pageVars, callVars>>

NoPage == <<>>

Init ==
  /\ present = {}
  /\ asset = [d \in Documents |-> NoAsset]
  /\ content = {}
  /\ ids = 0
  /\ page = NoPage /\ next = 1
  /\ pc = [c \in Callers |-> "idle"]
  /\ reports = [c \in Callers |-> <<>>]
  /\ at = [c \in Callers |-> 1]
  /\ newAsset = [c \in Callers |-> [d \in Documents |-> NoAsset]]
  /\ newContent = [c \in Callers |-> {}]

InTransaction(c) == pc[c] \in {"asset", "content", "extraction"}

(* The documents whose rows, or whose assets' rows, c's transaction has    *)
(* locked: those of the reports it has written to.                         *)
Locked(c) ==
  IF ~InTransaction(c) THEN {}
  ELSE {reports[c][i].document :
          i \in {k \in DOMAIN reports[c] : k < at[c] \/ (pc[c] = "content" /\ k = at[c])}}

(* The documents the page transaction has deleted, and inserted again.     *)
Rewritten == {page[i].document : i \in {k \in DOMAIN page : k < next}}

-------------------------------------------------------------------------------
(* A page of category Document (SyncWriter has its details).               *)

BeginPage ==
  /\ page = NoPage
  /\ \E p \in Pages : page' = p
  /\ next' = 1
  /\ UNCHANGED <<storeVars, ids, callVars>>

WriteDocument ==
  /\ page # NoPage /\ next \in DOMAIN page
  /\ \A c \in Callers : page[next].document \notin Locked(c)
  /\ next' = next + 1
  /\ UNCHANGED <<storeVars, ids, page, callVars>>

(* Mutant: contents outlive the documents.                                 *)
CommitPageKeepingContent ==
  /\ page # NoPage /\ next \notin DOMAIN page
  /\ present' = (present \ Rewritten)
                  \cup {page[i].document : i \in {k \in DOMAIN page : ~page[k].deleted}}
  /\ asset' = [d \in Documents |-> IF d \in Rewritten THEN NoAsset ELSE asset[d]]
  /\ page' = NoPage /\ next' = 1
  /\ UNCHANGED <<content, ids, callVars>>

(* delete_current_rows cascades to the assets and contents, also when the  *)
(* document is inserted again.                                             *)
CommitPage ==
  /\ page # NoPage /\ next \notin DOMAIN page
  /\ present' = (present \ Rewritten)
                  \cup {page[i].document : i \in {k \in DOMAIN page : ~page[k].deleted}}
  /\ asset' = [d \in Documents |-> IF d \in Rewritten THEN NoAsset ELSE asset[d]]
  /\ content' = {x \in content : x.document \notin Rewritten}
  /\ page' = NoPage /\ next' = 1
  /\ UNCHANGED <<ids, callVars>>

FailPage ==
  /\ page # NoPage
  /\ page' = NoPage /\ next' = 1
  /\ UNCHANGED <<storeVars, ids, callVars>>

-------------------------------------------------------------------------------
(* A caller fetches, records, looks the asset up, extracts and records.    *)

(* fetch_many: the reports come in the order of the requests, each with    *)
(* the time its own fetch began.                                           *)
FetchMany(c) ==
  /\ pc[c] = "idle"
  /\ \E r \in Requests[c] :
       \E result \in [DOMAIN r -> [run : Runs, alternative : AlternativeRuns, at : Times]] :
         reports' = [reports EXCEPT ![c] =
           [i \in DOMAIN r |->
              [document |-> r[i], id |-> 0, at |-> result[i].at,
               report |-> FetchOne(result[i].run, result[i].alternative)]]]
  /\ pc' = [pc EXCEPT ![c] = "fetched"]
  /\ UNCHANGED <<storeVars, ids, pageVars, at, newAsset, newContent>>

Begin(c, from, to) ==
  /\ pc[c] = from
  /\ pc' = [pc EXCEPT ![c] = to]
  /\ at' = [at EXCEPT ![c] = 1]
  /\ UNCHANGED <<storeVars, ids, pageVars, reports, newAsset, newContent>>

Current(c) == reports[c][at[c]]

(* The row a statement of c finds: its own, else the committed one.        *)
AssetSeen(c, d) == IF newAsset[c][d] # NoAsset THEN newAsset[c][d] ELSE asset[d]

(* A statement waits while another transaction has written the row.        *)
RowFree(c, d) ==
  /\ d \notin Rewritten
  /\ \A other \in Callers \ {c} : newAsset[other][d] = NoAsset

(* upsert_asset: the row of an asset URL keeps its id.                     *)
UpsertAsset(c) ==
  LET r == Current(c)
      seen == AssetSeen(c, r.document)
      id == IF seen = NoAsset THEN ids + 1 ELSE seen.id
  IN /\ pc[c] = "asset" /\ at[c] \in DOMAIN reports[c]
     /\ RowFree(c, r.document)
     /\ r.document \in present
     /\ id <= MaxId
     /\ ids' = IF seen = NoAsset THEN id ELSE ids
     /\ newAsset' = [newAsset EXCEPT ![c][r.document] =
                       [id |-> id, status |-> r.report.status, at |-> r.at]]
     /\ IF RecordsContent(r.report)
        THEN pc' = [pc EXCEPT ![c] = "content"] /\ UNCHANGED at
        ELSE at' = [at EXCEPT ![c] = @ + 1] /\ UNCHANGED pc
     /\ UNCHANGED <<storeVars, pageVars, reports, newContent>>

Key(x) == <<x.asset, x.source, x.output>>

(* NULLs do not conflict with each other.                                  *)
Conflicts(x, y) == Key(x) = Key(y) /\ x.output # Null

(* INSERT ... ON CONFLICT (document_asset_id, source_hash, output_hash)    *)
(* DO UPDATE: a row that is there keeps its id.                            *)
Upserted(c, x) ==
  LET seen == {y \in newContent[c] : Conflicts(x, y)}
                \cup {y \in content : Conflicts(x, y)}
  IN [x EXCEPT !.id = IF seen = {} THEN ids + 1 ELSE (CHOOSE y \in seen : TRUE).id]

Insert(c, x) ==
  LET row == Upserted(c, x) IN
  /\ \A other \in Callers \ {c} : \A y \in newContent[other] : ~Conflicts(x, y)
  /\ row.id <= MaxId
  /\ ids' = IF row.id > ids THEN row.id ELSE ids
  /\ newContent' = [newContent EXCEPT ![c] = {y \in @ : ~Conflicts(x, y)} \cup {row}]

Row(document, assetId, x) ==
  [document |-> document, asset |-> assetId, id |-> 0, source |-> x.source,
   output |-> x.output, official |-> x.official, rank |-> x.rank, status |-> x.status,
   validation |-> x.validation, body |-> x.body, error |-> x.error, at |-> x.at]

InsertContent(c) ==
  LET r == Current(c) IN
  /\ pc[c] = "content"
  /\ Insert(c, Row(r.document, newAsset[c][r.document].id,
                   OfficialContent(r.report, r.at)))
  /\ pc' = [pc EXCEPT ![c] = "asset"]
  /\ at' = [at EXCEPT ![c] = @ + 1]
  /\ UNCHANGED <<storeVars, pageVars, reports, newAsset>>

AssetId(d) == IF asset[d] = NoAsset THEN 0 ELSE asset[d].id

(* The SELECT of an asset's id that comes between: the rows are those of   *)
(* another moment, and another caller may have written them.               *)
Lookup(c) ==
  /\ pc[c] = "recorded"
  /\ IF \E i \in DOMAIN reports[c] :
          /\ reports[c][i].report.status = "fetched"
          /\ asset[reports[c][i].document] # NoAsset
     THEN /\ reports' = [reports EXCEPT ![c] =
               [i \in DOMAIN reports[c] |->
                  [reports[c][i] EXCEPT !.id = AssetId(reports[c][i].document)]]]
          /\ pc' = [pc EXCEPT ![c] = "known"]
     ELSE /\ reports' = [reports EXCEPT ![c] = <<>>]
          /\ pc' = [pc EXCEPT ![c] = "idle"]
  /\ UNCHANGED <<storeVars, ids, pageVars, at, newAsset, newContent>>

(* from_fetch_report and extract, for the fetched assets that were found,  *)
(* in their order.                                                         *)
Extractable(c) ==
  {i \in DOMAIN reports[c] : reports[c][i].report.status = "fetched" /\ reports[c][i].id # 0}

ExtractAll(c) ==
  /\ pc[c] = "known"
  /\ \E fixture \in Fixtures, order \in [1 .. Cardinality(Extractable(c)) -> Extractable(c)] :
       /\ \A i, k \in DOMAIN order : i < k => order[i] < order[k]
       /\ reports' = [reports EXCEPT ![c] =
            [i \in DOMAIN order |->
               LET r == reports[c][order[i]] IN
               [document |-> r.document, id |-> r.id,
                content |-> Extract(r.report.source, r.at, fixture)]]]
  /\ pc' = [pc EXCEPT ![c] = "extracted"]
  /\ UNCHANGED <<storeVars, ids, pageVars, at, newAsset, newContent>>

(* insert_extraction: the foreign keys want the asset looked up before and *)
(* the document, both still there; the CHECK wants a body or an error.     *)
InsertExtraction(c) ==
  LET r == Current(c) IN
  /\ pc[c] = "extraction" /\ at[c] \in DOMAIN reports[c]
  /\ r.document \notin Rewritten
  /\ r.document \in present
  /\ \E d \in Documents : AssetId(d) = r.id /\ d \notin Rewritten
  /\ BodyCheck(r.content)
  /\ Insert(c, Row(r.document, r.id, r.content))
  /\ at' = [at EXCEPT ![c] = @ + 1]
  /\ UNCHANGED <<storeVars, pageVars, pc, reports, newAsset>>

(* Mutant: the rows written are not forgotten.                             *)
EndKeepingRows(c) ==
  /\ at' = [at EXCEPT ![c] = 1]
  /\ UNCHANGED <<present, ids, pageVars, newAsset, newContent>>

End(c) ==
  /\ at' = [at EXCEPT ![c] = 1]
  /\ newAsset' = [newAsset EXCEPT ![c] = [d \in Documents |-> NoAsset]]
  /\ newContent' = [newContent EXCEPT ![c] = {}]
  /\ UNCHANGED <<present, ids, pageVars>>

Publish(c) ==
  /\ asset' = [d \in Documents |-> AssetSeen(c, d)]
  /\ content' = newContent[c] \cup
                  {x \in content : \A y \in newContent[c] : x.id # y.id}

(* The caller goes on, or has lost the answer and records once more.       *)
CommitFetches(c) ==
  /\ pc[c] = "asset" /\ at[c] \notin DOMAIN reports[c]
  /\ \E to \in {"recorded", "fetched"} : pc' = [pc EXCEPT ![c] = to]
  /\ Publish(c) /\ End(c)
  /\ UNCHANGED reports

CommitExtractions(c) ==
  /\ pc[c] = "extraction" /\ at[c] \notin DOMAIN reports[c]
  /\ \/ pc' = [pc EXCEPT ![c] = "extracted"] /\ UNCHANGED reports
     \/ /\ pc' = [pc EXCEPT ![c] = "idle"]
        /\ reports' = [reports EXCEPT ![c] = <<>>]
  /\ Publish(c) /\ End(c)

(* Mutant: what was written before the failing statement stays.            *)
FailKeeping(c) ==
  /\ InTransaction(c)
  /\ pc' = [pc EXCEPT ![c] = "idle"]
  /\ reports' = [reports EXCEPT ![c] = <<>>]
  /\ Publish(c) /\ End(c)

(* DocumentAssetWriteError, DocumentContentWriteError: with ? the          *)
(* transaction is dropped and rolled back.                                 *)
Fail(c) ==
  /\ InTransaction(c)
  /\ pc' = [pc EXCEPT ![c] = "idle"]
  /\ reports' = [reports EXCEPT ![c] = <<>>]
  /\ End(c)
  /\ UNCHANGED <<asset, content>>

Call(c) ==
  \/ FetchMany(c)
  \/ Begin(c, "fetched", "asset") \/ UpsertAsset(c) \/ InsertContent(c) \/ CommitFetches(c)
  \/ Lookup(c) \/ ExtractAll(c)
  \/ Begin(c, "extracted", "extraction") \/ InsertExtraction(c) \/ CommitExtractions(c)
  \/ Fail(c)

PageStep == BeginPage \/ WriteDocument \/ CommitPage \/ FailPage

Next == PageStep \/ \E c \in Callers : Call(c)

Spec == Init /\ [][Next]_vars

-------------------------------------------------------------------------------
(* Types: callers stay inside their reports, and have rows of their own    *)
(* only in a transaction.                                                  *)
TypeOK ==
  /\ present \subseteq Documents
  /\ asset \in [Documents -> AssetRow \cup {NoAsset}]
  /\ \A x \in content : x.id \in 1 .. MaxId /\ x.asset \in 1 .. MaxId /\ x.document \in Documents
  /\ ids \in 0 .. MaxId
  /\ page \in Pages \cup {NoPage} /\ next \in 1 .. Len(page) + 1
  /\ pc \in [Callers -> {"idle", "fetched", "asset", "content", "recorded", "known",
                         "extracted", "extraction"}]
  /\ \A c \in Callers :
       /\ at[c] \in 1 .. Len(reports[c]) + 1
       /\ newAsset[c] \in [Documents -> AssetRow \cup {NoAsset}]
       /\ ~InTransaction(c) => newContent[c] = {}

(* Each content row belongs to the asset that its document has now.  The   *)
(* two foreign keys do not say so: one asks for the document, the other    *)
(* for some asset, and the asset's id was read before the transaction.     *)
ContentMatchesAsset ==
  \A x \in content : x.document \in present /\ AssetId(x.document) = x.asset

(* Recording the same reports again, because the answer was lost, adds no  *)
(* second row for one source and one output, failures included (the key    *)
(* "prevents duplicate extraction results for the same asset/source/output"*)
(* in docs/postgres-schema.md, and where its columns are NULL the code).   *)
RecordedOnce ==
  \A x, y \in content :
    x.asset = y.asset /\ x.source = y.source /\ x.output = y.output => x.id = y.id

-------------------------------------------------------------------------------
(* Readers.                                                                *)

(* Mutant: among those of one moment there is no first.                    *)
SearchPrefersByTime(x, y) ==
  \/ x.official /\ ~y.official
  \/ x.official = y.official /\ x.rank < y.rank
  \/ x.official = y.official /\ x.rank = y.rank /\ x.at > y.at

(* search_projection, document_content: ORDER BY official_source DESC,     *)
(* source_rank, extracted_at DESC, id DESC.                                *)
SearchPrefers(x, y) ==
  \/ x.official /\ ~y.official
  \/ x.official = y.official /\ x.rank < y.rank
  \/ x.official = y.official /\ x.rank = y.rank /\ x.at > y.at
  \/ x.official = y.official /\ x.rank = y.rank /\ x.at = y.at /\ x.id > y.id

(* read_model, get_document_content: the same order, written once more.    *)
ApiPrefers(x, y) ==
  IF x.official # y.official THEN x.official
  ELSE IF x.rank # y.rank THEN x.rank < y.rank
  ELSE IF x.at # y.at THEN x.at > y.at
  ELSE x.id > y.id

ContentsOf(d) == {x \in content : x.document = d}

(* DISTINCT ON over document_content alone.                                *)
SearchContent(d) ==
  {x \in ContentsOf(d) : \A y \in ContentsOf(d) \ {x} : SearchPrefers(x, y)}

(* LEFT JOIN from document, then LIMIT 1.                                  *)
ApiContent(d) ==
  {x \in ContentsOf(d) :
     d \in present /\ \A y \in ContentsOf(d) \ {x} : ApiPrefers(x, y)}

(* What the search index holds of a document is what the API serves: one   *)
(* row, however many extractions of one moment there are.                  *)
ServedAlike ==
  \A d \in Documents :
    /\ SearchContent(d) = ApiContent(d)
    /\ Cardinality(ApiContent(d)) = IF ContentsOf(d) = {} THEN 0 ELSE 1

-------------------------------------------------------------------------------
(* The abstract store knows no ids.                                        *)

AssetValue(row) ==
  IF row = NoAsset THEN NoAsset ELSE [status |-> row.status, at |-> row.at]

ContentValue(x) ==
  [source |-> x.source, output |-> x.output, official |-> x.official, rank |-> x.rank,
   status |-> x.status, validation |-> x.validation, body |-> x.body, error |-> x.error,
   at |-> x.at]

Docs ==
  [d \in Documents |->
     [present |-> d \in present, asset |-> AssetValue(asset[d]),
      contents |-> {ContentValue(x) : x \in {y \in content : y.document = d}}]]

Batch(c) ==
  CASE pc[c] \in {"asset", "content"} ->
         [i \in DOMAIN reports[c] |->
            LET r == reports[c][i] IN
            [document |-> r.document,
             asset |-> [status |-> r.report.status, at |-> r.at],
             contents |-> IF RecordsContent(r.report)
                          THEN {OfficialContent(r.report, r.at)} ELSE {}]]
    [] pc[c] = "extraction" ->
         [i \in DOMAIN reports[c] |->
            [document |-> reports[c][i].document, asset |-> NoAsset,
             contents |-> {reports[c][i].content}]]
    [] OTHER -> <<>>

Abstract == INSTANCE DocumentStore WITH
  Documents <- Documents, Callers <- Callers, NoAsset <- NoAsset,
  docs <- Docs, batch <- [c \in Callers |-> Batch(c)]

(* A batch is recorded whole or not at all, and as if alone, whatever      *)
(* pages and other batches do between its statements.                      *)
RefinesDocumentStore == Abstract!Spec
=============================================================================
