# OpenTK in TLA+

TLA+ modules for OpenTK's way of the official data from the SyncFeed to its
readers: the sync runner and its SyncFeed client, the parser, the page writer and
the schema it writes into, the search reconciler, the assets of documents and
the read model with its change feed; with TLC configurations and
machine-checked proofs. Paths are relative to the repository; `crates/` is where
the Rust code is.

## 1. The system

    SyncFeed (HTTP, XML)
       |  pages
    opentk-sync: runner + client + parser --- one worker per category
       |  one transaction per page
    PostgreSQL: sync_category, sync_entity, entity and relation tables, ingest_error
       |                          ^
       |  counts, windows         |  fetched and extracted document text
    opentk-search-reconciler    document assets
       |  documents, deletes
    Meilisearch
       |                       PostgreSQL
    opentk-api  <---------------/

PostgreSQL is the source of truth; the components share nothing else. Every
document, entity and relation is found through `sync_entity`, the registry: a
row per (category, id) with the skiptoken that last touched it.

### Inventory

| Component | State it keeps | Operations | Hard | Correct when |
|---|---|---|---|---|
| Sync runner (`opentk-sync/src/runner.rs`, bin `opentk-sync`) | per worker: its cursor, the page, attempts; shutdown flag and its waiters | `run_once`, `run_until_shutdown`, `run_category`, `handle_empty_page`, retry, `record_error` | abort of workers by a sibling's failure, shutdown racing a fetch, crash around COMMIT, lost answers | rows and cursor move together and only forward; failures stay visible; a shutdown ends; a quiet feed is caught up |
| State store (`opentk-db/src/sync_state.rs`) | `sync_category`, `ingest_error` | load cursor, write page, mark caught up, record error, status | which of error and progress is newer | status shows an error until later progress |
| Page writer (`opentk-db/src/sync_writer.rs`) | a transaction: advisory locks, row locks, uncommitted rows | `write_sync_page` and its statements | concurrent pages that refer to each other's entities | no deadlock, pages apply as if one at a time, foreign keys hold |
| Search reconciler (`opentk-db/src/search_reconciler.rs`, `search_projection.rs`) | locals of a pass, the scratch table; progress is the index itself | count, binary search, delete extras, windows, upload | everything may change between two calls, a pass may stop anywhere | a completed pass leaves an exact index; passes end |
| Meilisearch client (`opentk-search/src/lib.rs`) | none; tasks live in Meilisearch | highest token, counts, ids, chunked batches, wait for task | a task outlives the wait for it | as used by the reconciler |
| SyncFeed client (`opentk-sync/src/syncfeed.rs`) | semaphore, pacing delay | fetch with retries, observe a status, parse a page, check its links | shared pacing under concurrent answers; a link that a later start rejects | bounded concurrency, delay and attempts; a stored cursor can be used |
| Payload parser (`opentk-sync/src/payload.rs`) | none | `parse_entry_payload` by the official schema | what is accepted must be storable, for 35 types | an accepted page can be written |
| Official schema (`opentk-core/src/official_schema`) | constants | lookups by name | it decides tables, columns and what is parsed | the uses agree |
| Schema lifecycle (`schema_lifecycle.rs`, `postgres_schema.rs`) | the catalog | render DDL, apply, validate | applied by several processes at once, beside pages that lock the same tables, on catalogs of other versions | whoever works does so on the expected schema |
| Read model (`opentk-db/src/read_model.rs`) and its API handlers (`opentk-api/src/lib.rs`) | none | lists, details, relations, `list_changes` | continuation by a token that is not unique; one fact read by two queries | a reader sees every change; readers agree |
| Document assets (`opentk-db/src/document_assets.rs`, `opentk-sync/src/document_asset.rs`, `document_content.rs`) | `document_asset`, `document_content` | fetch, classify, extract, record | pages remove documents meanwhile; a batch is one transaction | nothing recorded for a document that is gone, no duplicates |
| Configuration, startup validation, verification, evaluation, schema generator, UI | none | pure functions, single reads | none | unit tests reach them |

## 2. Modules

| Module | Role |
|---|---|
| `CategoryCursor` | what ingesting promises: rows and cursor of a category are one object that moves forward along the feed |
| `SyncRunner` | the runner with its workers, main task, shutdown token, store and failures; implements `CategoryCursor` |
| `SyncRunnerProofs` | its theorems |
| `PageStore` | what storing pages promises: a page is applied in one step, as if alone |
| `SyncWriter` | concurrent `write_sync_page` transactions, statement by statement; implements `PageStore`, and `CategoryStore` for each category |
| `CategoryStore` | what the readers of one category see of the writer: its rows change by whole pages, its own and those of other categories, and so does what is read with them of the entities they refer to |
| `CategoryRegistry` | the tokens among that, which is all that the change feed reads |
| `SyncWriterProofs` | theorems of `SyncWriter`, that it implements `CategoryStore` among them |
| `SyncFeedClient` | `fetch_page` for the workers that share permits and pacing |
| `SyncFeedClientProofs` | its theorems |
| `SearchReconciler` | one category's reconciliation against a changing `CategoryStore` |
| `SearchReconcilerProofs` | its theorems, and that `CategoryStore` implements `CategoryRegistry` |
| `FeedPage` | what is accepted of an answer's body, and which URLs are followed |
| `OfficialSchema` | the 35 official entity types with their fields |
| `EntitySchema` | the tables and indexes as a function of the entity types |
| `EntityPayload` | which payloads are accepted for a category, and the entity parsed from one |
| `EntityRows` | the rows a page makes of its entities |
| `EntityReads` | lists, details and relations as functions of the rows |
| `Ingest` | one worker's data, from an answer to what the read model gives; composes the five before |
| `SchemaCatalog` | what applying the schema promises: all that is missing is created in one step |
| `SchemaBootstrap` | applying and validating the schema by several processes, beside pages; implements `SchemaCatalog` |
| `SchemaBootstrapProofs` | its theorems |
| `ChangeFeed` | a client that follows `GET /changes` of a `CategoryRegistry` while pages are written |
| `ReadModelProofs` | theorems of `ChangeFeed` and `Ingest` |
| `DocumentFetch` | what the answers for an asset become: a report, extracted content |
| `DocumentStore` | what recording assets and content promises: a batch whole or not at all, as if alone |
| `DocumentAssets` | the two recording transactions statement by statement, against page rewrites; implements `DocumentStore` |
| `DocumentAssetsProofs` | its theorems |
| `Induction` | lemmas about induction and recursive functions, for the proofs |
| `MC...` | small instances for TLC; `MCDatabase` is that of the modules from `FeedPage` on |

`SyncRunner` and `SyncWriter` meet at `write_page`. The runner takes the page
transaction as three steps (begin, an entity at a time, COMMIT sent), which is
enough for what one category sees; the writer takes the inside of that
transaction, with the other categories' pages between its statements, and
shows that the outside view (all of the page, at its COMMIT) is right.
The readers of a category see the writer's commits as single steps for that
reason: `SearchReconciler` and `ChangeFeed` extend `CategoryStore` and
`CategoryRegistry`, whose steps are the writers beside a pass and beside a
client, and that these are the steps that `SyncWriter` makes is proved.
`SyncRunner` has one step for what `SyncFeedClient` answers to `fetch_page`
(a page or an error), and drops a call when a shutdown or an abort interrupts
the worker; `CallsEnd` is what lets the runner assume that an answer comes.

### SyncRunner

State: upstream (`feed`, `published`), PostgreSQL (`cursor`, `rows`, `state`,
`openError`, `orphan`), the process (`proc`, `launch`, `flag`, `mainWoken`) and
its workers (`pc`, `local`, `page`, `attempts`, `tx`, `woken`, `reason`).
Every await point of `run_category` is a value of `pc`, so a sibling's failure,
a shutdown or a crash may happen at each. A cursor is a position in the feed;
an entry is the id of the entity it is about, and a row the position of the
entry that wrote it (last write wins). `orphan` is a COMMIT whose sender no
longer waits: it takes effect later, or never. `openError` is the phase of the
last `ingest_error` that `status` would show, that is, one newer than
`last_fetch_at`. Each `select!` over the shutdown token is two steps, testing
the flag and arming the waiter, because `notify_waiters` reaches only those
already armed.

### SyncWriter

State: the committed registry, entity and relation rows by key (`db`) and the
categories' tokens (`cursor`); per transaction the page and its token, its
advisory locks (`held`), the statement it is at (`pc`, `at`, `to`), the rows it
has written and thereby locked (`dirty`) and their values (`view`). A statement
reads its own rows from `view` and the others from `db` as committed at that
moment (READ COMMITTED), and waits while another transaction holds the row. A
row's columns are the token that wrote it; relations are sets of targets.
`Category[k]` is the category of a key; an entity is written by pages of its own
(`collect_sync_entity_keys` refuses others), while a relation may lead to any. The
official schema has none that stays in its category, but the writer does not ask,
and its test has some (`crates/opentk-db/tests/sync_writer.rs:435`). For the
readers of a category (`Store(w)`) a key's state is its token, whether it is
deleted, and whether it has a row (`Seen`).

### SyncFeedClient

State: who holds a permit (`permits`), the shared delay (`pacing`), and for
each caller the await it is at (`pc`) and the locals of
`fetch_page_with_retries` (`attempt`, `rest` for `delay`). The delay is read
when an attempt begins and recorded when its answer comes, with other callers'
answers between the two. Statuses are kept apart as far as the code does: a
success, a 429, the other retryable ones, and the rest. `Drop` is a call whose
future is dropped, at any await. `sent`, `result` and `limited` are histories.

### SearchReconciler

State: the store by key (token, deleted, and 0, 1 or 2: no row, or which of two
versions is read of its document text and of the titles of what it refers to,
both of which an index document contains), the index by key, `late` (an upload or
delete that Meilisearch accepted before the pass gave up on it), the scratch
rows, and the locals of `reconcile_category`, which are 0 or empty outside
their scope. Each query of PostgreSQL and of Meilisearch is a step. The store's
writers are the two of `CategoryStore`, a page of the category and one of
another category (whose relations move tokens up without the category's feed),
and the text of a document. A title is read from the row of the entity that has
it (`bulk_rel_labels`), so that a page of either kind also rewords (`Reworded`)
rows that it does not bring. Texts and titles move no token of the rows that show
them. An upload is one operation per request, the
smallest payload limit; larger chunks are fewer of the same steps.

### Ingest and the modules below it

`FeedPage`, `EntityPayload`, `EntityRows` and `EntityReads` are the functions a
page goes through, in that order; `EntitySchema` gives the tables that the
second half of them is about, by the entity types of `OfficialSchema`. `Ingest`
puts them together as `run_category` does: its state is the answer in hand
(`phase`, `feed`, `document`, `entities`), the stored resume URLs (`cursors`),
the registry and all rows (`db`), and as history the last payload stored of each
identity. Fetching, rejecting, catching up, parsing and writing are a step each;
the control around them is `SyncRunner`'s, the statements inside a page are
`SyncWriter`'s, and both are left out here, as column values are left out there.
A URL is a record of origin, path and query pairs, a payload a record of its
root, attributes and children; values are members of a small set that the
constant `Reads` divides by what they parse as. `Storable` says whether every
statement of `write_sync_page` finds a value that fits its column and keys.

### SchemaBootstrap

State: the committed catalog; per process where it is (`stage`: down, apply,
collides, validate, working, page), the statement of the script or the table of
its page (`line`, `writing`), its table locks and what it has created (`made`),
and how often it has started. `Script` is the order of `render_ensure_schema`:
all tables, each with the locks that its foreign keys take, then all indexes.
Locks are PostgreSQL's: SHARE for an index, be it there or not, SHARE ROW
EXCLUSIVE for a referenced table, ROW EXCLUSIVE for a page's statement. A statement that
would create what another open transaction has created waits for it and then
fails or goes on. Statements without effect are skipped (`Reaches`): the catalog
only grows. What a process has created is in `catalog` from its COMMIT on.
A sync process bootstraps when it starts, the reconciler before each
pass; both validate afterwards and work only if that succeeds.

### ChangeFeed

State: the token of each registry row, the page that wrote each entity last, the
category's last token; of the client its position and what it was given; as
history the positions at which an answer was cut off by the limit (`cuts`) and
the entities that got a token the client had passed already (`behind`).
A page of the category gives its token to all its entities, be it lower than
theirs, and to those of lower tokens that its relations lead to; a page of
another category does the latter only (`Given`). `Poll` is a request and the client's use of `next_skiptoken`.

### DocumentAssets

State: the committed document rows, assets and contents with their identity
values; the open page and how far it is; for each caller the step it is at
(`pc`), its reports, the report the next statement is about (`at`) and what its
transaction has written (`newAsset`, `newContent`). A caller fetches a batch,
records it, looks the assets' ids up, extracts and records the extractions,
and may record either batch again, as one does when an answer is lost. In the
repository only tests call these functions, so that the sequence is the one the
tests and the interface give. Between any two statements a page may delete a
document, or delete and insert it, which cascades to its assets and contents.
Bodies are model values with the text that can be read from them.

## 3. Runs

| Run | Bounds | Shows |
|---|---|---|
| `sync_runner` | 1 category, 3 entries about 2 entities, pages of 2, 2 attempts, every way to start | types; rows match the cursor; a transaction holds exactly its page; workers and orphaned COMMITs stay in step; recorded failures stay visible; a stop keeps a fetched page |
| `sync_runner_two` | 2 categories, 1 entry each | implements `CategoryCursor`, also when one category's failure aborts the other anywhere |
| `sync_runner_live` | 1 category, 2 entries, `poll` | a shutdown request ends the process; a quiet feed is caught up |
| `sync_errors_recorded` | as above | violated: some failures leave no durable error |
| `sync_active_page` | as above | violated: shutdown drops the fetch of the active page |
| `sync_writer` | 3 writers, 4 keys, three in a ring of relations with repeats, self-references and deletions, two of one category, 2 tokens | types; locks ordered; no wait cycle; foreign keys, committed and inside a transaction; implements `PageStore`, and `CategoryStore` for each category; every page ends |
| `syncfeed_client` | 3 callers, 2 permits, 1 retry, delays 2 to 3 | types; permits held by attempts and nothing else; paced from a 429 to the next success; exactly the allowed attempts; every call ends |
| `search_reconciler` | 2 entities, 3 tokens, windows of 1 row, 3 commits or failures | types; everything above the verified prefix exact when a pass completes; passes end |
| `search_windows` | 2 entities, 3 tokens, windows of 2 rows, 6 commits or failures, while the history is orderly | the whole index exact after orderly histories |
| `search_refresh` | 2 entities, 2 tokens, 3 commits or failures | violated: a completed pass may leave stale documents |
| `database` | four machines, see below | types; contents belong to the asset their document has; nothing recorded twice; index and API serve one content (`ServedAlike`); lists and details of the rows agree (`ReadsAgree`); a client of the change feed loses ties at a cut and late tokens, and nothing else; nobody works on an unexpected schema; bootstraps wait in circles only with a page among them; an accepted page can be stored and its cursor used; rows are those of the last payload; implements `DocumentStore` and `SchemaCatalog` |
| `change_feed` | 3 entities, limit 2, 3 tokens | violated: a client that resumes loses rows |

Why the bounds are enough to meet the hard cases: two pages of two and one
entries give a full page, a short one and the empty one, and an entity that is
overwritten within and across pages; any number of crashes is allowed. Two
entities and three tokens give ties, a window of two tokens, a token lowered by
the entity's own page, a same-count replacement and a binary search of three
probes; three callers and two permits have one that waits for a permit while
the answers of two others cross; a delay of 2 goes to 3, the cap, and by halves
to 1 and 0; three disturbances allow a page, a relation, text or title beside
the pass, and a failed pass with its late task, and six allow three pages between
failures. `search_windows` does not go on from a history that is no longer
orderly (`WhileOrderly`): none of its successors is, and `ExactIfOrderly` asks
nothing of them.

`database` runs one of four machines, chosen at the beginning by `machine`. They
have one schema in common and no state, so that the states add up rather than
multiply.

* `start`: two processes, a sync and a reconciler, start twice each, on one of
  six catalogs: none, the expected one, one without the newest table, one
  without the indexes of `document`, one with a column and one with a constraint
  too many. The schema is that of four of the official types, with a few fields
  each; they have a relation that occurs once and one that repeats, a repeated
  value, a nillable field, a download type, and relations to a category that is
  there and to one that is not.
* `ingest`: up to three answers of four categories, among them payloads that are
  overwritten, deleted and come twice on a page, nil elements, repeated
  elements, two relations where one may be, an unknown category of a relation, a
  link to another origin, one with two skiptokens, a page without links. Three
  answers are a payload, another one of the same entity or of its target, and
  a restart from the cursor between them.
* `changes`: three entities, two of which an answer can hold, and two tokens: a
  cut between ties and between different tokens, and a page behind a client
  that a relation has taken ahead. (`change_feed` has three tokens.)
* `assets`: two callers, one with a batch of two documents and one with the
  second of them; a retried answer, an official alternative, a body that cannot
  be read and one without text; a page that rewrites both documents and one that
  deletes one; three identity values, enough for an asset that is replaced while
  an extraction of the old one is on its way.

The bounds themselves are the constants `MaxFeed`, `MaxToken`, `MaxEvents`,
`MaxPages`, `MaxStarts` and `MaxId`; nothing else is capped. `database` does not
check deadlock: its machines stop at these bounds.

### What the code does that its documents do not say

* `sync_errors_recorded`: `next_cursor`, a missing resume link and an unusable
  stored cursor fail the category without a row in `ingest_error`, although
  `run_once` says errors are recorded "whenever the storage boundary is
  available". Shortest history: the first answer is empty and has no resume link.
* `sync_active_page`: `docs/operations.md` says a shutdown does not abort an
  active page. A page being fetched is abandoned (nothing is lost, the cursor
  has not moved); one already fetched is written.
* `search_refresh`: `docs/search-indexing-pipeline.md` says that when counts
  agree the category is refreshed anyway, so that stale documents converge. The
  code writes nothing then. Shortest history: a document is indexed, its text
  or a title in it changes, no later pass sees it. (In TLC's, the upload of the
  old version was accepted from a pass that then failed.) The conditions of
  `ExactIfOrderly` list the
  ways to such an index: text stored without a token; the title of an entity that
  the row refers to, changed by a page that does not bring the row (of another
  category or of its own, and also when the entity arrives after what refers to
  it, until when the index shows its id); a token raised by a
  relation and then lowered by the entity's own page; and a pass that stops
  between two chunks of a window in which several rows have one token (all rows
  of a page do), where counts cannot tell a stale document from a new one.
  Without the last condition TLC finds a completed pass over an index with a
  stale document though no failure but that one happened.
* `change_feed`: `docs/architecture.md` says that change endpoints expose the
  skiptoken "so clients can resume". All rows of a page carry the page's token,
  an answer ends at its limit, and the next one begins above the last item's
  token: the rest of the page is in no later answer. `MissedOnlyTiesAndLate`
  says what else can be lost: a row written with a token that the client had
  passed, because a relation of another category's page, with a token ahead of
  this category's, had raised a row that the client was given.

### What else a reader should know

None of this contradicts a property above; it is what the code turned out to do.

* Parsing: a `contentLength` beyond 32 bits is accepted by the parser and
  rejected by the column where the table has one, at every attempt (the exception that
  `AcceptedPageIsUsable` names). `xs:unsignedInt` is parsed as `i32`; the
  official date types other than `xs:date` and `xs:dateTime` are kept as text;
  an empty element of an integer type rejects its whole page; text is kept as it is in
  the XML, entities not resolved. Of several `skiptoken` pairs in a URL
  `validate_cursor_url` takes the last, `skiptoken_from_url` the first.
* Twelve relation names infer a category that does not exist
  (`voortouwcommissie`, `bronDocument`, `gerelateerdVanuit`,
  `huidigeDocumentVersie`, `isAanvullingOp`, `isHerhalingVan`, `isWijzigingVan`,
  `toegezegdAan`, `toegezegdAanFractie`, `toegezegdAanPersoon`,
  `vervangenVanuit`, `voortgezetVanuit`): their targets are registered under
  that name and never get a row. The change feed lists registry rows of relation
  targets, with or without an entity.
* Schema: validation asks for the expected unique and check constraints and lets
  others be, compares checks by name and indexes by name and columns.
  `docs/design-decisions.md` says that `opentk-sync` creates the schema at startup
  and `opentk-api` only validates it. The reconciler creates it too, before each
  pass, with a lock on every table for its indexes; the API validates it with
  `--validate-config` only, not before it serves. A bootstrap and a page can
  deadlock (`CyclesNeedAPage`); PostgreSQL ends one of the two, and its process
  begins again.
* Documents: whenever a page brings a document again, its assets and contents
  are deleted with the old row. An extraction that yields no text
  (`ExtractionStatus::Empty`) violates the CHECK on `document_content` and takes
  its whole batch with it. The length and type of an official alternative are
  not compared with anything, and `max_asset_bytes` limits nothing. The two
  foreign keys of `document_content` do not say that its asset belongs to its
  document; that it does (`ContentMatchesAsset`) rests on identity values not
  being used twice.
* Reading: a list says `has_more` and gives no cursor to go on from; a list
  with relations omits them for an entity without any, a detail gives an empty
  list; a detail and its relations are two reads.
* Reconciling: one row that the mapper rejects (a document without a number)
  fails every pass.

## 4. Fairness

* Runner: weak fairness of every worker, of the main task, and of the end of an
  orphaned transaction: awaits return because requests have timeouts and
  database calls are assumed to return. Weak fairness of `Start`: the container
  is restarted (`restart: unless-stopped`). None for upstream, failures,
  crashes and shutdowns. `EventuallyCaughtUp` is about the time after services
  answer (`~faulty`).
* Writer: strong fairness of each transaction's next statement: PostgreSQL
  queues lock requests in order, so a waiter is served though the lock is taken
  again and again. Deadlock is not checked by TLC in `sync_writer`, since the
  tokens run out; `NoWaitCycle` and `PagesFinish` say what deadlock freedom
  means.
* `database`: none, it checks safety only.
* Client: weak fairness of a caller's steps (timers fire, requests time out) and
  strong fairness of `Acquire`: tokio's semaphore serves its waiters in the
  order of their coming, so a caller is not passed over for ever. None for
  `Call` and `Drop`.
* Reconciler: weak fairness of the pass's next call, of the next pass
  (`run_loop`, which also goes on after an error) and of Meilisearch's task
  queue. `PassEnds` is about a store at rest, here because the events run out;
  while the store keeps changing, the retry loop of a category has no bound.

## 5. Proofs

All theorems are checked by TLAPS for every value of the constants that meets
the named assumptions.

`SyncRunnerProofs` (assumptions: positive page size and retry limit, a natural
bound on the feed): `TypeCorrect`, `Invariant`, `CursorCorrect`, `PagesWhole`,
`ActorsInStep`, `FailuresVisible`, `ShutdownKeepsPages`, `Refinement`. The inductive invariant `IInv`
is types plus four parts. That rows match the cursor is not inductive alone: a
COMMIT must hold exactly the entries between the cursor and its end
(`TransactionHoldsPage`), begin no further than the durable cursor
(`WorkerInStep`), and this must stay true while a COMMIT nobody waits for moves
that cursor (`OrphanInStep`: there is one at most per category, and a successor
that fetched meanwhile has fetched at least as much). `ImageExtends` and
`MergeReflects` say how images of adjoining and overlapping stretches of the
feed combine. For `Refinement` every step but a commit leaves rows and cursor
alone, and a commit is `Advance` or, when it repeats an orphan's page, a
stutter. `FailuresVisible` adds to types that the COMMIT of a worker whose
failure is recorded is not newer than the record (`Reported`).
`ShutdownKeepsPages` is an action property that needs types only.

`SyncWriterProofs` (assumptions: finitely many writers, keys and tokens
natural numbers, pages non-empty sequences of entities): `TypeCorrect`,
`LockDiscipline`, `NoDeadlock`, `StoreCorrect`, `ViewsCorrect`,
`PagesAreAtomic`, `ReadersSeePages`. `LocksOrdered`
is inductive over types: held locks are exclusive, lie below every key still to
be locked, and cover all rows written. Hence a writer waits only while locking
(`WaitsInLockOnly`), and for one whose own wanted key is higher
(`WaitsAscend`); a finite set has a writer with the highest, which waits for
none of the others. Foreign keys need what every open transaction sees
(`ViewsConsistent`) and that its reads of other keys stay true: a registry row
is never removed once committed, and nobody else writes a locked key.
`PagesAreAtomic` is the refinement of `PageStore`. Its invariant `AllInStep` says
that what a transaction reads of its own keys is its page applied to the store
as committed now, up to the statement it is at (`HalfStored` within an entity's
statements). Another page's commit keeps this true: it leaves the keys that this
one has locked, and the others are read from the store on both sides. At COMMIT
the statement is the last one, so that the step is that of the abstract store. The
page as a whole is `Stages`, a recursive function whose values come from
`Induction`.

`ReadersSeePages` looks at the same COMMIT from one category, for every category
(assumption: a page's entities are of its category, `CategoryAssumption`). It
needs to know of a whole page what it does to a key, without the order of its
statements, and that is again an induction over its turns (`SeenStages`): a key
that the turns so far have written is as the last of them brought it, whatever
relations reached it before and after (the page's token cannot be raised by the
page: `RaisedTwice`), one that only relations reached has the greater of its
token and the page's, and all others are as they were. That a key without a
registry row has no entity row (`Fits`) makes a target's new row and a raised one
look alike. So a commit of the category itself is `WritePage`, one of another
category `WriteElsewhere`, and everything else a stutter. (`SyncWriter` has no
titles: its pages are those of `CategoryStore` that reword nothing.)

`SyncFeedClientProofs` (assumptions: finitely many callers, a permit or more,
natural retries and delays): `TypeCorrect`, `PermitsCorrect`, `PacingCorrect`,
`RetriesCorrect`. `RetriesExact` is not inductive: `Counted` adds that a call
has sent as many requests as it has begun attempts, that an attempt followed by
a rest is not the last, and that only a call that is over has given up. It also
bounds `attempt`, which its type needs when a rest ends.

`SearchReconcilerProofs` (assumptions: finitely many keys, natural bounds, a
positive batch size): `TokensAreTheRegistry`, `TypeCorrect`, `SuffixCorrect`,
`ExactCorrect`. `TokensAreTheRegistry` says of `CategoryStore` alone that its tokens
change as `CategoryRegistry` has it (with `PageWrites` and `RelationWrites`, which
the other theorems use, too). With `ReadersSeePages` this leads from the writer's
statements to the two readers: whatever a theorem here or in `ReadModelProofs` says
of a pass or of a client beside arbitrary steps of `CategoryStore` or
`CategoryRegistry`, it says of them beside concurrent `write_sync_page`s. Types need the search's
bounds (`SearchBounds`: at a middle of 0 both counts are 0, so `mid - 1` is never
taken of 0) and that a next boundary exists and lies above the last
(`NextBoundaryTyped`). `SuffixInv` follows a pass from call to call as long as the
store is at rest (`Progress`): above the prefix only documents with a row are
left when the windows begin, everything up to the current boundary is exact, and
in the window being uploaded every key is exact or has its operation among those
left (`Pending`). Rows that no page has brought need a fact about the past: they
have no document and no operation that would make one (`NeverIndexed`).

`ExactCorrect` is about the whole index. That equal counts verify a
prefix needs an invariant of all passes, whole or cut short. `Frontier`: a live row
without its right document has a higher token than every document of the index and
every operation that may still run late; only while a window with ties is uploaded
may a document of the same token be there, the missing one's operation then being
among those left. So up to the highest indexed token nothing is missing (`Above`),
the documents counted include those of the rows counted, and equal numbers leave no
others (`CountExact`). `Frontier` holds because operations go out in the order of
their tokens (`OrderlyApply`), because a pass that stops inside a window without ties
leaves at most its next operation behind (`OrderlyFail`), because what runs late
cannot take a right document away (`SafeApplied`, which needs `Versions`: an
operation with a row's own token says what the row says), and because an
orderly commit brings a token above all others to every row it changes, be it
only in a title, and no other token (`OrderlyPage`). `Verified` carries the verified
prefix to the end of the pass; `SuffixInv` has the rest.

`ReadModelProofs`, change feed (assumptions: finitely many entities, numbered in the order
of their ids, a positive limit, a natural bound on tokens): `FeedTypes`,
which no run repeats, and
`LossesExplained`. `MissedOnlyTiesAndLate` is inductive with types. The step that
matters is `Poll`: a row at or below the new position that the answer left out
has the position's token, since the order of an answer is total and what is left
out comes after all of it (`LeftOutIsLater`), and then there is more
(`LeftOutIsMore`, by the row with the fewest before it), so that the position is
a cut.

`ReadModelProofs`, ingest: `IngestTypes`, `AcceptedPagesAreUsable`,
`StoredIsLatest`. The assumptions: slices and lists are sequences
(`TypesAssumption`), tables have different names (`NamesAssumption`), no two types
share one of category, element and Rust name (`EntitiesAssumption`), the SQL names
of a type's fields differ from each other and from the columns that every table
has, and no attribute is a uuid (`FieldsAssumption`); all 35 official types with
their 305 fields satisfy these. Of the answers, entries and children are sequences
and an element that is not nil has a text (`FeedsAssumption`); that there is no
value is not a value (`NoValueAssumption`); a token that parses is an integer
(`NumberAssumption`). `AcceptedPageIsUsable` rests on
what the parser makes of any payload: what it accepts has only
scalars and relations of the type's fields, apart by name and ordinal, and each one
that is required (`WellParsed`, by `ParsedWell`), and what is `WellParsed` finds
columns, tables and distinct keys for everything (`ParsedStorable`). `IngestInv`
says it of the page in hand, and of each stored resume link that a start accepts
it.
`StoredIsLatest` needs an induction over the page: one turn of the loop in
`write_sync_page` replaces the rows of its identity and leaves all others
(`WrittenRows`, `StoredStep`), so that after each turn the rows are those of the
last payload so far, an identity twice on a page included (`PageStored`).
`ReadersOfRowsAgree` says of the same rows that lists and details of them agree. It
assumes what PostgreSQL sorts by (`RankAssumption`: every text of the feed has a
rank, and no two uuids the same; two texts of one time may tie) and that no
relation's name infers the category it is in (`TargetsAssumption`, true of the
official types). `WellKept` is the invariant: finitely many rows, one of each
identity, each made of a well-parsed entity, and relations that lead out of their
category. Each column orders the rows but for ties and NULLs, and the last one,
`source_id`, has no ties (`TiesBrokenOrder`), so whatever column a sort begins with
(`PrimaryIs`) its order is total, and the first n rows are n rows (`FirstSize`).

`SchemaBootstrapProofs` (assumptions: `TypesAssumption` and `NamesAssumption` as
above, catalogs found have one table per name, a natural bound on starts, a process
or more): `BootTyped`, `ExpectedSchema`, `NoCycleOfBootstraps`, `SchemaAppliedAtOnce`. `BootInv` says what a process that is at a
line of the script knows: what it has created comes from lines before, is not in
the catalog yet and no other process has created it (`Made`); what the lines
before create is there, committed or by itself (`Passed`); its locks tell how far
it is (`Holds`); it collides at a statement that creates (`Collided`); and while
somebody works the catalog is valid (`Valid`), since a COMMIT adds what a valid
catalog has already, which is nothing. For
`NoCycleOfBootstraps` a process that waits for another is at a line that the
other one has passed (`WaitsForFurther`): in a circle every process would be
further than itself. A page breaks the argument, since it locks tables in the
order of its entities, and TLC finds that circle.

`SchemaAppliedAtOnce` is the refinement of `SchemaCatalog`. No statement but COMMIT
changes what others read. At COMMIT a process has passed the whole script, so that
each table and index is in the catalog or among what it has made (`Passed`), and
the latter is not in the catalog (`Made`): what it adds is what is missing, all of
it (`CommitCreatesMissing`). That the script has a statement for every table and
index is a fact about `FlattenSeq` (`ScriptCreatesAll`).

`DocumentAssetsProofs` (assumptions: batches and pages are sequences over the
documents, a natural bound on identity values, times are numbers): `TypeCorrect`,
`ContentsBelong`, `NothingTwice`, `SameContentServed`, `BatchesAreAtomic`. The foreign key of an extraction finds some asset with the id
that the caller looked up earlier; that it is the asset of the extraction's
document needs the history of ids. `Owned` says it without one: an id that a
row, an open transaction or a caller's memory connects with a document
(`Claims`) connects with no other, and is not above the last one handed out, so
that a new id is claimed by nobody. `LockedStay`, `AssetsHeld` and
`ContentsHeld` say that an open transaction's documents cannot be rewritten, that
it has the asset rows it writes to itself and keeps their ids, and that its
contents are right as it sees the assets; a COMMIT makes that everybody's view.
`Unique` extends `RecordedOnce` to what open transactions have written. That a
failure is stored with an output (`ExtractOutput`), without which NULLs would
not conflict, is where `storage_output_hash` comes in. `SameContentServed` needs that
contents are finitely many, typed, and apart by id, in what is committed and in
what each transaction has written (`ReadInv`): then both ORDER BYs are one total
order, and a set of contents that is not empty has a first (`LeastInOrder`).

`BatchesAreAtomic` is the refinement of `DocumentStore`. `StoreInv` adds to the
above that ids of rows differ (`RowIds`) and that an open transaction has written
exactly what the reports before its statement make of a store without anything
(`Written`). This says what they make of any store, since an upsert writes the
same columns whether it inserts or updates; with `LockedStay` a COMMIT is then one
step of the abstract store, and a page's deletion takes a document's asset and
contents away at once.

`Induction`: the library's induction theorems take an operator as parameter, which
the installed provers cannot instantiate. `NatSetInduction` is induction for a
set of numbers, from the well-foundedness of inclusion among finite sets (whose
theorem has a relation as parameter); with it a loop has its values
(`LoopValues`), and `FlattenSeq` is determined by its stages (`FlattenStages`) and has the elements of
its parts (`FlattenSeqHas`).
So a loop over a page, a batch or the fields of a type is written as a recursive
function in the models, and reasoned about by its turns. The module ends with finite
sets in an order: there is a first (`LeastInOrder`), the first n are n or all there
are (`FirstSize`), and an order that breaks the ties of a ranking makes an order of
it (`TiesBrokenOrder`).

Only model-checked: all liveness (`PagesFinish`, `CallsEnd`, `PassEnds`,
`ShutdownTerminates`, `EventuallyCaughtUp`), which is beyond TLAPS. Every invariant
and action property and every refinement that a run checks is also proved.

## 6. Assumptions

The upstream page size is fixed and tokens of a category grow; time is monotone
where errors and progress are compared; `mark_caught_up` does not take effect
after the process that sent it is gone; one sync process and one reconciliation
pass at a time; the advisory-lock hash of two keys differs (a collision makes two
pages wait for each other's keys, in the order of the locks); hashes of two
contents differ; PostgreSQL's locks, constraints and READ COMMITTED are as
documented; database calls return. The hazards in PROJECT.json without a
property name those that the code itself does not ensure. One of them is a step
of the model: an error may fail to be recorded (`RecordFails`). Rows and cursor are
as before it, but of an error that nobody stored no reader can know, and
`RecordedFailureVisible` speaks of recorded ones.

## 7. Not modelled

* Configuration, startup validation, verification reports, search evaluation,
  the schema generator, the user interface: they keep no state and run alone, so
  that a model would repeat their unit tests.
* Of the API: search requests, health, OpenAPI and shutdown. A search request
  is passed on to Meilisearch by a client that is fixed at startup.
* Of search: index settings, the fields of index documents one by one (what is
  read of other rows than the entity's own, text and titles, is a version),
  `json_array_chunks`
  (an upload is one operation per request, the finest division there is), the
  loop over categories, two passes at once.
* XML's own syntax: a payload is what its elements say. Getting text out of PDF,
  DOCX and HTML is a choice by body.
* `DROP TRIGGER` for the trigger of an earlier version, which does nothing where
  it is gone, and the columns of `document_asset` and `document_content` that
  nothing here depends on, as rows (as columns they are in `EntitySchema`).

What could come next: two reconciliation passes on one scratch table.

## 8. Running it

    tlc -workers 2 -config sync_runner.cfg MCSyncRunner.tla
    tlc -workers 2 -config database.cfg MCDatabase.tla
    tlapm SyncRunnerProofs.tla      (and the other modules named ...Proofs, and Induction)
