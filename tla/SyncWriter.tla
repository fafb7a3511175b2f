------------------------------ MODULE SyncWriter ------------------------------
(***************************************************************************)
(* opentk-db::sync_writer, write_sync_page: the transactions of concurrent *)
(* category workers on the shared sync_entity registry, statement by       *)
(* statement.  A transaction takes an advisory lock per key it will touch  *)
(* and a row lock on every sync_entity row it upserts; both are held to    *)
(* its end.  PostgreSQL (READ COMMITTED) is external.                      *)
(*                                                                         *)
(* A key stands for a SyncEntityKey; keys are ordered as the BTreeSet      *)
(* orders them and hash to different advisory locks.                       *)
(***************************************************************************)
EXTENDS Naturals, Sequences, FiniteSets

CONSTANTS
  Writers,     \* the category workers
  Keys,        \* (source_category, source_id) pairs, numbered in their order
  Category,    \* Category[k]: the worker of k's source_category
  Pages,       \* Pages[w]: the pages w may be given, sequences of entities
  MaxToken     \* bound: the last skiptoken

Entity == [key : Keys, deleted : BOOLEAN, targets : Seq(Keys)]

ASSUME WritersAssumption == IsFiniteSet(Writers)
ASSUME KeysAssumption == Keys \subseteq Nat
ASSUME PagesAssumption ==
  \A w \in Writers : \A page \in Pages[w] : page # <<>> /\ page \in Seq(Entity)
(* collect_sync_entity_keys refuses a page with another category's entity. *)
ASSUME CategoryAssumption ==
  \A w \in Writers : \A page \in Pages[w] :
    \A i \in DOMAIN page : Category[page[i].key] = w
ASSUME MaxTokenAssumption == MaxToken \in Nat

VARIABLES
  db,          \* committed: sync_entity, entity and relation rows by key
  cursor,      \* committed: sync_category.latest_skiptoken
  pc,          \* pc[w]: where w is in write_sync_page
  page, token, \* SyncPageWrite: entities, latest_skiptoken
  held,        \* advisory locks
  at, to,      \* the entity and the relation the next statement is about
  dirty, view  \* rows written (and row-locked) by the transaction, their values

txVars == <<page, token, held, at, to, dirty, view>>
vars == <<db, cursor, pc, page, token, held, at, to, dirty, view>>

Abstract == INSTANCE PageStore WITH
  Writers <- Writers, Keys <- Keys, Pages <- Pages, MaxToken <- MaxToken,
  db <- db, cursor <- cursor

Absent == Abstract!Absent
NoView == [k \in Keys |-> Absent]

(* What a statement of w reads: its own writes, else the committed row.    *)
Read(w, k) == IF k \in dirty[w] THEN view[w][k] ELSE db[k]

Write(w, k, r) ==
  /\ dirty' = [dirty EXCEPT ![w] = @ \cup {k}]
  /\ view' = [view EXCEPT ![w][k] = r]

(* A row another transaction has written is locked until that one ends.    *)
RowFree(w, k) == \A v \in Writers \ {w} : k \notin dirty[v]

Current(w) == page[w][at[w]]

Targets(e) == {e.targets[i] : i \in DOMAIN e.targets}

(* Mutant: the keys of the page's own entities only.                       *)
KeysOfEntities(p) == {p[i].key : i \in DOMAIN p}

(* collect_sync_entity_keys: the page's entities and their targets.        *)
KeysOf(p) ==
  {p[i].key : i \in DOMAIN p} \cup UNION {Targets(p[i]) : i \in DOMAIN p}

Init ==
  /\ db = [k \in Keys |-> Absent]
  /\ cursor = [w \in Writers |-> 0]
  /\ pc = [w \in Writers |-> "idle"]
  /\ page = [w \in Writers |-> <<>>]
  /\ token = [w \in Writers |-> 0]
  /\ held = [w \in Writers |-> {}]
  /\ at = [w \in Writers |-> 1]
  /\ to = [w \in Writers |-> 1]
  /\ dirty = [w \in Writers |-> {}]
  /\ view = [w \in Writers |-> NoView]

(* The worker has fetched and parsed its next page; pages of a category    *)
(* come with growing skiptokens.                                           *)
Begin(w) ==
  /\ pc[w] = "idle"
  /\ \E p \in Pages[w] : page' = [page EXCEPT ![w] = p]
  /\ \E t \in cursor[w] + 1 .. MaxToken : token' = [token EXCEPT ![w] = t]
  /\ pc' = [pc EXCEPT ![w] = "lock"]
  /\ UNCHANGED <<db, cursor, held, at, to, dirty, view>>

(* Mutant: the locks in the order in which the page names the keys.        *)
NextLockUnordered(w, k) == k \in KeysOf(page[w]) \ held[w]

(* The next key acquire_sync_entity_locks asks for: the least one left.    *)
NextLock(w, k) ==
  /\ k \in KeysOf(page[w]) \ held[w]
  /\ \A j \in KeysOf(page[w]) \ held[w] : k <= j

AcquireLock(w) ==
  /\ pc[w] = "lock"
  /\ \E k \in Keys :
       /\ NextLock(w, k)
       /\ \A v \in Writers : k \notin held[v]
       /\ held' = [held EXCEPT ![w] = @ \cup {k}]
  /\ UNCHANGED <<db, cursor, pc, page, token, at, to, dirty, view>>

(* All locks are held: the loop over page.entities starts.                 *)
Locked(w) ==
  /\ pc[w] = "lock"
  /\ KeysOf(page[w]) \subseteq held[w]
  /\ pc' = [pc EXCEPT ![w] = "entity"]
  /\ UNCHANGED <<db, cursor, txVars>>

(* The rows of an entity after upsert_sync_entity and delete_current_rows, *)
(* whose delete cascades to the entity's relation rows.                    *)
Marked(t, deleted) == [sk |-> t, deleted |-> deleted, row |-> 0, links |-> {}]

(* ... and after insert_entity_row and insert_relation_rows.               *)
Filled(r, t, targets) == [sk |-> r.sk, deleted |-> r.deleted, row |-> t, links |-> targets]

(* Mutant: the entity's old rows are left in place.                        *)
UpsertEntityKeepingRows(w) ==
  LET e == Current(w) IN
  /\ pc[w] = "entity"
  /\ at[w] <= Len(page[w])
  /\ RowFree(w, e.key)
  /\ Write(w, e.key, [Read(w, e.key) EXCEPT !.sk = token[w], !.deleted = e.deleted])
  /\ IF e.deleted
       THEN at' = [at EXCEPT ![w] = @ + 1] /\ UNCHANGED <<pc, to>>
       ELSE pc' = [pc EXCEPT ![w] = "targets"] /\ to' = [to EXCEPT ![w] = 1] /\ UNCHANGED at
  /\ UNCHANGED <<db, cursor, page, token, held>>

(* Mutant: a deletion also passes over the entity behind it.               *)
UpsertEntitySkipping(w) ==
  LET e == Current(w) IN
  /\ pc[w] = "entity"
  /\ at[w] <= Len(page[w])
  /\ RowFree(w, e.key)
  /\ Write(w, e.key, Marked(token[w], e.deleted))
  /\ IF e.deleted
       THEN at' = [at EXCEPT ![w] = @ + 2] /\ UNCHANGED <<pc, to>>
       ELSE pc' = [pc EXCEPT ![w] = "targets"] /\ to' = [to EXCEPT ![w] = 1] /\ UNCHANGED at
  /\ UNCHANGED <<db, cursor, page, token, held>>

(* The entity itself.  For a deleted one this is all.                      *)
UpsertEntity(w) ==
  LET e == Current(w) IN
  /\ pc[w] = "entity"
  /\ at[w] <= Len(page[w])
  /\ RowFree(w, e.key)
  /\ Write(w, e.key, Marked(token[w], e.deleted))
  /\ IF e.deleted
       THEN at' = [at EXCEPT ![w] = @ + 1] /\ UNCHANGED <<pc, to>>
       ELSE pc' = [pc EXCEPT ![w] = "targets"] /\ to' = [to EXCEPT ![w] = 1] /\ UNCHANGED at
  /\ UNCHANGED <<db, cursor, page, token, held>>

(* Mutant: an unknown target is not registered.                            *)
TouchKnown(r, t) == IF r.sk = 0 THEN r ELSE [r EXCEPT !.sk = IF @ < t THEN t ELSE @]

(* Mutant: the page's token, be the row's higher.                          *)
TouchLatest(r, t) == IF r.sk = 0 THEN Marked(t, FALSE) ELSE [r EXCEPT !.sk = t]

(* The upsert of upsert_relation_target: a new row, or GREATEST.           *)
Touch(r, t) ==
  IF r.sk = 0 THEN Marked(t, FALSE)
              ELSE [r EXCEPT !.sk = IF @ < t THEN t ELSE @]

UpsertTarget(w) ==
  LET e == Current(w)
      k == e.targets[to[w]] IN
  /\ pc[w] = "targets"
  /\ to[w] <= Len(e.targets)
  /\ RowFree(w, k)
  /\ Write(w, k, Touch(Read(w, k), token[w]))
  /\ to' = [to EXCEPT ![w] = @ + 1]
  /\ UNCHANGED <<db, cursor, pc, page, token, held, at>>

(* insert_entity_row and insert_relation_rows.                             *)
InsertRows(w) ==
  LET e == Current(w) IN
  /\ pc[w] = "targets"
  /\ to[w] > Len(e.targets)
  /\ Write(w, e.key, Filled(Read(w, e.key), token[w], Targets(e)))
  /\ at' = [at EXCEPT ![w] = @ + 1]
  /\ pc' = [pc EXCEPT ![w] = "entity"]
  /\ UNCHANGED <<db, cursor, page, token, held, to>>

(* The transaction ends: its locks go, and the worker is free again.       *)
End(w) ==
  /\ pc' = [pc EXCEPT ![w] = "idle"]
  /\ page' = [page EXCEPT ![w] = <<>>]
  /\ token' = [token EXCEPT ![w] = 0]
  /\ held' = [held EXCEPT ![w] = {}]
  /\ at' = [at EXCEPT ![w] = 1]
  /\ to' = [to EXCEPT ![w] = 1]
  /\ dirty' = [dirty EXCEPT ![w] = {}]
  /\ view' = [view EXCEPT ![w] = NoView]

(* Mutant: a transaction per entity rather than per page.                  *)
CommitEarly(w) ==
  /\ pc[w] = "entity"
  /\ at[w] > 1
  /\ db' = [k \in Keys |-> Read(w, k)]
  /\ cursor' = [cursor EXCEPT ![w] = token[w]]
  /\ End(w)

(* The upsert of sync_category and the COMMIT.                             *)
Commit(w) ==
  /\ pc[w] = "entity"
  /\ at[w] > Len(page[w])
  /\ db' = [k \in Keys |-> Read(w, k)]
  /\ cursor' = [cursor EXCEPT ![w] = token[w]]
  /\ End(w)

(* A mismatch, a missing value or a rejected statement, a lost connection, *)
(* an aborted worker: the transaction is rolled back.                      *)
Rollback(w) ==
  /\ pc[w] # "idle"
  /\ End(w)
  /\ UNCHANGED <<db, cursor>>

Statement(w) ==
  \/ AcquireLock(w) \/ Locked(w) \/ UpsertEntity(w) \/ UpsertTarget(w)
  \/ InsertRows(w) \/ Commit(w)

Next == \E w \in Writers : Begin(w) \/ Statement(w) \/ Rollback(w)

Spec == Init /\ [][Next]_vars

(* PostgreSQL queues the transactions that wait for a lock, first come     *)
(* first served: a statement that can run again and again does run.        *)
Fairness == \A w \in Writers : SF_vars(Statement(w))
FairSpec == Spec /\ Fairness

-------------------------------------------------------------------------------
Tokens == 0 .. MaxToken
Row == [sk : Tokens, deleted : BOOLEAN, row : Tokens, links : SUBSET Keys]

(* A writer that is not idle has a page and is at one of its entities and  *)
(* relations or just past the last.                                        *)
Placed(w) ==
  /\ IF pc[w] = "idle" THEN page[w] = <<>> ELSE page[w] \in Pages[w]
  /\ at[w] <= Len(page[w]) + 1
  /\ pc[w] = "targets" => at[w] <= Len(page[w]) /\ to[w] <= Len(Current(w).targets) + 1

(* Types, and the place in the page of every writer: the loops of          *)
(* write_sync_page stay inside their lists.                                *)
TypeOK ==
  /\ db \in [Keys -> Row]
  /\ cursor \in [Writers -> Tokens]
  /\ pc \in [Writers -> {"idle", "lock", "entity", "targets"}]
  /\ page \in [Writers -> Seq(Entity)]
  /\ token \in [Writers -> Tokens]
  /\ held \in [Writers -> SUBSET Keys]
  /\ at \in [Writers -> Nat \ {0}]
  /\ to \in [Writers -> Nat \ {0}]
  /\ dirty \in [Writers -> SUBSET Keys]
  /\ view \in [Writers -> [Keys -> Row]]
  /\ \A w \in Writers : Placed(w)

(* The row lock or advisory lock the next statement of w needs is held     *)
(* by the transaction of v.                                                *)
WaitsFor(w, v) ==
  /\ w # v
  /\ \/ pc[w] = "lock" /\ \E k \in held[v] : NextLock(w, k)
     \/ pc[w] = "entity" /\ at[w] <= Len(page[w]) /\ Current(w).key \in dirty[v]
     \/ /\ pc[w] = "targets" /\ to[w] <= Len(Current(w).targets)
        /\ Current(w).targets[to[w]] \in dirty[v]

(* No set of transactions in which each waits for another: PostgreSQL      *)
(* never has a deadlock to resolve (sync_writer.rs test                    *)
(* concurrent_pages_with_reciprocal_relation_targets_do_not_deadlock, for  *)
(* any number of writers, keys and pages).                                 *)
NoWaitCycle ==
  \A S \in SUBSET Writers :
    S # {} => \E w \in S : \A v \in S : ~WaitsFor(w, v)

(* The rows of one key fit together: an entity row belongs to a registered *)
(* and current entity, and the registry is never older than it; without an *)
(* entity row there are no relation rows.                                  *)
Fits(r) ==
  /\ r.row # 0 => ~r.deleted /\ r.row <= r.sk
  /\ r.row = 0 => r.links = {}
  /\ r.deleted => r.sk # 0

(* Committed rows fit together, and relation rows point at registered      *)
(* entities (the foreign keys of postgres_schema.rs; GREATEST in           *)
(* upsert_relation_target; delete_current_rows).                           *)
StoreConsistent ==
  \A k \in Keys : Fits(db[k]) /\ \A j \in db[k].links : db[j].sk # 0

(* So do the rows a transaction reads, half way through its page and       *)
(* whatever else is committed meanwhile; before it inserts the rows of an  *)
(* entity its old ones are gone and the targets up to `to` are registered. *)
ViewConsistent(w) ==
  /\ \A k \in Keys : Fits(Read(w, k)) /\ \A j \in Read(w, k).links : Read(w, j).sk # 0
  /\ \A k \in dirty[w] : view[w][k].sk # 0
  /\ pc[w] # "idle" => token[w] # 0
  /\ pc[w] = "targets" =>
       /\ Current(w).key \in dirty[w]
       /\ ~view[w][Current(w).key].deleted
       /\ view[w][Current(w).key].row = 0
       /\ token[w] <= view[w][Current(w).key].sk
       /\ \A i \in 1 .. to[w] - 1 : Read(w, Current(w).targets[i]).sk # 0

ViewsConsistent == \A w \in Writers : ViewConsistent(w)

(* Concurrent transactions, rolled back or committed, have the effect of   *)
(* pages applied one at a time in the order of their commits: no half      *)
(* page, no lost update on a shared relation target.                       *)
RefinesPageStore == Abstract!Spec

(* What a reader of one category sees of a row: its details are there, or  *)
(* not.                                                                    *)
Seen(r) == [sk |-> r.sk, deleted |-> r.deleted, body |-> IF r.row = 0 THEN 0 ELSE 1]

KeysIn(w) == {k \in Keys : Category[k] = w}

Store(w) == INSTANCE CategoryStore WITH
  Keys <- KeysIn(w), MaxToken <- MaxToken,
  store <- [k \in KeysIn(w) |-> Seen(db[k])], feed <- cursor[w]

CategoriesInit == \A w \in Writers : Store(w)!CategoryInit
CategoriesStep == \A w \in Writers : Store(w)!CategoryStep

(* The change feed and the search reconciler rely on this: all rows that a *)
(* commit changes get its one token, above the category's last if any was  *)
(* written by a page of the category; otherwise the others' relations have *)
(* raised tokens, and touched nothing else.                                *)
RefinesCategoryStore == CategoriesInit /\ [][CategoriesStep]_<<db, cursor>>

(* The inductive invariant: locks are exclusive, cover what is written,    *)
(* and are taken in ascending order.                                       *)
LocksOf(w) ==
  /\ dirty[w] \subseteq held[w]
  /\ pc[w] = "idle" => held[w] = {}
  /\ pc[w] = "lock" => /\ dirty[w] = {}
                       /\ \A h \in held[w], k \in KeysOf(page[w]) \ held[w] : h < k
  /\ pc[w] \in {"entity", "targets"} => KeysOf(page[w]) \subseteq held[w]

LocksOrdered ==
  \A w \in Writers :
    /\ LocksOf(w)
    /\ \A v \in Writers \ {w} : held[w] \cap held[v] = {}

(* Every page that is being written is committed or rolled back: nobody    *)
(* waits for a lock for ever.                                              *)
PagesFinish == \A w \in Writers : pc[w] # "idle" ~> pc[w] = "idle"
===============================================================================
