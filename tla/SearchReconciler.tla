--------------------------- MODULE SearchReconciler ---------------------------
(***************************************************************************)
(* opentk-db::search_reconciler: one category's pass that makes the search *)
(* index agree with PostgreSQL, call by call.  Between any two calls the   *)
(* sync workers may commit, and any call may fail or the process die; an   *)
(* index task that was accepted then may still run later.  Nothing durable *)
(* is kept but the index itself: progress is read off it by counting.      *)
(* PostgreSQL and Meilisearch are external, and so is who stores the texts *)
(* of documents; the pages are those of CategoryStore.                     *)
(***************************************************************************)
EXTENDS CategoryStore, FiniteSets, FiniteSetsExt

CONSTANTS
  MaxEvents,   \* bound: commits to the store and failed passes
  BatchSize    \* search.batch_size

ASSUME KeysAssumption == Keys \subseteq Nat /\ IsFiniteSet(Keys)
ASSUME BoundsAssumption == MaxToken \in Nat /\ MaxEvents \in Nat
ASSUME BatchSizeAssumption == BatchSize \in Nat \ {0}   \* validate_config

VARIABLES
  index,       \* documents by key; sk 0: none
  late,        \* accepted index operations whose outcome nobody waited for
  scratch,     \* search_reconciler_scratch
  pc,          \* the next call of reconcile_category
  low, high,   \* find_verified_prefix; high: also the highest indexed token
  best,
  pg,          \* the last postgres_count
  boundary,    \* verified_prefix_boundary
  current,     \* current_boundary
  target,      \* target_boundary
  ids,         \* expected_ids, then the extra documents
  rows,        \* the sync_entity rows of the window
  ops,         \* operations not yet uploaded
  events,      \* commits and failures so far
  quiet,       \* history: the store has not changed in this round of the loop
  orderly      \* history: the condition of ExactIfOrderly

envVars == <<store, feed, events, orderly>>
localVars == <<low, high, best, pg, boundary, current, target, ids, rows, ops>>
vars == <<store, feed, index, late, scratch, pc, low, high, best, pg, boundary,
          current, target, ids, rows, ops, events, quiet, orderly>>

Tokens == 0 .. MaxToken
Contents == 1 .. 2                       \* what is read of a row's text and titles
NoDoc == [sk |-> 0, body |-> 0]
Op == [key : Keys, sk : Tokens, body : {0} \cup Contents]    \* body 0: a delete

-------------------------------------------------------------------------------
(* What the calls return.                                                  *)

(* The JOIN of postgres_count: registered, not deleted, with details.      *)
Live(k) == ~store[k].deleted /\ store[k].body # 0

StoreCount(b) == Cardinality({k \in Keys : Live(k) /\ store[k].sk <= b})
IndexCount(b) == Cardinality({k \in Keys : index[k].sk \in 1 .. b})

RowsAfter(a) == {k \in Keys : store[k].sk > a}

(* next_boundary: the skiptoken of the last of the next BatchSize rows.    *)
NextBoundary(a) ==
  CHOOSE t \in {store[k].sk : k \in RowsAfter(a)} :
    /\ Cardinality({k \in RowsAfter(a) : store[k].sk < t}) < BatchSize
    /\ \/ Cardinality({k \in RowsAfter(a) : store[k].sk <= t}) >= BatchSize
       \/ \A k \in RowsAfter(a) : store[k].sk <= t

(* What a set of accepted operations makes of the index.                   *)
Applied(os) ==
  [k \in Keys |->
     IF \E o \in os : o.key = k
       THEN LET o == CHOOSE o \in os : o.key = k
            IN IF o.body = 0 THEN NoDoc ELSE [sk |-> o.sk, body |-> o.body]
       ELSE index[k]]

Deletes(ks) == [key : ks, sk : {0}, body : {0}]

Mid == low + ((high - low) \div 2)

-------------------------------------------------------------------------------
Init ==
  /\ CategoryInit
  /\ index = [k \in Keys |-> NoDoc]
  /\ late = {}
  /\ scratch = {}
  /\ pc = "idle"
  /\ low = 0 /\ high = 0 /\ best = 0 /\ pg = 0
  /\ boundary = 0 /\ current = 0 /\ target = 0
  /\ ids = {} /\ rows = {} /\ ops = {}
  /\ events = 0
  /\ quiet = TRUE
  /\ orderly = TRUE

(* A local of the code is 0 or empty outside its scope.                    *)

Event == events < MaxEvents /\ events' = events + 1

(* The writers of the store.                                               *)

(* A page of the category, its relations within the category included.     *)
(* The titles it changes are shown by rows it does not bring, too.         *)
StorePage ==
  /\ \E ks \in (SUBSET Keys) \ {{}}, t \in feed + 1 .. MaxToken :
       \E d \in SUBSET ks, touched \in SUBSET (Keys \ ks), reworded \in SUBSET (Keys \ ks) :
         WritePage(ks, d, touched, reworded, t)
  /\ Event
  /\ quiet' = FALSE
  /\ orderly' = (orderly /\ \A k \in Keys : store'[k] = store[k] \/ store'[k].sk = feed')
  /\ UNCHANGED <<index, late, scratch, pc, localVars>>

(* A page of another category whose relations lead to rows of this one, or *)
(* whose entities those rows refer to.                                     *)
StoreRelation ==
  /\ \E ks, reworded \in SUBSET Keys, t \in 1 .. MaxToken :
       /\ \A k \in ks : store[k].sk < t
       /\ WriteElsewhere(ks, reworded, t)
  /\ store' # store
  /\ Event
  /\ quiet' = FALSE
  /\ orderly' = FALSE
  /\ UNCHANGED <<index, late, scratch, pc, localVars>>

(* document_assets stores the text of a document: no skiptoken changes.    *)
StoreContent ==
  \E k \in Keys :
    /\ store[k].body # 0
    /\ store' = [store EXCEPT ![k] = Reworded(@)]
    /\ Event
    /\ quiet' = FALSE
    /\ orderly' = FALSE
    /\ UNCHANGED <<feed, index, late, scratch, pc, localVars>>

(* Meilisearch runs what it accepted from a pass that is gone.             *)
LateTask ==
  /\ late # {}
  /\ index' = Applied(late)
  /\ late' = {}
  /\ quiet' = FALSE
  /\ UNCHANGED <<envVars, scratch, pc, localVars>>

-------------------------------------------------------------------------------
(* reconcile_category.                                                     *)

Begin ==
  /\ pc = "idle"
  /\ pc' = "highest"
  /\ UNCHANGED <<envVars, index, late, scratch, localVars, quiet>>

HighestSkiptoken ==
  /\ pc = "highest"
  /\ high' = Max({0} \cup {index[k].sk : k \in Keys})
  /\ quiet' = (late = {})
  /\ pc' = "countStore"
  /\ UNCHANGED <<envVars, index, late, scratch, low, best, pg, boundary, current, target,
                 ids, rows, ops>>

CountStorePrefix ==
  /\ pc = "countStore"
  /\ pg' = StoreCount(high)
  /\ pc' = "countIndex"
  /\ UNCHANGED <<envVars, index, late, scratch, low, high, best, boundary, current, target,
                 ids, rows, ops, quiet>>

(* Mutant: the highest indexed skiptoken is taken for a verified prefix.   *)
CountIndexPrefixTrusting ==
  /\ pc = "countIndex"
  /\ boundary' = high /\ current' = high
  /\ high' = 0 /\ pg' = 0
  /\ pc' = "window"
  /\ UNCHANGED <<envVars, index, late, scratch, low, best, target, ids, rows, ops, quiet>>

CountIndexPrefix ==
  /\ pc = "countIndex"
  /\ \/ /\ pg = IndexCount(high)
        /\ boundary' = high /\ current' = high
        /\ high' = 0
        /\ pc' = "window"
     \/ /\ pg # IndexCount(high)
        /\ pc' = "searchStore"
        /\ UNCHANGED <<high, boundary, current>>
  /\ pg' = 0
  /\ UNCHANGED <<envVars, index, late, scratch, low, best, target, ids, rows, ops, quiet>>

(* find_verified_prefix: both counts at the middle, then a half is left.   *)
SearchStore ==
  /\ pc = "searchStore"
  /\ low <= high
  /\ pg' = StoreCount(Mid)
  /\ pc' = "searchIndex"
  /\ UNCHANGED <<envVars, index, late, scratch, low, high, best, boundary, current, target,
                 ids, rows, ops, quiet>>

(* Mutant: the boundary one past the middle that was compared.             *)
SearchIndexPast ==
  /\ pc = "searchIndex"
  /\ \/ pg = IndexCount(Mid) /\ best' = Mid + 1 /\ low' = Mid + 1 /\ UNCHANGED high
     \/ pg # IndexCount(Mid) /\ high' = Mid - 1 /\ UNCHANGED <<best, low>>
  /\ pc' = "searchStore"
  /\ UNCHANGED <<envVars, index, late, scratch, pg, boundary, current, target, ids, rows,
                 ops, quiet>>

SearchIndex ==
  /\ pc = "searchIndex"
  /\ \/ pg = IndexCount(Mid) /\ best' = Mid /\ low' = Mid + 1 /\ UNCHANGED high
     \/ pg # IndexCount(Mid) /\ high' = Mid - 1 /\ UNCHANGED <<best, low>>
  /\ pc' = "searchStore"
  /\ UNCHANGED <<envVars, index, late, scratch, pg, boundary, current, target, ids, rows,
                 ops, quiet>>

SearchEnds ==
  /\ pc = "searchStore"
  /\ low > high
  /\ boundary' = best /\ current' = best
  /\ low' = 0 /\ high' = 0 /\ best' = 0 /\ pg' = 0
  /\ pc' = "expected"
  /\ UNCHANGED <<envVars, index, late, scratch, target, ids, rows, ops, quiet>>

(* delete_extra_index_documents.                                           *)
ExpectedIds ==
  /\ pc = "expected"
  /\ ids' = {k \in RowsAfter(boundary) : Live(k)}
  /\ pc' = "extra"
  /\ UNCHANGED <<envVars, index, late, scratch, low, high, best, pg, boundary, current,
                 target, rows, ops, quiet>>

IndexedIds ==
  /\ pc = "extra"
  /\ ids' = {k \in Keys : index[k].sk > boundary} \ ids
  /\ pc' = IF ids' = {} THEN "window" ELSE "delete"
  /\ UNCHANGED <<envVars, index, late, scratch, low, high, best, pg, boundary, current,
                 target, rows, ops, quiet>>

DeleteExtra ==
  /\ pc = "delete"
  /\ late = {}
  /\ index' = Applied(Deletes(ids))
  /\ ids' = {}
  /\ pc' = "window"
  /\ UNCHANGED <<envVars, late, scratch, low, high, best, pg, boundary, current, target,
                 rows, ops, quiet>>

(* apply_window, as long as next_boundary finds rows.                      *)
NextWindow ==
  /\ pc = "window"
  /\ RowsAfter(current) # {}
  /\ target' = NextBoundary(current)
  /\ pc' = "clear"
  /\ UNCHANGED <<envVars, index, late, scratch, low, high, best, pg, boundary, current,
                 ids, rows, ops, quiet>>

ReplaceScratch ==
  /\ pc = "clear"
  /\ scratch' = {}
  /\ pc' = "project"
  /\ UNCHANGED <<envVars, index, late, localVars, quiet>>

Windowed(ks) == {[key |-> k, sk |-> store[k].sk, deleted |-> store[k].deleted] : k \in ks}

(* Mutant: a page of BatchSize rows instead of the whole window.           *)
ProjectPage ==
  /\ pc = "project"
  /\ \E ks \in SUBSET RowsAfter(current) :
       /\ Cardinality(ks) <= BatchSize
       /\ \A k \in ks, j \in RowsAfter(current) \ ks : store[k].sk <= store[j].sk
       /\ ks # {} \/ RowsAfter(current) = {}
       /\ rows' = Windowed(ks)
  /\ pc' = "details"
  /\ UNCHANGED <<envVars, index, late, scratch, low, high, best, pg, boundary, current,
                 target, ids, ops, quiet>>

(* project_category_window: the sync_entity rows, ...                      *)
Project ==
  /\ pc = "project"
  /\ rows' = Windowed({k \in RowsAfter(current) : store[k].sk <= target})
  /\ pc' = "details"
  /\ UNCHANGED <<envVars, index, late, scratch, low, high, best, pg, boundary, current,
                 target, ids, ops, quiet>>

(* ... then their details, by now perhaps others: fields, text and the     *)
(* titles of what they refer to; a row without details is skipped.  The    *)
(* operations go through the scratch table.                                *)
Details ==
  /\ pc = "details"
  /\ LET found == {r \in rows : r.deleted \/ store[r.key].body # 0}
         new == {[key |-> r.key, sk |-> r.sk,
                  body |-> IF r.deleted THEN 0 ELSE store[r.key].body] : r \in found}
     IN /\ scratch' = scratch \cup new
        /\ ops' = scratch'
  /\ rows' = {}
  /\ pc' = "apply"
  /\ UNCHANGED <<envVars, index, late, low, high, best, pg, boundary, current, target, ids,
                 quiet>>

(* Mutant: the scratch rows are read in the order of their ids alone.      *)
BeforeById(o, p) ==
  \/ o.body # 0 /\ p.body = 0
  \/ /\ o.body = 0 <=> p.body = 0
     /\ o.key < p.key

(* The order of upload: upserts before deletes, each by skiptoken and id.  *)
Before(o, p) ==
  \/ o.body # 0 /\ p.body = 0
  \/ /\ o.body = 0 <=> p.body = 0
     /\ \/ o.sk < p.sk
        \/ o.sk = p.sk /\ o.key < p.key

NextOp(o) == o \in ops /\ \A p \in ops \ {o} : Before(o, p)

(* apply_batch_with_payload_limit, with as little as one operation to a    *)
(* request; each is waited for.                                            *)
ApplyOp ==
  /\ pc = "apply"
  /\ late = {}
  /\ \E o \in ops :
       /\ NextOp(o)
       /\ index' = Applied({o})
       /\ ops' = ops \ {o}
  /\ UNCHANGED <<envVars, late, scratch, pc, low, high, best, pg, boundary, current, target,
                 ids, rows, quiet>>

WindowEnds ==
  /\ pc = "apply"
  /\ ops = {}
  /\ scratch' = {}
  /\ current' = target
  /\ target' = 0
  /\ pc' = "window"
  /\ UNCHANGED <<envVars, index, late, low, high, best, pg, boundary, ids, rows, ops, quiet>>

(* No rows are left: the totals decide.                                    *)
CountStoreTotal ==
  /\ pc = "window"
  /\ RowsAfter(current) = {}
  /\ pg' = StoreCount(MaxToken)
  /\ current' = 0
  /\ pc' = "total"
  /\ UNCHANGED <<envVars, index, late, scratch, low, high, best, boundary, target, ids, rows,
                 ops, quiet>>

CountIndexTotal ==
  /\ pc = "total"
  /\ \/ /\ pg = IndexCount(MaxToken)
        /\ pc' = "completed"
        /\ UNCHANGED boundary
     \/ /\ pg # IndexCount(MaxToken)
        /\ pc' = "highest"
        /\ boundary' = 0
  /\ pg' = 0
  /\ UNCHANGED <<envVars, index, late, scratch, low, high, best, current, target, ids, rows,
                 ops, quiet>>

Reset ==
  /\ pc' = "idle"
  /\ low' = 0 /\ high' = 0 /\ best' = 0 /\ pg' = 0
  /\ boundary' = 0 /\ current' = 0 /\ target' = 0
  /\ ids' = {} /\ rows' = {} /\ ops' = {}

Report ==
  /\ pc = "completed"
  /\ Reset
  /\ UNCHANGED <<envVars, index, late, scratch, quiet>>

(* The window being uploaded has two rows of one skiptoken.                *)
Tied == \E o, p \in scratch : o # p /\ o.sk = p.sk

(* An error is returned or the process dies; a request in flight may have  *)
(* been accepted.                                                          *)
Fail ==
  /\ pc \notin {"idle", "completed"}
  /\ Event
  /\ \/ late' = late
     \/ /\ late = {}
        /\ \/ pc = "delete" /\ late' = Deletes(ids)
           \/ pc = "apply" /\ \E o \in ops : NextOp(o) /\ late' = {o}
  /\ orderly' = (orderly /\ (pc = "apply" => ~Tied))
  /\ Reset
  /\ UNCHANGED <<store, feed, index, scratch, quiet>>

Call ==
  \/ HighestSkiptoken \/ CountStorePrefix \/ CountIndexPrefix
  \/ SearchStore \/ SearchIndex \/ SearchEnds
  \/ ExpectedIds \/ IndexedIds \/ DeleteExtra
  \/ NextWindow \/ ReplaceScratch \/ Project \/ Details \/ ApplyOp \/ WindowEnds
  \/ CountStoreTotal \/ CountIndexTotal \/ Report

Store == StorePage \/ StoreRelation \/ StoreContent

Next == Store \/ LateTask \/ Begin \/ Call \/ Fail

Spec == Init /\ [][Next]_vars

(* Calls return, run_loop starts the next pass, Meilisearch works its      *)
(* tasks off.                                                              *)
Fairness == WF_vars(Begin) /\ WF_vars(Call) /\ WF_vars(LateTask)
FairSpec == Spec /\ Fairness

-------------------------------------------------------------------------------
TypeOK ==
  /\ store \in [Keys -> [sk : Tokens, deleted : BOOLEAN, body : {0} \cup Contents]]
  /\ feed \in Tokens
  /\ index \in [Keys -> [sk : Tokens, body : {0} \cup Contents]]
  /\ late \subseteq Op /\ scratch \subseteq Op /\ ops \subseteq Op
  /\ pc \in {"idle", "highest", "countStore", "countIndex", "searchStore", "searchIndex",
             "expected", "extra", "delete", "window", "clear", "project", "details",
             "apply", "total", "completed"}
  /\ low \in 0 .. MaxToken + 1
  /\ {high, best, boundary, current, target, feed} \subseteq Tokens
  /\ best <= high \/ pc # "searchIndex"
  /\ pg \in Nat
  /\ events \in 0 .. MaxEvents
  /\ ids \subseteq Keys
  /\ rows \subseteq [key : Keys, sk : Tokens, deleted : BOOLEAN]
  /\ quiet \in BOOLEAN /\ orderly \in BOOLEAN

(* The document of k is what the mapper makes of the store's rows, those   *)
(* of the entities it refers to included (relation_labels).                *)
Current(k) ==
  index[k] = IF Live(k) THEN [sk |-> store[k].sk, body |-> store[k].body] ELSE NoDoc

(* A completed pass over a store that did not change meanwhile has made    *)
(* everything above the verified prefix exact: each live row has its       *)
(* document, and there is no other document there (delete_extra_index_     *)
(* documents, apply_window), ties at window boundaries included.           *)
SuffixExact ==
  pc = "completed" /\ quiet =>
    \A k \in Keys :
      store[k].sk > boundary \/ index[k].sk > boundary => Current(k)

(* If moreover whatever changed in what is read of a row gave this row a   *)
(* new skiptoken of the category's own feed, which texts of documents and  *)
(* titles of the entities it refers to do not, and no pass stopped inside  *)
(* the upload of a window that has two rows of one skiptoken, then         *)
(* counting does not err: a completed pass leaves the whole index exact,   *)
(* whatever else failed before and wherever.  (Uploading in the order of   *)
(* skiptokens, upserts first, is what makes a window that was cut short    *)
(* show in the counts.)                                                    *)
ExactIfOrderly == pc = "completed" /\ quiet /\ orderly => \A k \in Keys : Current(k)

(* When the store comes to rest, a pass ends: neither the binary search    *)
(* nor `retrying category` goes on for ever.                               *)
PassEnds == pc # "idle" ~> pc = "idle"

(* docs/search-indexing-pipeline.md: "this periodic idempotent refresh is  *)
(* what makes stale Meilisearch documents converge".                       *)
StaleConverges == pc = "completed" /\ quiet => \A k \in Keys : Current(k)
===============================================================================
