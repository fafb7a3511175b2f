------------------------------ MODULE PageStore ------------------------------
(***************************************************************************)
(* What storing pages promises: "Import commits one page at a time per     *)
(* category" and "API reads the last fully committed state"                *)
(* (docs/architecture.md).  A page is applied in one step, as if no other  *)
(* page were being written.                                                *)
(***************************************************************************)
EXTENDS Naturals, Sequences, SequencesExt

CONSTANTS
  Writers,     \* the category workers, each writing pages of its category
  Keys,        \* (source_category, source_id) pairs, in the order of the type
  Pages,       \* Pages[w]: the pages w may be given, sequences of entities
  MaxToken     \* bound: the last skiptoken

VARIABLES
  db,          \* db[k]: the sync_entity row, entity row and relations of k
  cursor       \* cursor[w]: sync_category.latest_skiptoken

vars == <<db, cursor>>

(* sk = 0: no sync_entity row; row = 0: no entity row, else its skiptoken; *)
(* links: the targets of the entity's relation rows.                       *)
Registered(token, deleted) == [sk |-> token, deleted |-> deleted, row |-> 0, links |-> {}]
Absent == Registered(0, FALSE)
Tokens == 0 .. MaxToken

(* A relation makes its target known, and at least as recent as the page.  *)
Touched(r, token) ==
  IF r.sk = 0 THEN Registered(token, FALSE)
              ELSE [r EXCEPT !.sk = IF @ < token THEN token ELSE @]

(* One entity of a page, as it changes the rows of key k: stored with its  *)
(* relations, or deleted.                                                  *)
StoredRow(r, k, e, token) ==
  LET own == IF k = e.key THEN Registered(token, e.deleted) ELSE r
      known == IF ~e.deleted /\ k \in ToSet(e.targets) THEN Touched(own, token) ELSE own
  IN IF k = e.key /\ ~e.deleted
     THEN [sk |-> known.sk, deleted |-> known.deleted, row |-> token,
           links |-> ToSet(e.targets)]
     ELSE known

Stored(d, e, token) == [k \in Keys |-> StoredRow(d[k], k, e, token)]

(* The entities of a page, one after the other: Stages[n] is the store     *)
(* after the first n.                                                      *)
Stages(d, page, token) ==
  LET stage[n \in 0 .. Len(page)] ==
        IF n = 0 THEN d ELSE Stored(stage[n - 1], page[n], token)
  IN stage

Applied(d, page, token) == Stages(d, page, token)[Len(page)]

Init ==
  /\ db = [k \in Keys |-> Absent]
  /\ cursor = [w \in Writers |-> 0]

ApplyPage(w) ==
  \E page \in Pages[w] : \E token \in cursor[w] + 1 .. MaxToken :
    /\ db' = Applied(db, page, token)
    /\ cursor' = [cursor EXCEPT ![w] = token]

Next == \E w \in Writers : ApplyPage(w)

Spec == Init /\ [][Next]_vars
=============================================================================
