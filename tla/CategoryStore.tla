---------------------------- MODULE CategoryStore ----------------------------
(***************************************************************************)
(* What the readers of one category see of opentk-db::sync_writer: its     *)
(* rows change by whole pages, those of the category itself, each with a   *)
(* token above the last, and those of other categories, whose relations    *)
(* reach its rows.  Pages of either kind may also rewrite entities that    *)
(* its rows refer to, whose titles are part of what is read of a row.      *)
(***************************************************************************)
EXTENDS Naturals

CONSTANTS
  Keys,        \* source_ids of the category, in their order
  MaxToken     \* bound: the last skiptoken

VARIABLES
  store,       \* sync_entity and entity row by key; body 0: no entity row,
               \* else which of two versions is read of its text and titles
  feed         \* the category's own latest skiptoken

NoRow == [sk |-> 0, deleted |-> FALSE, body |-> 0]

CategoryInit ==
  /\ store = [k \in Keys |-> NoRow]
  /\ feed = 0

(* Its new rows are without text: that went with the old row.  (What they  *)
(* say otherwise, their token tells.)                                      *)
Brought(t, deleted) ==
  [sk |-> t, deleted |-> deleted, body |-> IF deleted THEN 0 ELSE 1]

(* A relation makes its target known, and at least as recent as its page.  *)
Raised(r, t) == [r EXCEPT !.sk = IF @ < t THEN t ELSE @]

(* Titles come from the rows of the entities it refers to, and these have  *)
(* tokens of their own (bulk_rel_labels).                                  *)
Reworded(r) == [r EXCEPT !.body = IF @ = 0 THEN 0 ELSE 3 - @]

AsRead(r, reworded) == IF reworded THEN Reworded(r) ELSE r

(* A page of the category: its entities get its skiptoken, whatever theirs *)
(* was, and new rows or none; relations may lead to others of the category.*)
WritePage(written, deleted, touched, reworded, t) ==
  /\ t > feed
  /\ store' = [k \in Keys |->
                 AsRead(IF k \in written THEN Brought(t, k \in deleted)
                        ELSE IF k \in touched THEN Raised(store[k], t)
                        ELSE store[k],
                        k \in reworded)]
  /\ feed' = t

(* A page of another category refers to some of its rows, or is referred   *)
(* to.                                                                     *)
WriteElsewhere(touched, reworded, t) ==
  /\ store' = [k \in Keys |->
                 AsRead(IF k \in touched THEN Raised(store[k], t) ELSE store[k],
                        k \in reworded)]
  /\ UNCHANGED feed

CategoryNext ==
  \E reworded, touched \in SUBSET Keys, t \in 1 .. MaxToken :
    \/ \E written \in (SUBSET Keys) \ {{}} : \E deleted \in SUBSET written :
         WritePage(written, deleted, touched, reworded, t)
    \/ WriteElsewhere(touched, reworded, t)

CategoryStep == [CategoryNext]_<<store, feed>>
CategorySpec == CategoryInit /\ [][CategoryNext]_<<store, feed>>

-------------------------------------------------------------------------------
(* The change feed is read off the skiptokens alone.                       *)
Registry == INSTANCE CategoryRegistry WITH
  Ids <- Keys, MaxToken <- MaxToken,
  registry <- [k \in Keys |-> store[k].sk], last <- feed
=============================================================================
